------------------------------ MODULE Eco_proofs ------------------------------
(***************************************************************************)
(* Theorems about Eco, for any answers of the engines, any weights, any    *)
(* rows of speed_bin_factors and any factors.                              *)
(***************************************************************************)
EXTENDS Eco, Lists_proofs

Segment == [m : Nat, min : Nat, long : BOOLEAN, speed : Int, gain : Nat, loss : Nat, grade : Int]
Candidate == [live : BOOLEAN, m : Nat, min : Nat, segments : Seq(Segment)]

\* The plan as it was asked for.
Plan == [kakao : Seq(Raw), ors : Seq(Raw), elevations : BOOLEAN,
         weights : {<< >>} \cup [1 .. 3 -> 0 .. WeightUnit],
         rows : Seq(Bin), factor : Nat]

-----------------------------------------------------------------------------
(* Arithmetic *)

\* Multiplying by a natural keeps an order.
LEMMA ProductMonotone ==
  ASSUME NEW x \in Nat, NEW y \in Nat, NEW z \in Nat, x <= y
  PROVE  x * z \in Nat /\ y * z \in Nat /\ x * z <= y * z
OBVIOUS

\* Multiplying by a positive number keeps a strict order.
LEMMA ProductStrict ==
  ASSUME NEW x \in Nat, NEW y \in Nat, NEW z \in Nat, x < y, z > 0
  PROVE  x * z < y * z
OBVIOUS

\* A quotient is the whole part of a fraction.
LEMMA Quotient ==
  ASSUME NEW a \in Int, NEW b \in Nat \ {0}
  PROVE  a \div b \in Int /\ b * (a \div b) <= a /\ a < b * (a \div b) + b
OBVIOUS

\* A speed is whole, and so is a grade.
LEMMA SpeedIsInteger ==
  ASSUME NEW m \in Nat, NEW min \in Nat
  PROVE  Speed(m, min) \in Int
<1> DEFINE a == 12 * m + min
           b == 2 * min
<1>1. min > 0 => a \in Int /\ b \in Nat \ {0}
  OBVIOUS
<1>2. min > 0 => a \div b \in Int
  <2> HIDE DEF a, b
  <2> QED
    BY <1>1, Quotient
<1> QED
  BY <1>2 DEF Speed

\* A grade is whole, and as steep as the climb it is read off.
LEMMA GradeIs ==
  ASSUME NEW up \in Nat, NEW down \in Nat, NEW m \in Nat, NEW w \in Nat \ {0}
  PROVE  /\ Grade(up, down, m) \in Int
         /\ Grade(up, down, m) >= w => m > 0 /\ 100 * (up - down) >= w * m
         /\ Grade(up, down, m) <= - w => m > 0 /\ 100 * (down - up) >= w * m
<1>1. CASE m = 0
  BY <1>1 DEF Grade
<1>2. ASSUME m # 0, NEW c \in Nat
      PROVE  /\ (100 * c) \div m \in Nat
             /\ (100 * c) \div m >= w => 100 * c >= w * m
  <2> DEFINE a == 100 * c
             g == a \div m
  <2>1. a \in Nat /\ m \in Nat \ {0}
    BY <1>2
  <2> HIDE DEF a
  <2>2. g \in Int /\ m * g <= a /\ a < m * g + m
    BY <2>1, Quotient
  <2>3. g \in Nat
    <3> HIDE DEF g
    <3> SUFFICES ASSUME g < 0 PROVE FALSE
      BY <2>2
    <3> DEFINE d == 0 - (g + 1)
    <3>1. d \in Nat /\ m * d \in Nat
      BY <2>1, <2>2
    <3>2. m * g + m = 0 - m * d
      BY <2>1, <2>2
    <3> HIDE DEF d
    <3> QED
      BY <2>1, <2>2, <3>1, <3>2
  <2>4. ASSUME g >= w PROVE w * m <= a
    <3> HIDE DEF g
    <3>1. w * m <= g * m
      BY <2>1, <2>3, <2>4, ProductMonotone
    <3>2. g * m = m * g /\ w * m \in Nat /\ g * m \in Nat
      BY <2>1, <2>3
    <3> QED
      BY <2>1, <2>2, <3>1, <3>2
  <2>5. w * m \in Nat
    BY <2>1
  <2> HIDE DEF g
  <2> QED
    BY <2>1, <2>3, <2>4, <2>5 DEF a, g
<1>3. CASE m # 0 /\ up >= down
  <2> DEFINE c == up - down
  <2>1. c \in Nat
    BY <1>3
  <2> HIDE DEF c
  <2>2. (100 * c) \div m \in Nat /\ ((100 * c) \div m >= w => 100 * c >= w * m)
    BY <1>2, <1>3, <2>1
  <2>3. Grade(up, down, m) = (100 * c) \div m
    BY <1>3 DEF Grade, c
  <2> DEFINE g == (100 * c) \div m
             l == w * m
  <2> HIDE DEF g, l
  <2>4. g \in Nat /\ (g >= w => 100 * c >= l) /\ Grade(up, down, m) = g
    BY <2>2, <2>3 DEF g, l
  <2>5. ~ (g <= - w)
    BY <2>4
  <2> QED
    BY <1>3, <2>4, <2>5 DEF c, l
<1>4. CASE m # 0 /\ ~ (up >= down)
  <2> DEFINE c == down - up
  <2>1. c \in Nat
    BY <1>4
  <2> HIDE DEF c
  <2>2. (100 * c) \div m \in Nat /\ ((100 * c) \div m >= w => 100 * c >= w * m)
    BY <1>2, <1>4, <2>1
  <2>3. Grade(up, down, m) = - ((100 * c) \div m)
    BY <1>4 DEF Grade, c
  <2> DEFINE g == (100 * c) \div m
             l == w * m
  <2> HIDE DEF g, l
  <2>4. g \in Nat /\ (g >= w => 100 * c >= l) /\ Grade(up, down, m) = - g
    BY <2>2, <2>3 DEF g, l
  <2>5. ~ (- g >= w) /\ (- g <= - w => g >= w)
    BY <2>4
  <2> QED
    BY <1>4, <2>4, <2>5 DEF c, l
<1> QED
  BY <1>1, <1>3, <1>4

\* The first of the least of a list that is not empty is one of its indices.
LEMMA FirstLeastIs ==
  ASSUME NEW s \in Seq(Nat), s # << >>
  PROVE  /\ FirstLeast(s) \in 1 .. Len(s)
         /\ \A j \in 1 .. Len(s) : s[FirstLeast(s)] <= s[j]
<1>1. /\ Len(s) \in Nat /\ 1 .. Len(s) # {} /\ DOMAIN s = 1 .. Len(s)
      /\ \A i \in 1 .. Len(s) : s[i] \in Int
  <2>1. Len(s) \in Nat /\ DOMAIN s = 1 .. Len(s) /\ \A i \in 1 .. Len(s) : s[i] \in Int
    OBVIOUS
  <2>2. Len(s) # 0
    OBVIOUS
  <2>3. 1 \in 1 .. Len(s)
    BY <2>1, <2>2
  <2> QED
    BY <2>1, <2>3
<1>2. \E i \in 1 .. Len(s) : \A j \in 1 .. Len(s) :
        s[i] < s[j] \/ (s[i] = s[j] /\ i <= j)
  BY <1>1, FirstOfLeast
<1>3. /\ FirstLeast(s) \in 1 .. Len(s)
      /\ \A j \in 1 .. Len(s) :
           \/ s[FirstLeast(s)] < s[j]
           \/ (s[FirstLeast(s)] = s[j] /\ FirstLeast(s) <= j)
  BY <1>1, <1>2, Zenon DEF FirstLeast
<1> QED
  BY <1>1, <1>3

-----------------------------------------------------------------------------
(* What the parsers return *)

\* A segment tells its piece: length, duration, the length of its name, no more
\* than its hills, its grade if there is one, and its speed or that of the traffic.
Tells(seg, p) ==
  /\ seg.m = p.m /\ seg.min = p.min /\ seg.long = p.long
  /\ seg.gain <= p.up /\ seg.loss <= p.down
  /\ seg.grade \in {0, Grade(p.up, p.down, p.m)}
  /\ seg.speed \in {Speed(p.m, p.min), 100 * p.traffic}

\* Every piece that is not skipped becomes one segment of figures, in order.
LEMMA SegmentsTyped ==
  ASSUME NEW p \in Piece, NEW elevations
  PROVE  /\ Road(p, elevations) \in Segment /\ Tells(Road(p, elevations), p)
         /\ OrsStep(p) \in Segment /\ Tells(OrsStep(p), p)
<1>1. /\ p.m \in Nat /\ p.min \in Nat /\ p.traffic \in Nat /\ p.up \in Nat /\ p.down \in Nat
      /\ p.long \in BOOLEAN
  BY DEF Piece
<1>2. Speed(p.m, p.min) \in Int
  BY <1>1, SpeedIsInteger
<1>3. Grade(p.up, p.down, p.m) \in Int
  <2>1. 1 \in Nat \ {0}
    OBVIOUS
  <2> QED
    BY <1>1, <2>1, GradeIs
<1>4. Road(p, elevations) \in Segment /\ Tells(Road(p, elevations), p)
  BY <1>1, <1>2, <1>3 DEF Road, Segment, Tells
<1>5. OrsStep(p) \in Segment /\ Tells(OrsStep(p), p)
  BY <1>1, <1>2, <1>3 DEF OrsStep, Segment, Tells
<1> QED
  BY <1>4, <1>5

\* What is picked of a list comes from it.
LEMMA PickedFrom ==
  ASSUME NEW T, NEW seq \in Seq(T), NEW kept
  PROVE  /\ Picked(seq, kept) \in Seq(T)
         /\ \A i \in 1 .. Len(Picked(seq, kept)) :
              \E k \in 1 .. Len(seq) : Picked(seq, kept)[i] = seq[k]
<1>1. Picked(seq, kept) \in Seq(T)
  BY PickedKeepsOrder
<1>2. PICK h : IsPick(h, Picked(seq, kept), seq, kept, Len(seq))
  BY PickedKeepsOrder
<1>3. \A i \in 1 .. Len(Picked(seq, kept)) :
        h[i] \in 1 .. Len(seq) /\ Picked(seq, kept)[i] = seq[h[i]]
  BY <1>2 DEF IsPick
<1> QED
  BY <1>1, <1>3

\* The lines of a route are pieces of it.
LEMMA LinesFrom ==
  ASSUME NEW raw \in Raw
  PROVE  /\ Lines(raw) \in Seq(Piece)
         /\ \A i \in 1 .. Len(Lines(raw)) : Lines(raw)[i] \in Range(raw.pieces)
<1> DEFINE kept == {k \in DOMAIN raw.pieces : raw.pieces[k].shape # "point"}
<1>1. raw.pieces \in Seq(Piece) /\ DOMAIN raw.pieces = 1 .. Len(raw.pieces)
  BY DEF Raw
<1>2. Lines(raw) = Picked(raw.pieces, kept)
  BY DEF Lines
<1> HIDE DEF kept
<1>3. Lines(raw) \in Seq(Piece)
  BY <1>1, <1>2, PickedFrom
<1>4. \A i \in 1 .. Len(Lines(raw)) : \E k \in DOMAIN raw.pieces : Lines(raw)[i] = raw.pieces[k]
  BY <1>1, <1>2, PickedFrom
<1>5. \A i \in 1 .. Len(Lines(raw)) : Lines(raw)[i] \in Range(raw.pieces)
  BY <1>4 DEF Range
<1> QED
  BY <1>3, <1>5

\* The routes that can be used are routes of the answer.
LEMMA UsableFrom ==
  ASSUME NEW answer \in Seq(Raw)
  PROVE  /\ Usable(answer) \in Seq(Raw)
         /\ \A i \in 1 .. Len(Usable(answer)) : Usable(answer)[i] \in Range(answer)
<1> DEFINE few == IF Len(answer) < Alternatives THEN Len(answer) ELSE Alternatives
           asked == Asked(answer)
           kept == {k \in DOMAIN asked : asked[k].ok}
<1>1. few \in Nat /\ few <= Len(answer) /\ Len(answer) \in Nat
  BY EcoAssumption
<1>2. asked = SubSeq(answer, 1, few)
  BY DEF Asked
<1> HIDE DEF few
<1>3. /\ asked \in Seq(Raw) /\ Len(asked) = few
      /\ \A k \in 1 .. few : asked[k] = answer[k]
  BY <1>1, <1>2
<1>4. Usable(answer) = Picked(asked, kept)
  BY DEF Usable
<1> HIDE DEF kept, asked
<1>5. Usable(answer) \in Seq(Raw)
  BY <1>3, <1>4, PickedFrom
<1>6. \A i \in 1 .. Len(Usable(answer)) : \E k \in 1 .. few : Usable(answer)[i] = asked[k]
  BY <1>3, <1>4, PickedFrom
<1>7. \A k \in 1 .. few : k \in DOMAIN answer
  BY <1>1
<1>8. \A i \in 1 .. Len(Usable(answer)) : Usable(answer)[i] \in Range(answer)
  BY <1>3, <1>6, <1>7 DEF Range
<1> QED
  BY <1>5, <1>8

\* A candidate of a route of the answer, whose segments tell pieces of it.
ParsedFrom(route, answer) ==
  \E raw \in Range(answer) :
    /\ route.m = raw.m /\ route.min = raw.min
    /\ \A k \in DOMAIN route.segments :
         \E p \in Range(raw.pieces) : Tells(route.segments[k], p)

\* What the adapter of Kakao makes of any answer is a list of candidates.
LEMMA KakaoRoutesTyped ==
  ASSUME NEW answer \in Seq(Raw), NEW elevations
  PROVE  /\ KakaoRoutes(answer, elevations) \in Seq(Candidate)
         /\ \A i \in DOMAIN KakaoRoutes(answer, elevations) :
              ParsedFrom(KakaoRoutes(answer, elevations)[i], answer)
<1> DEFINE ok == Usable(answer)
           n == Len(ok)
           segments(raw) == [i \in DOMAIN Lines(raw) |-> Road(Lines(raw)[i], elevations)]
           parsed(raw) == [live |-> TRUE, m |-> raw.m, min |-> raw.min,
                           segments |-> segments(raw)]
           all == [i \in DOMAIN ok |-> parsed(ok[i])]
<1>1. KakaoRoutes(answer, elevations) \in {<< >>, all}
  BY DEF KakaoRoutes
<1>2. /\ ok \in Seq(Raw) /\ n \in Nat /\ DOMAIN ok = 1 .. n
      /\ \A i \in 1 .. n : ok[i] \in Range(answer)
  BY UsableFrom
<1>3. ASSUME NEW raw \in Raw
      PROVE  /\ parsed(raw) \in Candidate /\ parsed(raw).m = raw.m /\ parsed(raw).min = raw.min
             /\ \A k \in DOMAIN parsed(raw).segments :
                  \E p \in Range(raw.pieces) : Tells(parsed(raw).segments[k], p)
  <2> DEFINE l == Len(Lines(raw))
  <2>1. l \in Nat /\ DOMAIN Lines(raw) = 1 .. l
    BY LinesFrom
  <2>2. \A i \in 1 .. l : Lines(raw)[i] \in Piece /\ Lines(raw)[i] \in Range(raw.pieces)
    BY LinesFrom
  <2>3. \A i \in 1 .. l : /\ Road(Lines(raw)[i], elevations) \in Segment
                          /\ Tells(Road(Lines(raw)[i], elevations), Lines(raw)[i])
    BY <2>2, SegmentsTyped
  <2>4. segments(raw) \in [1 .. l -> Segment]
    BY <2>1, <2>3
  <2>5. segments(raw) \in Seq(Segment)
    <3> HIDE DEF l, segments
    <3> QED
      BY <2>1, <2>4, FunctionIsList
  <2>6. raw.m \in Nat /\ raw.min \in Nat
    BY DEF Raw
  <2>7. parsed(raw) \in Candidate
    BY <2>5, <2>6 DEF Candidate
  <2>8. \A k \in 1 .. l : \E p \in Range(raw.pieces) : Tells(segments(raw)[k], p)
    BY <2>1, <2>2, <2>3
  <2> QED
    BY <2>1, <2>7, <2>8
<1>4. \A i \in 1 .. n : parsed(ok[i]) \in Candidate /\ ParsedFrom(parsed(ok[i]), answer)
  <2> HIDE DEF parsed
  <2>1. \A i \in 1 .. n : ok[i] \in Raw
    BY <1>2
  <2> QED
    BY <1>2, <1>3, <2>1 DEF ParsedFrom
<1>5. all \in [1 .. n -> Candidate] /\ \A i \in 1 .. n : all[i] = parsed(ok[i])
  <2> HIDE DEF parsed, n
  <2> QED
    BY <1>2, <1>4
<1>6. all \in Seq(Candidate) /\ DOMAIN all = 1 .. n
  <2> HIDE DEF all, n
  <2> QED
    BY <1>2, <1>5, FunctionIsList
<1> HIDE DEF all, n, parsed
<1>7. CASE KakaoRoutes(answer, elevations) = << >>
  BY <1>7
<1>8. CASE KakaoRoutes(answer, elevations) = all
  BY <1>4, <1>5, <1>6, <1>8
<1> QED
  BY <1>1, <1>7, <1>8

\* What the adapter of ORS makes of any answer is a list of candidates.
LEMMA OrsRoutesTyped ==
  ASSUME NEW answer \in Seq(Raw)
  PROVE  /\ OrsRoutes(answer) \in Seq(Candidate)
         /\ \A i \in DOMAIN OrsRoutes(answer) : ParsedFrom(OrsRoutes(answer)[i], answer)
<1> DEFINE ok == Usable(answer)
           n == Len(ok)
           segments(raw) == [i \in DOMAIN Lines(raw) |-> OrsStep(Lines(raw)[i])]
           parsed(raw) == [live |-> FALSE, m |-> raw.m, min |-> raw.min,
                           segments |-> segments(raw)]
           all == [i \in DOMAIN ok |-> parsed(ok[i])]
<1>1. OrsRoutes(answer) = all
  BY DEF OrsRoutes
<1>2. /\ ok \in Seq(Raw) /\ n \in Nat /\ DOMAIN ok = 1 .. n
      /\ \A i \in 1 .. n : ok[i] \in Range(answer)
  BY UsableFrom
<1>3. ASSUME NEW raw \in Raw
      PROVE  /\ parsed(raw) \in Candidate /\ parsed(raw).m = raw.m /\ parsed(raw).min = raw.min
             /\ \A k \in DOMAIN parsed(raw).segments :
                  \E p \in Range(raw.pieces) : Tells(parsed(raw).segments[k], p)
  <2> DEFINE l == Len(Lines(raw))
  <2>1. l \in Nat /\ DOMAIN Lines(raw) = 1 .. l
    BY LinesFrom
  <2>2. \A i \in 1 .. l : Lines(raw)[i] \in Piece /\ Lines(raw)[i] \in Range(raw.pieces)
    BY LinesFrom
  <2>3. \A i \in 1 .. l : /\ OrsStep(Lines(raw)[i]) \in Segment
                          /\ Tells(OrsStep(Lines(raw)[i]), Lines(raw)[i])
    BY <2>2, SegmentsTyped
  <2>4. segments(raw) \in [1 .. l -> Segment]
    BY <2>1, <2>3
  <2>5. segments(raw) \in Seq(Segment)
    <3> HIDE DEF l, segments
    <3> QED
      BY <2>1, <2>4, FunctionIsList
  <2>6. raw.m \in Nat /\ raw.min \in Nat
    BY DEF Raw
  <2>7. parsed(raw) \in Candidate
    BY <2>5, <2>6 DEF Candidate
  <2>8. \A k \in 1 .. l : \E p \in Range(raw.pieces) : Tells(segments(raw)[k], p)
    BY <2>1, <2>2, <2>3
  <2> QED
    BY <2>1, <2>7, <2>8
<1>4. \A i \in 1 .. n : parsed(ok[i]) \in Candidate /\ ParsedFrom(parsed(ok[i]), answer)
  <2> HIDE DEF parsed
  <2>1. \A i \in 1 .. n : ok[i] \in Raw
    BY <1>2
  <2> QED
    BY <1>2, <1>3, <2>1 DEF ParsedFrom
<1>5. all \in [1 .. n -> Candidate] /\ \A i \in 1 .. n : all[i] = parsed(ok[i])
  <2> HIDE DEF parsed, n
  <2> QED
    BY <1>2, <1>4
<1>6. all \in Seq(Candidate) /\ DOMAIN all = 1 .. n
  <2> HIDE DEF all, n
  <2> QED
    BY <1>2, <1>5, FunctionIsList
<1> HIDE DEF all, n, parsed
<1> QED
  BY <1>1, <1>4, <1>5, <1>6

-----------------------------------------------------------------------------
(* CO2 *)

\* Some bin is the one that counts: the first of those with the least lower end.
Counts(i, hits, rows) ==
  \A j \in hits : rows[i].lo < rows[j].lo \/ (rows[i].lo = rows[j].lo /\ i <= j)

\* Of the bins that fit, one is counted: the first with the least bound.
LEMMA OneCounts ==
  ASSUME NEW rows \in Seq(Bin), NEW hits \in SUBSET (DOMAIN rows), hits # {}
  PROVE  /\ \E i \in hits : Counts(i, hits, rows)
         /\ \A i \in hits, j \in hits : Counts(i, hits, rows) /\ Counts(j, hits, rows) => i = j
<1>1. /\ Len(rows) \in Nat /\ DOMAIN rows = 1 .. Len(rows)
      /\ \A i \in hits : i \in 1 .. Len(rows) /\ rows[i].lo \in Int
  <2>1. \A i \in 1 .. Len(rows) : rows[i] \in Bin
    OBVIOUS
  <2>2. \A i \in hits : i \in DOMAIN rows
    OBVIOUS
  <2> QED
    BY <2>1, <2>2 DEF Bin
<1> DEFINE lo == [i \in 1 .. Len(rows) |-> rows[i].lo]
<1>2. /\ \A i \in hits : lo[i] = rows[i].lo /\ lo[i] \in Int
      /\ hits \in SUBSET (1 .. Len(rows))
  BY <1>1
<1> HIDE DEF lo
<1>3. PICK i \in hits : \A j \in hits : lo[i] < lo[j] \/ (lo[i] = lo[j] /\ i <= j)
  BY <1>1, <1>2, FirstOfLeast
<1>4. Counts(i, hits, rows)
  BY <1>2, <1>3 DEF Counts
<1>5. \A a \in hits, b \in hits : Counts(a, hits, rows) /\ Counts(b, hits, rows) => a = b
  BY <1>1 DEF Counts
<1> QED
  BY <1>4, <1>5

\* The rows that are for one kind of engine only.
KindOf(live) == IF live THEN "dynamic_only" ELSE "static_only"

\* Where the rows are tiled, the range that starts last before a speed holds it,
\* and whatever else holds it says the same.
LEMMA TiledHits ==
  ASSUME NEW rows \in Seq(Bin), NEW live \in BOOLEAN,
         Tiled(rows, KindOf(live)),
         NEW speed \in Int, speed > 0, speed < Top
  PROVE  \E h \in Hits(rows, speed, live) :
           \A j \in Hits(rows, speed, live) : rows[h].mult = rows[j].mult
<1> DEFINE own == {i \in DOMAIN rows : rows[i].to \in {"all", KindOf(live)}}
           below == {i \in own : rows[i].lo <= speed}
           hits == Hits(rows, speed, live)
<1>1. PICK n \in Nat : n = Len(rows)
  OBVIOUS
<1>2. /\ \A i \in own : i \in 1 .. n /\ rows[i].lo \in Int /\ rows[i].hi \in Int
      /\ below \in SUBSET (1 .. n)
  <2>1. \A i \in 1 .. n : rows[i] \in Bin
    BY <1>1
  <2>2. \A i \in own : i \in 1 .. n
    BY <1>1
  <2>3. \A i \in own : rows[i].lo \in Int /\ rows[i].hi \in Int
    BY <2>1, <2>2 DEF Bin
  <2>4. \A i \in below : i \in 1 .. n
    BY <2>2
  <2> QED
    BY <2>2, <2>3, <2>4
<1>3. /\ \E i \in own : rows[i].lo <= 0
      /\ \A i \in own :
           /\ rows[i].lo < rows[i].hi
           /\ rows[i].hi >= Top \/ \E j \in own : rows[j].lo = rows[i].hi
           /\ \A j \in own : \/ rows[i].mult = rows[j].mult
                             \/ rows[i].hi <= rows[j].lo \/ rows[j].hi <= rows[i].lo
  BY DEF Tiled
<1>4. \A i : i \in hits <=> i \in own /\ rows[i].lo <= speed /\ speed < rows[i].hi
  BY DEF Hits, InBin, Applies, KindOf
<1>5. \A i : i \in below <=> i \in own /\ rows[i].lo <= speed
  OBVIOUS
<1> DEFINE down == [i \in 1 .. n |-> 0 - rows[i].lo]
<1>6. \A i \in below : down[i] = 0 - rows[i].lo /\ down[i] \in Int
  BY <1>2, <1>5
<1>7. below # {}
  BY <1>2, <1>3, <1>5
<1> HIDE DEF own, below, hits, down
<1>8. PICK h \in below : \A j \in below : down[h] < down[j] \/ (down[h] = down[j] /\ h <= j)
  BY <1>2, <1>6, <1>7, FirstOfLeast
<1>9. \A j \in below : rows[j].lo <= rows[h].lo
  <2> SUFFICES ASSUME NEW j \in below PROVE rows[j].lo <= rows[h].lo
    OBVIOUS
  <2>1. down[h] <= down[j] /\ down[h] = 0 - rows[h].lo /\ down[j] = 0 - rows[j].lo
    BY <1>6, <1>8
  <2>2. rows[h].lo \in Int /\ rows[j].lo \in Int
    BY <1>2, <1>5
  <2> QED
    BY <2>1, <2>2
<1>10. h \in hits
  <2> SUFFICES ASSUME ~ (speed < rows[h].hi) PROVE FALSE
    BY <1>4, <1>5
  <2>1. h \in own /\ rows[h].hi <= speed /\ rows[h].hi \in Int /\ rows[h].lo \in Int
    BY <1>2, <1>5
  <2>2. ~ (rows[h].hi >= Top)
    BY <2>1 DEF Top
  <2>3. PICK j \in own : rows[j].lo = rows[h].hi
    BY <1>3, <2>1, <2>2
  <2>4. j \in below
    BY <1>5, <2>1, <2>3
  <2> QED
    BY <1>3, <1>9, <2>1, <2>3, <2>4
<1>11. ASSUME NEW j \in hits PROVE rows[h].mult = rows[j].mult
  <2>1. /\ h \in own /\ rows[h].lo <= speed /\ speed < rows[h].hi
        /\ j \in own /\ rows[j].lo <= speed /\ speed < rows[j].hi
    BY <1>4, <1>10
  <2>2. \/ rows[h].mult = rows[j].mult
        \/ rows[h].hi <= rows[j].lo \/ rows[j].hi <= rows[h].lo
    BY <1>3, <2>1
  <2>3. /\ rows[h].lo \in Int /\ rows[h].hi \in Int
        /\ rows[j].lo \in Int /\ rows[j].hi \in Int
    BY <1>2, <2>1
  <2> QED
    BY <2>1, <2>2, <2>3
<1> QED
  BY <1>10, <1>11 DEF hits

\* What is looked up is neutral or of the bin that counts.
LEMMA FirstBinIs ==
  ASSUME NEW rows \in Seq(Bin), NEW speed \in Int, NEW live \in BOOLEAN
  PROVE  /\ Hits(rows, speed, live) = {} => FirstBin(rows, speed, live) = Neutral
         /\ Hits(rows, speed, live) # {} =>
              \E i \in Hits(rows, speed, live) :
                /\ Counts(i, Hits(rows, speed, live), rows)
                /\ FirstBin(rows, speed, live) = rows[i].mult
         /\ FirstBin(rows, speed, live) \in Nat
<1> DEFINE hits == Hits(rows, speed, live)
<1>1. CASE hits = {}
  BY <1>1 DEF FirstBin, Neutral
<1>2. CASE hits # {}
  <2>1. hits \in SUBSET (DOMAIN rows)
    BY DEF Hits
  <2>2. \E i \in hits : Counts(i, hits, rows)
    <3> HIDE DEF hits
    <3> QED
      BY <1>2, <2>1, OneCounts
  <2> DEFINE i == CHOOSE k \in hits : Counts(k, hits, rows)
  <2>3. i \in hits /\ Counts(i, hits, rows)
    <3> HIDE DEF hits
    <3> QED
      BY <2>2, Zenon
  <2>4. FirstBin(rows, speed, live) = rows[i].mult
    BY <1>2 DEF FirstBin, Counts
  <2>5. rows[i].mult \in Nat
    <3>1. i \in DOMAIN rows
      BY <2>1, <2>3
    <3> HIDE DEF i
    <3>2. rows[i] \in Bin
      BY <3>1
    <3> QED
      BY <3>2 DEF Bin
  <2> HIDE DEF i
  <2> QED
    BY <1>2, <2>3, <2>4, <2>5
<1> QED
  BY <1>1, <1>2

\* A multiplier is a natural.
LEMMA MultiplierTyped ==
  ASSUME NEW rows \in Seq(Bin), NEW speed \in Int, NEW live \in BOOLEAN
  PROVE  Multiplier(rows, speed, live) \in Nat
BY FirstBinIs DEF Multiplier, Neutral

\* The rows of a book for the other kind of engine.
Other(live) == IF live THEN "static_only" ELSE "dynamic_only"
OwnRows(rows, live) == Picked(rows, {k \in DOMAIN rows : rows[k].to # Other(live)})

\* Without the bins of the other engines the same bin counts.
LEMMA FirstBinOfOwnRows ==
  ASSUME NEW rows \in Seq(Bin), NEW speed \in Int, NEW live \in BOOLEAN
  PROVE  /\ OwnRows(rows, live) \in Seq(Bin)
         /\ FirstBin(OwnRows(rows, live), speed, live) = FirstBin(rows, speed, live)
<1> DEFINE kept == {k \in DOMAIN rows : rows[k].to # Other(live)}
           own == OwnRows(rows, live)
           H == Hits(rows, speed, live)
           G == Hits(own, speed, live)
<1>1. own = Picked(rows, kept) /\ kept \subseteq DOMAIN rows
  BY DEF OwnRows
<1>2. \A k \in H : k \in kept
  BY DEF Hits, Applies, Other
<1> HIDE DEF kept, own
<1>3. own \in Seq(Bin)
  BY <1>1, PickedKeepsOrder
<1>4. PICK h : IsPick(h, own, rows, kept, Len(rows))
  BY <1>1, PickedKeepsOrder
<1>5. /\ Len(rows) \in Nat /\ Len(own) \in Nat
      /\ DOMAIN rows = 1 .. Len(rows) /\ DOMAIN own = 1 .. Len(own)
  BY <1>3
<1>6. /\ \A g \in 1 .. Len(own) : h[g] \in 1 .. Len(rows) /\ own[g] = rows[h[g]]
      /\ \A a, b \in 1 .. Len(own) : a < b => h[a] < h[b]
      /\ \A k \in kept : \E g \in 1 .. Len(own) : h[g] = k
  BY <1>1, <1>4, <1>5 DEF IsPick
<1>7. \A g \in G : g \in 1 .. Len(own) /\ h[g] \in H
  BY <1>5, <1>6 DEF Hits
<1>8. \A k \in H : \E g \in G : h[g] = k
  BY <1>2, <1>5, <1>6 DEF Hits
<1>9. G = {} <=> H = {}
  <2> HIDE DEF G, H
  <2> QED
    BY <1>7, <1>8
<1>10. ASSUME NEW g \in G, Counts(g, G, own) PROVE Counts(h[g], H, rows)
  <2> SUFFICES ASSUME NEW k \in H
               PROVE  rows[h[g]].lo < rows[k].lo \/ (rows[h[g]].lo = rows[k].lo /\ h[g] <= k)
    BY DEF Counts
  <2> HIDE DEF G, H
  <2>1. PICK d \in G : h[d] = k
    BY <1>8
  <2>2. own[g].lo < own[d].lo \/ (own[g].lo = own[d].lo /\ g <= d)
    BY <1>10, <2>1 DEF Counts
  <2>3. own[g] = rows[h[g]] /\ own[d] = rows[k] /\ g \in 1 .. Len(own) /\ d \in 1 .. Len(own)
    BY <1>6, <1>7, <2>1
  <2>4. g <= d => h[g] <= h[d]
    <3>1. h[g] \in 1 .. Len(rows) /\ h[d] \in 1 .. Len(rows)
      BY <1>6, <2>3
    <3>2. g < d => h[g] < h[d]
      BY <1>6, <2>3
    <3>3. g = d \/ g < d \/ ~ (g <= d)
      BY <1>5, <2>3
    <3> QED
      BY <1>5, <3>1, <3>2, <3>3
  <2> QED
    BY <2>1, <2>2, <2>3, <2>4
<1>11. CASE H = {}
  <2> HIDE DEF G, H
  <2>1. G = {}
    BY <1>9, <1>11
  <2> QED
    BY <1>3, <1>11, <2>1, FirstBinIs DEF G, H, own
<1>12. CASE H # {}
  <2>1. PICK k \in H : Counts(k, H, rows) /\ FirstBin(rows, speed, live) = rows[k].mult
    BY <1>12, FirstBinIs
  <2>2. G # {}
    BY <1>9, <1>12
  <2>3. PICK g \in G : Counts(g, G, own) /\ FirstBin(own, speed, live) = own[g].mult
    BY <1>3, <1>12, <2>2, FirstBinIs
  <2>4. h[g] \in H /\ Counts(h[g], H, rows) /\ own[g] = rows[h[g]]
    BY <1>6, <1>7, <1>10, <2>3
  <2>5. H \in SUBSET (DOMAIN rows)
    BY DEF Hits
  <2> HIDE DEF G, H
  <2>6. h[g] = k
    BY <1>12, <2>1, <2>4, <2>5, OneCounts
  <2> QED
    BY <1>3, <2>1, <2>3, <2>4, <2>6 DEF own
<1> QED
  BY <1>11, <1>12

\* What a segment emits per unit of the factor.
Unit(seg, live, rows) ==
  Km(seg.m) * (Multiplier(rows, seg.speed, live) * GradeMultiplier(seg.grade))

\* The emission of a segment is a natural multiple of the factor.
LEMMA SegmentEmissionIs ==
  ASSUME NEW seg \in Segment, NEW live \in BOOLEAN, NEW rows \in Seq(Bin), NEW factor \in Nat
  PROVE  /\ Unit(seg, live, rows) \in Nat
         /\ SegmentEmission(seg, live, rows, factor) \in Nat
         /\ SegmentEmission(seg, live, rows, factor) = factor * Unit(seg, live, rows)
<1> DEFINE km == Km(seg.m)
           mult == Multiplier(rows, seg.speed, live)
           grade == GradeMultiplier(seg.grade)
<1>1. seg.m \in Nat /\ seg.speed \in Int /\ seg.grade \in Int
  BY DEF Segment
<1>2. km \in Nat
  BY <1>1 DEF Km
<1>3. mult \in Nat
  BY <1>1, MultiplierTyped
<1>4. grade \in Nat
  BY <1>1 DEF GradeMultiplier
<1>5. /\ Unit(seg, live, rows) = km * (mult * grade)
      /\ SegmentEmission(seg, live, rows, factor) = km * factor * mult * grade
  BY DEF Unit, SegmentEmission
<1> HIDE DEF km, mult, grade
<1>6. mult * grade \in Nat
  BY <1>3, <1>4
<1>7. km * (mult * grade) \in Nat
  BY <1>2, <1>6
<1>8. factor * (km * (mult * grade)) \in Nat
  BY <1>7
<1>9. km * factor * mult * grade = factor * (km * (mult * grade))
  BY <1>2, <1>3, <1>4
<1> QED
  BY <1>5, <1>7, <1>8, <1>9

\* What the segments of a route emit.
Emissions(route, rows, factor) ==
  [i \in DOMAIN route.segments |->
     SegmentEmission(route.segments[i], route.live, rows, factor)]

\* The emission of a candidate is the factor times a natural that does not
\* depend on it.
LEMMA EmissionsAre ==
  ASSUME NEW route \in Candidate, NEW rows \in Seq(Bin), NEW factor \in Nat
  PROVE  /\ SegmentsEmission(route, rows, factor) = SumOf(Emissions(route, rows, factor))
         /\ Emissions(route, rows, factor) \in Seq(Nat)
         /\ Emissions(route, rows, factor) \in Seq(Int)
         /\ Len(Emissions(route, rows, factor)) = Len(route.segments)
         /\ \A i \in 1 .. Len(route.segments) :
              /\ route.segments[i] \in Segment
              /\ Emissions(route, rows, factor)[i]
                   = factor * Unit(route.segments[i], route.live, rows)
<1> DEFINE n == Len(route.segments)
           list == Emissions(route, rows, factor)
<1>1. /\ route.live \in BOOLEAN /\ route.segments \in Seq(Segment)
      /\ n \in Nat /\ DOMAIN route.segments = 1 .. n
      /\ \A i \in 1 .. n : route.segments[i] \in Segment
  BY DEF Candidate
<1>2. \A i \in 1 .. n : /\ list[i] \in Nat
                        /\ list[i] = factor * Unit(route.segments[i], route.live, rows)
  <2> SUFFICES ASSUME NEW i \in 1 .. n
               PROVE  /\ list[i] \in Nat
                      /\ list[i] = factor * Unit(route.segments[i], route.live, rows)
    OBVIOUS
  <2>1. route.segments[i] \in Segment /\ route.live \in BOOLEAN /\ i \in DOMAIN route.segments
    BY <1>1
  <2>2. list[i] = SegmentEmission(route.segments[i], route.live, rows, factor)
    BY <2>1 DEF Emissions
  <2> HIDE DEF list, n
  <2> QED
    BY <2>1, <2>2, SegmentEmissionIs
<1>3. list = [i \in 1 .. n |-> list[i]]
  BY <1>1 DEF Emissions
<1>4. SegmentsEmission(route, rows, factor) = SumOf(list)
  BY DEF SegmentsEmission, Emissions
<1> HIDE DEF list, n
<1>5. list \in [1 .. n -> Nat] /\ list \in [1 .. n -> Int]
  BY <1>2, <1>3
<1>6. list \in Seq(Nat) /\ list \in Seq(Int) /\ Len(list) = n
  BY <1>1, <1>5, FunctionIsList
<1> QED
  BY <1>1, <1>2, <1>4, <1>6 DEF list, n

\* The CO2 of the segments is a number, none without segments, in proportion to
\* the factor, and grows with it.
LEMMA SegmentsEmissionIs ==
  ASSUME NEW route \in Candidate, NEW rows \in Seq(Bin), NEW a \in Nat, NEW b \in Nat
  PROVE  /\ SegmentsEmission(route, rows, a) \in Nat
         /\ route.segments = << >> => SegmentsEmission(route, rows, a) = 0
         /\ b * SegmentsEmission(route, rows, a) = a * SegmentsEmission(route, rows, b)
         /\ a <= b => SegmentsEmission(route, rows, a) <= SegmentsEmission(route, rows, b)
<1> DEFINE s == Emissions(route, rows, a)
           t == Emissions(route, rows, b)
           unit(i) == Unit(route.segments[i], route.live, rows)
           n == Len(route.segments)
<1>1. /\ SegmentsEmission(route, rows, a) = SumOf(s) /\ s \in Seq(Nat) /\ s \in Seq(Int)
      /\ SegmentsEmission(route, rows, b) = SumOf(t) /\ t \in Seq(Int)
      /\ Len(s) = n /\ Len(t) = n
      /\ \A i \in 1 .. n : s[i] = a * unit(i) /\ t[i] = b * unit(i)
  BY EmissionsAre
<1>2. \A i \in 1 .. n : unit(i) \in Nat
  <2>1. route.live \in BOOLEAN
    BY DEF Candidate
  <2>2. \A i \in 1 .. n : route.segments[i] \in Segment
    BY EmissionsAre
  <2> QED
    BY <2>1, <2>2, SegmentEmissionIs
<1>3. route.segments = << >> => n = 0
  OBVIOUS
<1> HIDE DEF s, t, unit, n
<1>4. SumOf(s) \in Nat
  BY <1>1, SumOfNaturals
<1>5. b * SumOf(s) = a * SumOf(t)
  <2>1. \A i \in 1 .. n : b * s[i] = a * t[i]
    <3>1. \A x, y, z \in Nat : y * (x * z) = x * (y * z)
      OBVIOUS
    <3> QED
      BY <1>1, <1>2, <3>1
  <2>2. /\ a \in Int /\ b \in Int /\ Len(s) = Len(t)
        /\ \A i \in 1 .. Len(s) : b * s[i] = a * t[i]
    BY <1>1, <2>1
  <2>3. s \in Seq(Int) /\ t \in Seq(Int)
    BY <1>1
  <2> QED
    BY <2>2, <2>3, SumProportional, Zenon
<1>6. ASSUME a <= b PROVE SumOf(s) <= SumOf(t)
  <2>1. \A i \in 1 .. n : s[i] <= t[i]
    BY <1>1, <1>2, <1>6, ProductMonotone
  <2> QED
    BY <1>1, <2>1, SumMonotone
<1>7. ASSUME n = 0 PROVE SumOf(s) = 0
  <2>1. PICK sum : AreSums(sum, s) /\ SumOf(s) = sum[Len(s)]
    BY <1>1, SumUnfolds
  <2> QED
    BY <1>1, <1>7, <2>1 DEF AreSums
<1> QED
  BY <1>1, <1>3, <1>4, <1>5, <1>6, <1>7

\* The speed of a whole route is looked up by its whole part.
LEMMA TotalsSpeedIsInteger ==
  ASSUME NEW m \in Nat, NEW min \in Nat, min # 0
  PROVE  (6 * m) \div min \in Int
<1> DEFINE a == 6 * m
<1>1. a \in Int /\ min \in Nat \ {0}
  OBVIOUS
<1> HIDE DEF a
<1>2. a \div min \in Int
  BY <1>1, Quotient
<1> QED
  BY <1>2 DEF a

\* The CO2 of a candidate is a number, that of its segments if it has some.
LEMMA EmissionIs ==
  ASSUME NEW route \in Candidate, NEW rows \in Seq(Bin), NEW factor \in Nat
  PROVE  /\ Emission(route, rows, factor) \in Nat
         /\ route.segments # << >> =>
              Emission(route, rows, factor) = SegmentsEmission(route, rows, factor)
<1>1. CASE route.segments # << >>
  BY <1>1, SegmentsEmissionIs DEF Emission
<1>2. CASE route.segments = << >>
  <2>1. route.m \in Nat /\ route.min \in Nat /\ route.live \in BOOLEAN
    BY DEF Candidate
  <2> DEFINE km == Km(route.m)
             mult == TotalsMultiplier(route, rows)
  <2>2. route.min # 0 => (6 * route.m) \div route.min \in Int
    BY <2>1, TotalsSpeedIsInteger
  <2>3. km \in Nat /\ mult \in Nat
    BY <2>1, <2>2, FirstBinIs DEF Km, TotalsMultiplier, Neutral
  <2>4. Emission(route, rows, factor) = km * factor * 100 * mult
    BY <1>2 DEF Emission
  <2> HIDE DEF km, mult
  <2>5. km * factor \in Nat
    BY <2>3
  <2>6. (km * factor) * 100 \in Nat
    BY <2>5
  <2>7. ((km * factor) * 100) * mult \in Nat
    BY <2>3, <2>6
  <2> QED
    BY <1>2, <2>4, <2>7
<1> QED
  BY <1>1, <1>2

\* The CO2 of a candidate depends on the bins of its own engine only.
LEMMA EmissionOfOwnRows ==
  ASSUME NEW route \in Candidate, NEW rows \in Seq(Bin), NEW factor \in Nat
  PROVE  Emission(route, OwnRows(rows, route.live), factor) = Emission(route, rows, factor)
<1> DEFINE own == OwnRows(rows, route.live)
<1>1. route.m \in Nat /\ route.min \in Nat /\ route.live \in BOOLEAN
  BY DEF Candidate
<1>2. \A speed \in Int :
        /\ FirstBin(own, speed, route.live) = FirstBin(rows, speed, route.live)
        /\ Multiplier(own, speed, route.live) = Multiplier(rows, speed, route.live)
  BY <1>1, FirstBinOfOwnRows DEF Multiplier
<1> HIDE DEF own
<1>3. \A i \in DOMAIN route.segments :
        SegmentEmission(route.segments[i], route.live, own, factor)
          = SegmentEmission(route.segments[i], route.live, rows, factor)
  <2>1. \A i \in DOMAIN route.segments : route.segments[i].speed \in Int
    <3>1. \A i \in DOMAIN route.segments : route.segments[i] \in Segment
      BY DEF Candidate
    <3> QED
      BY <3>1 DEF Segment
  <2> QED
    BY <1>2, <2>1 DEF SegmentEmission
<1>4. SegmentsEmission(route, own, factor) = SegmentsEmission(route, rows, factor)
  <2>1. Emissions(route, own, factor) = Emissions(route, rows, factor)
    BY <1>3 DEF Emissions
  <2> QED
    BY <2>1, Zenon DEF SegmentsEmission, Emissions
<1>5. TotalsMultiplier(route, own) = TotalsMultiplier(route, rows)
  <2>1. route.min # 0 => (6 * route.m) \div route.min \in Int
    BY <1>1, TotalsSpeedIsInteger
  <2> QED
    BY <1>2, <2>1 DEF TotalsMultiplier
<1> QED
  BY <1>4, <1>5, Zenon DEF Emission, own

-----------------------------------------------------------------------------
(* Scores *)

\* Candidates that were priced, and weights.
Scorable ==
  /\ routes \in Seq(Candidate) /\ routes # << >>
  /\ co2 \in Seq(Nat) /\ Len(co2) = Len(routes)
  /\ Weight \in [Dimension -> Nat]

\* The figures candidates are compared by are naturals.
LEMMA MeasureTyped ==
  ASSUME Scorable, NEW i \in DOMAIN routes, NEW d \in Dimension
  PROVE  Measure(i, d) \in Nat
<1>1. routes[i] \in Candidate /\ co2[i] \in Nat
  BY DEF Scorable
<1>2. Km(routes[i].m) \in Nat /\ routes[i].min \in Nat
  BY <1>1 DEF Candidate, Km
<1> QED
  BY <1>1, <1>2 DEF Measure, Dimension

\* The extremes are measures.
LEMMA ExtremesAre ==
  ASSUME Scorable, NEW d \in Dimension
  PROVE  /\ Lowest(d) \in Nat /\ Highest(d) \in Nat
         /\ \A i \in DOMAIN routes :
              /\ Measure(i, d) \in Nat
              /\ Lowest(d) <= Measure(i, d) /\ Measure(i, d) <= Highest(d)
<1> DEFINE n == Len(routes)
           Values == {Measure(i, d) : i \in DOMAIN routes}
           s == [i \in 1 .. n |-> Measure(i, d)]
<1>1. n \in Nat /\ n # 0 /\ DOMAIN routes = 1 .. n
  BY DEF Scorable
<1>2. \A i \in DOMAIN routes : Measure(i, d) \in Nat
  BY MeasureTyped
<1>3. Values \subseteq Nat /\ Values # {}
  BY <1>1, <1>2
<1>4. PICK x \in Values : \A y \in Values : x <= y
  <2> HIDE DEF Values
  <2> QED
    BY <1>3, LeastNatural
<1>5. PICK g \in 1 .. n : \A j \in 1 .. n : s[j] <= s[g]
  <2>1. \A i \in 1 .. n : s[i] \in Int
    BY <1>1, <1>2
  <2> HIDE DEF s, n
  <2> QED
    BY <1>1, <2>1, GreatestOfList
<1>6. Lowest(d) \in Values /\ \A i \in DOMAIN routes : Lowest(d) <= Measure(i, d)
  <2>1. \E l \in Values : \A i \in DOMAIN routes : l <= Measure(i, d)
    BY <1>4
  <2> QED
    BY <2>1, Zenon DEF Lowest
<1>7. Highest(d) \in Values /\ \A i \in DOMAIN routes : Highest(d) >= Measure(i, d)
  <2>1. \E h \in Values : \A i \in DOMAIN routes : h >= Measure(i, d)
    <3>1. \A i \in DOMAIN routes : Measure(g, d) >= Measure(i, d)
      BY <1>1, <1>2, <1>5
    <3>2. Measure(g, d) \in Values
      BY <1>1
    <3> QED
      BY <3>1, <3>2, Zenon
  <2> QED
    BY <2>1, Zenon DEF Highest
<1> HIDE DEF Values
<1> QED
  BY <1>2, <1>3, <1>6, <1>7

\* Norms and what they are divided by.
LEMMA NormsAre ==
  ASSUME Scorable, NEW d \in Dimension
  PROVE  /\ Spread(d) \in Nat \ {0}
         /\ \A i \in DOMAIN routes : Distance(i, d) \in Nat
         /\ \A i, j \in DOMAIN routes :
              /\ IsClose(d) => Distance(i, d) = Distance(j, d)
              /\ Measure(i, d) <= Measure(j, d) => Distance(i, d) <= Distance(j, d)
              /\ ~ IsClose(d) /\ Measure(i, d) < Measure(j, d) => Distance(i, d) < Distance(j, d)
<1>1. /\ Lowest(d) \in Nat /\ Highest(d) \in Nat
      /\ \A i \in DOMAIN routes :
           /\ Measure(i, d) \in Nat
           /\ Lowest(d) <= Measure(i, d) /\ Measure(i, d) <= Highest(d)
  BY ExtremesAre
<1>2. Lowest(d) <= Highest(d)
  <2>1. PICK i \in DOMAIN routes : TRUE
    <3>1. Len(routes) \in Nat /\ Len(routes) # 0 /\ DOMAIN routes = 1 .. Len(routes)
      BY DEF Scorable
    <3>2. 1 \in 1 .. Len(routes)
      BY <3>1
    <3> QED
      BY <3>1, <3>2
  <2> QED
    BY <1>1, <2>1
<1>3. ~ IsClose(d) => Highest(d) # Lowest(d)
  <2> SUFFICES ASSUME ~ IsClose(d), Highest(d) = Lowest(d) PROVE FALSE
    OBVIOUS
  <2>1. ~ ((Highest(d) - Lowest(d)) * Closeness <= Highest(d))
    BY DEF IsClose
  <2>2. Closeness \in Nat
    BY EcoAssumption
  <2>3. Highest(d) - Lowest(d) = 0
    BY <1>1
  <2>4. (Highest(d) - Lowest(d)) * Closeness = 0
    <3> DEFINE none == Highest(d) - Lowest(d)
    <3>1. none = 0
      BY <2>3
    <3> HIDE DEF none
    <3>2. none * Closeness = 0
      BY <2>2, <3>1
    <3> QED
      BY <3>2 DEF none
  <2> QED
    BY <1>1, <2>1, <2>4
<1>4. Spread(d) \in Nat \ {0}
  BY <1>1, <1>2, <1>3 DEF Spread
<1>5. \A i \in DOMAIN routes : Distance(i, d) \in Nat
  BY <1>1 DEF Distance
<1>6. ASSUME NEW i \in DOMAIN routes, NEW j \in DOMAIN routes
      PROVE  /\ IsClose(d) => Distance(i, d) = Distance(j, d)
             /\ Measure(i, d) <= Measure(j, d) => Distance(i, d) <= Distance(j, d)
             /\ ~ IsClose(d) /\ Measure(i, d) < Measure(j, d) => Distance(i, d) < Distance(j, d)
  BY <1>1 DEF Distance
<1> QED
  BY <1>4, <1>5, <1>6

\* One of the three terms of a score grows with the norm in it.
LEMMA TermMonotone ==
  ASSUME NEW w \in Nat, NEW x \in Nat, NEW y \in Nat, NEW s \in Nat \ {0}, NEW t \in Nat \ {0},
         w = 0 \/ x <= y
  PROVE  /\ w * x * s * t \in Nat /\ w * y * s * t \in Nat
         /\ w * x * s * t <= w * y * s * t
         /\ w # 0 /\ x < y => w * x * s * t < w * y * s * t
<1> DEFINE a == w * x
           b == w * y
<1>1. a \in Nat /\ b \in Nat /\ a <= b /\ (w # 0 /\ x < y => a < b)
  <2>1. CASE w = 0
    BY <2>1
  <2>2. CASE w # 0 /\ x <= y
    <3>1. x * w <= y * w /\ (x < y => x * w < y * w)
      BY <2>2, ProductMonotone, ProductStrict
    <3>2. x * w = w * x /\ y * w = w * y /\ w * x \in Nat /\ w * y \in Nat
      OBVIOUS
    <3> QED
      BY <2>2, <3>1, <3>2
  <2> QED
    BY <2>1, <2>2
<1> HIDE DEF a, b
<1> DEFINE c == a * s
           e == b * s
<1>2. c \in Nat /\ e \in Nat /\ c <= e /\ (a < b => c < e)
  BY <1>1, ProductMonotone, ProductStrict
<1> HIDE DEF c, e
<1>3. c * t \in Nat /\ e * t \in Nat /\ c * t <= e * t /\ (c < e => c * t < e * t)
  BY <1>2, ProductMonotone, ProductStrict
<1> QED
  BY <1>1, <1>2, <1>3 DEF a, b, c, e

\* The term of a dimension in the score of a candidate.
Term(i, d, other, another) == Weight[d] * Distance(i, d) * Spread(other) * Spread(another)

\* A candidate as good as another in what counts scores no worse, and better
\* if it is better in something that counts.
LEMMA ScoresRespectMeasures ==
  ASSUME Scorable
  PROVE  /\ \A i \in DOMAIN routes : Score(i) \in Nat
         /\ \A i, j \in DOMAIN routes :
              LET counts == {d \in Dimension : Weight[d] > 0 /\ ~ IsClose(d)}
              IN /\ \A d \in counts : Measure(i, d) <= Measure(j, d)
                 /\ \E d \in counts : Measure(i, d) < Measure(j, d)
                 => Score(i) < Score(j)
<1> DEFINE counts == {d \in Dimension : Weight[d] > 0 /\ ~ IsClose(d)}
<1>1. \A d \in Dimension : Weight[d] \in Nat
  BY DEF Scorable
<1>2. \A i \in DOMAIN routes, d \in Dimension :
        Distance(i, d) \in Nat /\ Spread(d) \in Nat \ {0}
  BY NormsAre
<1>3. ASSUME NEW i \in DOMAIN routes, NEW j \in DOMAIN routes,
             \A d \in counts : Measure(i, d) <= Measure(j, d),
             NEW d \in Dimension, NEW o \in Dimension, NEW a \in Dimension
      PROVE  /\ Term(i, d, o, a) \in Nat /\ Term(j, d, o, a) \in Nat
             /\ Term(i, d, o, a) <= Term(j, d, o, a)
             /\ d \in counts /\ Measure(i, d) < Measure(j, d) =>
                  Term(i, d, o, a) < Term(j, d, o, a)
  <2> DEFINE w == Weight[d]
             x == Distance(i, d)
             y == Distance(j, d)
             s == Spread(o)
             t == Spread(a)
  <2>1. w \in Nat /\ x \in Nat /\ y \in Nat /\ s \in Nat \ {0} /\ t \in Nat \ {0}
    BY <1>1, <1>2
  <2>2. w = 0 \/ x <= y
    <3>1. CASE d \in counts
      BY <1>3, <3>1, NormsAre
    <3>2. CASE d \notin counts
      <4>1. w = 0 \/ IsClose(d)
        BY <2>1, <3>2
      <4>2. IsClose(d) => x = y
        BY NormsAre
      <4> HIDE DEF x, y
      <4> QED
        BY <2>1, <4>1, <4>2
    <3> QED
      BY <3>1, <3>2
  <2>3. d \in counts /\ Measure(i, d) < Measure(j, d) => w # 0 /\ x < y
    BY <1>1, NormsAre
  <2>4. Term(i, d, o, a) = w * x * s * t /\ Term(j, d, o, a) = w * y * s * t
    BY DEF Term
  <2> HIDE DEF w, x, y, s, t, counts
  <2>5. /\ w * x * s * t \in Nat /\ w * y * s * t \in Nat
        /\ w * x * s * t <= w * y * s * t
        /\ w # 0 /\ x < y => w * x * s * t < w * y * s * t
    BY <2>1, <2>2, TermMonotone
  <2> QED
    BY <2>3, <2>4, <2>5
<1>4. \A i : Score(i) = Term(i, "distance", "duration", "co2")
                          + Term(i, "duration", "distance", "co2")
                          + Term(i, "co2", "distance", "duration")
  BY DEF Score, Term
<1>5. "distance" \in Dimension /\ "duration" \in Dimension /\ "co2" \in Dimension
  BY DEF Dimension
<1>6. ASSUME NEW i \in DOMAIN routes PROVE Score(i) \in Nat
  <2>1. \A d \in counts : Measure(i, d) <= Measure(i, d)
    BY MeasureTyped
  <2> HIDE DEF counts
  <2>2. /\ Term(i, "distance", "duration", "co2") \in Nat
        /\ Term(i, "duration", "distance", "co2") \in Nat
        /\ Term(i, "co2", "distance", "duration") \in Nat
    BY <1>3, <1>5, <2>1
  <2> QED
    BY <1>4, <2>2
<1>7. ASSUME NEW i \in DOMAIN routes, NEW j \in DOMAIN routes,
             \A d \in counts : Measure(i, d) <= Measure(j, d),
             NEW e \in counts, Measure(i, e) < Measure(j, e)
      PROVE  Score(i) < Score(j)
  <2> DEFINE a == Term(i, "distance", "duration", "co2")
             b == Term(i, "duration", "distance", "co2")
             c == Term(i, "co2", "distance", "duration")
             aa == Term(j, "distance", "duration", "co2")
             bb == Term(j, "duration", "distance", "co2")
             cc == Term(j, "co2", "distance", "duration")
  <2>1. a \in Nat /\ aa \in Nat /\ a <= aa /\ (e = "distance" => a < aa)
    BY <1>3, <1>5, <1>7
  <2>2. b \in Nat /\ bb \in Nat /\ b <= bb /\ (e = "duration" => b < bb)
    BY <1>3, <1>5, <1>7
  <2>3. c \in Nat /\ cc \in Nat /\ c <= cc /\ (e = "co2" => c < cc)
    BY <1>3, <1>5, <1>7
  <2>4. Score(i) = a + b + c /\ Score(j) = aa + bb + cc
    BY <1>4
  <2>5. e \in {"distance", "duration", "co2"}
    BY DEF Dimension
  <2> HIDE DEF a, b, c, aa, bb, cc, counts
  <2> QED
    BY <2>1, <2>2, <2>3, <2>4, <2>5
<1>8. \A i, j \in DOMAIN routes :
        /\ \A d \in counts : Measure(i, d) <= Measure(j, d)
        /\ \E d \in counts : Measure(i, d) < Measure(j, d)
        => Score(i) < Score(j)
  <2> HIDE DEF counts
  <2> QED
    BY <1>7
<1> QED
  BY <1>6, <1>8

\* Scores change only with what they are computed from.
LEMMA SameScores ==
  ASSUME UNCHANGED <<given, routes, co2>>
  PROVE  \A i : Score(i)' = Score(i)
<1>1. \A i, d : Measure(i, d)' = Measure(i, d)
  BY DEF Measure
<1>2. \A d : Lowest(d)' = Lowest(d)
  BY <1>1 DEF Lowest
<1>3. \A d : Highest(d)' = Highest(d)
  BY <1>1 DEF Highest
<1>4. \A d : IsClose(d)' = IsClose(d)
  BY <1>2, <1>3 DEF IsClose
<1>5. \A d : Spread(d)' = Spread(d)
  BY <1>2, <1>3, <1>4 DEF Spread
<1>6. \A i, d : Distance(i, d)' = Distance(i, d)
  BY <1>1, <1>2, <1>4 DEF Distance
<1>7. Weight' = Weight
  BY DEF Weight
<1> QED
  BY <1>5, <1>6, <1>7 DEF Score

-----------------------------------------------------------------------------
(* The inductive invariant *)

\* Every candidate comes from the answer of an engine.
Parsed ==
  \A i \in DOMAIN routes : \E answer \in {given.kakao, given.ors} : ParsedFrom(routes[i], answer)

Priced == co2 = [i \in DOMAIN routes |-> Emission(routes[i], given.rows, given.factor)]

Ranked == best = FirstLeast([i \in DOMAIN routes |-> Score(i)])

Misfit == \E i \in DOMAIN routes : ~ RouteFits(routes[i], co2[i], given.factor)

Redone ==
  /\ redone.factor \in Nat
  /\ redone.co2 = [i \in DOMAIN routes |-> Repriced(routes[i], redone.factor)]
  /\ redone.best = Cheapest(redone.co2)

\* What each stage leaves behind.
EcoInv ==
  /\ given \in Plan /\ routes \in Seq(Candidate) /\ Parsed
  /\ stage \in {"asked", "parsed", "priced", "ranked", "stored", "redone",
                "failed", "refused", "lost"}
  /\ stage \in {"asked", "failed"} <=> routes = << >>
  /\ stage \in {"asked", "parsed", "failed"} => co2 = << >> /\ best = 0
  /\ stage \in {"priced", "refused"} => Priced /\ best = 0
  /\ stage \in {"ranked", "stored", "redone"} => Priced /\ Ranked
  /\ stage = "lost" => \/ given.factor = 0 /\ co2 = << >> /\ best = 0
                       \/ Priced /\ Ranked /\ Misfit
  /\ IF stage = "redone" THEN Redone ELSE redone.best = 0

\* Weights that are given or balanced are numbers.
LEMMA WeightTyped == given \in Plan => Weight \in [Dimension -> Nat]
<1> SUFFICES ASSUME given \in Plan PROVE Weight \in [Dimension -> Nat]
  OBVIOUS
<1>1. given.weights = << >> \/ given.weights \in [1 .. 3 -> 0 .. WeightUnit]
  BY DEF Plan
<1>2. CASE given.weights = << >>
  <2>1. WeightUnit \div 3 \in Nat
    BY DEF WeightUnit
  <2> QED
    BY <1>2, <2>1 DEF Weight
<1>3. CASE given.weights # << >>
  <2>1. /\ given.weights[1] \in Nat /\ given.weights[2] \in Nat /\ given.weights[3] \in Nat
    <3>1. \A i \in 1 .. 3 : given.weights[i] \in 0 .. WeightUnit
      BY <1>1, <1>3
    <3>2. 1 \in 1 .. 3 /\ 2 \in 1 .. 3 /\ 3 \in 1 .. 3
      OBVIOUS
    <3>3. \A x \in 0 .. WeightUnit : x \in Nat
      BY DEF WeightUnit
    <3> QED
      BY <3>1, <3>2, <3>3
  <2> QED
    BY <1>3, <2>1 DEF Weight, Dimension
<1> QED
  BY <1>2, <1>3

\* What was priced can be scored, and was priced with numbers.
LEMMA PricedIs ==
  ASSUME EcoInv, Priced
  PROVE  /\ co2 \in Seq(Nat) /\ Len(co2) = Len(routes) /\ DOMAIN co2 = DOMAIN routes
         /\ DOMAIN routes = 1 .. Len(routes) /\ Len(routes) \in Nat
         /\ \A i \in DOMAIN routes :
              /\ routes[i] \in Candidate /\ co2[i] \in Nat
              /\ co2[i] = Emission(routes[i], given.rows, given.factor)
         /\ routes # << >> => Scorable
<1>1. /\ routes \in Seq(Candidate) /\ Len(routes) \in Nat /\ DOMAIN routes = 1 .. Len(routes)
      /\ \A i \in 1 .. Len(routes) : routes[i] \in Candidate
  BY DEF EcoInv
<1>2. given \in Plan /\ given.rows \in Seq(Bin) /\ given.factor \in Nat
  BY DEF EcoInv, Plan
<1>3. \A i \in 1 .. Len(routes) : Emission(routes[i], given.rows, given.factor) \in Nat
  BY <1>1, <1>2, EmissionIs
<1>4. co2 = [i \in 1 .. Len(routes) |-> Emission(routes[i], given.rows, given.factor)]
  BY <1>1 DEF Priced
<1>5. co2 \in [1 .. Len(routes) -> Nat]
  BY <1>3, <1>4
<1>6. co2 \in Seq(Nat) /\ Len(co2) = Len(routes) /\ DOMAIN co2 = 1 .. Len(routes)
  BY <1>1, <1>5, FunctionIsList
<1>7. routes # << >> => Scorable
  BY <1>1, <1>2, <1>6, WeightTyped DEF Scorable
<1> QED
  BY <1>1, <1>3, <1>4, <1>6, <1>7

\* The recommended candidate is one of those with the least score.
LEMMA RankedIs ==
  ASSUME EcoInv, Priced, Ranked, routes # << >>
  PROVE  /\ best \in DOMAIN routes
         /\ \A i \in DOMAIN routes : Score(i) \in Nat /\ Score(best) <= Score(i)
<1> DEFINE n == Len(routes)
           score == [i \in DOMAIN routes |-> Score(i)]
<1>1. Scorable /\ n \in Nat /\ DOMAIN routes = 1 .. n /\ n # 0
  BY PricedIs DEF EcoInv
<1>2. \A i \in DOMAIN routes : Score(i) \in Nat
  BY <1>1, ScoresRespectMeasures
<1>3. /\ score \in [1 .. n -> Nat] /\ \A i \in 1 .. n : score[i] = Score(i)
      /\ best = FirstLeast(score)
  BY <1>1, <1>2 DEF Ranked
<1> HIDE DEF score, n
<1>4. score \in Seq(Nat) /\ Len(score) = n /\ score # << >>
  BY <1>1, <1>3, FunctionIsList
<1>5. best \in 1 .. n /\ \A j \in 1 .. n : score[best] <= score[j]
  BY <1>3, <1>4, FirstLeastIs
<1> QED
  BY <1>1, <1>2, <1>3, <1>5

\* The recalculated CO2 of every route, and the cheapest of them.
LEMMA RedoneIs ==
  ASSUME EcoInv, Redone, routes # << >>
  PROVE  /\ redone.best \in DOMAIN routes
         /\ \A i \in DOMAIN routes :
              /\ redone.co2[i] = SegmentsEmission(routes[i], given.rows, redone.factor)
              /\ redone.co2[i] \in Nat /\ redone.co2[redone.best] <= redone.co2[i]
<1> DEFINE n == Len(routes)
           costs == redone.co2
<1>1. /\ n \in Nat /\ DOMAIN routes = 1 .. n /\ n # 0
      /\ \A i \in 1 .. n : routes[i] \in Candidate
  BY DEF EcoInv
<1>2. given.rows \in Seq(Bin) /\ redone.factor \in Nat
  BY DEF EcoInv, Plan, Redone
<1>3. \A i \in 1 .. n : SegmentsEmission(routes[i], given.rows, redone.factor) \in Nat
  BY <1>1, <1>2, SegmentsEmissionIs
<1>4. /\ costs \in [1 .. n -> Nat] /\ redone.best = FirstLeast(costs)
      /\ \A i \in 1 .. n : costs[i] = SegmentsEmission(routes[i], given.rows, redone.factor)
  BY <1>1, <1>3 DEF Redone, Repriced, Cheapest
<1> HIDE DEF costs, n
<1>5. costs \in Seq(Nat) /\ Len(costs) = n /\ costs # << >>
  BY <1>1, <1>4, FunctionIsList
<1>6. redone.best \in 1 .. n /\ \A j \in 1 .. n : costs[redone.best] <= costs[j]
  BY <1>4, <1>5, FirstLeastIs
<1> QED
  BY <1>1, <1>4, <1>6 DEF costs

-----------------------------------------------------------------------------
(* The steps *)

\* A plan begins with no candidates.
LEMMA InitEco == Init => EcoInv
<1> SUFFICES ASSUME Init PROVE EcoInv
  OBVIOUS
<1>1. given \in Plan
  BY EcoAssumption DEF Init, Plan
<1>2. /\ routes = << >> /\ co2 = << >> /\ best = 0 /\ stage = "asked" /\ redone.best = 0
      /\ DOMAIN routes = {} /\ << >> \in Seq(Candidate)
  BY DEF Init
<1> QED
  BY <1>1, <1>2 DEF EcoInv, Parsed

\* What the engines answered is read into candidates, or the plan ends.
LEMMA ParseEco == EcoInv /\ Parse => EcoInv'
<1> SUFFICES ASSUME EcoInv, Parse PROVE EcoInv'
  OBVIOUS
<1> DEFINE kakao == KakaoRoutes(given.kakao, given.elevations)
           ors == OrsRoutes(given.ors)
<1>1. /\ routes' = kakao \o ors /\ stage = "asked"
      /\ stage' = IF routes' = << >> THEN "failed" ELSE "parsed"
      /\ UNCHANGED <<given, co2, best, redone>>
  BY DEF Parse
<1>2. given \in Plan /\ given.kakao \in Seq(Raw) /\ given.ors \in Seq(Raw)
  BY DEF EcoInv, Plan
<1>3. /\ kakao \in Seq(Candidate)
      /\ \A i \in DOMAIN kakao : ParsedFrom(kakao[i], given.kakao)
  BY <1>2, KakaoRoutesTyped
<1>4. /\ ors \in Seq(Candidate)
      /\ \A i \in DOMAIN ors : ParsedFrom(ors[i], given.ors)
  BY <1>2, OrsRoutesTyped
<1> HIDE DEF kakao, ors
<1>5. /\ routes' \in Seq(Candidate) /\ Len(routes') = Len(kakao) + Len(ors)
      /\ Len(kakao) \in Nat /\ Len(ors) \in Nat
      /\ DOMAIN routes' = 1 .. Len(routes') /\ DOMAIN kakao = 1 .. Len(kakao)
      /\ DOMAIN ors = 1 .. Len(ors)
  BY <1>1, <1>3, <1>4
<1>6. ASSUME NEW i \in DOMAIN routes'
      PROVE  \E answer \in {given'.kakao, given'.ors} : ParsedFrom(routes'[i], answer)
  <2>1. CASE i <= Len(kakao)
    <3>1. i \in DOMAIN kakao /\ routes'[i] = kakao[i]
      BY <1>1, <1>3, <1>4, <1>5, <2>1
    <3> QED
      BY <1>1, <1>3, <3>1
  <2>2. CASE i > Len(kakao)
    <3>1. i - Len(kakao) \in DOMAIN ors /\ routes'[i] = ors[i - Len(kakao)]
      BY <1>1, <1>3, <1>4, <1>5, <2>2
    <3> QED
      BY <1>1, <1>4, <3>1
  <2> QED
    BY <1>5, <2>1, <2>2
<1>7. Parsed'
  BY <1>6 DEF Parsed, ParsedFrom, Tells
<1> QED
  BY <1>1, <1>2, <1>5, <1>7 DEF EcoInv

\* Emissions are computed with the rows and the factor of the plan.
LEMMA CalculateEco == EcoInv /\ Calculate => EcoInv'
<1> SUFFICES ASSUME EcoInv, Calculate PROVE EcoInv'
  OBVIOUS
<1>1. stage = "parsed" /\ UNCHANGED <<given, routes, best, redone>>
  BY DEF Calculate
<1>2. Parsed'
  BY <1>1 DEF EcoInv, Parsed, ParsedFrom, Tells
<1>3. CASE given.factor = 0
  BY <1>1, <1>2, <1>3 DEF EcoInv, Calculate
<1>4. CASE given.factor # 0
  <2>1. /\ co2' = [i \in DOMAIN routes |-> Emission(routes[i], given.rows, given.factor)]
        /\ stage' = "priced"
    BY <1>4 DEF Calculate
  <2>2. Priced'
    BY <1>1, <2>1 DEF Priced
  <2> QED
    BY <1>1, <1>2, <2>1, <2>2 DEF EcoInv
<1> QED
  BY <1>3, <1>4

\* Weights are defaulted or checked, and one candidate is recommended.
LEMMA RecommendEco == EcoInv /\ Recommend => EcoInv'
<1> SUFFICES ASSUME EcoInv, Recommend PROVE EcoInv'
  OBVIOUS
<1>1. stage = "priced" /\ UNCHANGED <<given, routes, co2, redone>>
  BY DEF Recommend
<1>2. Parsed'
  BY <1>1 DEF EcoInv, Parsed, ParsedFrom, Tells
<1>3. Priced'
  BY <1>1 DEF EcoInv, Priced
<1>4. CASE best' = FirstLeast([i \in DOMAIN routes |-> Score(i)]) /\ stage' = "ranked"
  <2>1. \A i : Score(i)' = Score(i)
    BY <1>1, SameScores
  <2>2. Ranked'
    BY <1>1, <1>4, <2>1 DEF Ranked
  <2> QED
    BY <1>1, <1>2, <1>3, <1>4, <2>2 DEF EcoInv
<1>5. CASE stage' = "refused" /\ UNCHANGED best
  BY <1>1, <1>2, <1>3, <1>5 DEF EcoInv
<1> QED
  BY <1>4, <1>5 DEF Recommend

\* The candidates and their emissions are stored.
LEMMA PersistEco == EcoInv /\ Persist => EcoInv'
<1> SUFFICES ASSUME EcoInv, Persist PROVE EcoInv'
  OBVIOUS
<1>1. stage = "ranked" /\ UNCHANGED <<given, routes, co2, best, redone>>
  BY DEF Persist
<1>2. Parsed'
  BY <1>1 DEF EcoInv, Parsed, ParsedFrom, Tells
<1>3. Priced'
  BY <1>1 DEF EcoInv, Priced
<1>4. Ranked'
  <2>1. \A i : Score(i)' = Score(i)
    BY <1>1, SameScores
  <2> QED
    BY <1>1, <2>1 DEF EcoInv, Ranked
<1>5. stage' = "stored" \/ (stage' = "lost" /\ Misfit')
  <2>1. stage' = IF ~ Misfit THEN "stored" ELSE "lost"
    BY Zenon DEF Persist, Misfit
  <2>2. Misfit <=> Misfit'
    BY <1>1 DEF Misfit, RouteFits
  <2> QED
    BY <2>1, <2>2
<1> QED
  BY <1>1, <1>2, <1>3, <1>4, <1>5 DEF EcoInv

\* The stored emissions are repriced with another factor.
LEMMA RecalculateEco == EcoInv /\ Recalculate => EcoInv'
<1> SUFFICES ASSUME EcoInv, Recalculate PROVE EcoInv'
  OBVIOUS
<1>1. stage \in {"stored", "redone"} /\ stage' = "redone" /\ UNCHANGED <<given, routes, co2, best>>
  BY DEF Recalculate
<1>2. Parsed'
  BY <1>1 DEF EcoInv, Parsed, ParsedFrom, Tells
<1>3. Priced'
  BY <1>1 DEF EcoInv, Priced
<1>4. Ranked'
  <2>1. \A i : Score(i)' = Score(i)
    BY <1>1, SameScores
  <2> QED
    BY <1>1, <2>1 DEF EcoInv, Ranked
<1>5. Redone'
  <2>1. PICK factor \in Factor \ {0} :
          redone' = [factor |-> factor,
                     co2 |-> [i \in DOMAIN routes |-> Repriced(routes[i], factor)],
                     best |-> Cheapest([i \in DOMAIN routes |-> Repriced(routes[i], factor)])]
    BY DEF Recalculate
  <2>2. factor \in Nat
    BY EcoAssumption
  <2>3. /\ redone'.factor = factor
        /\ redone'.co2 = [i \in DOMAIN routes |-> Repriced(routes[i], factor)]
        /\ redone'.best = Cheapest(redone'.co2)
    BY <2>1
  <2> QED
    BY <1>1, <2>2, <2>3 DEF Redone, Repriced, Cheapest
<1> QED
  BY <1>1, <1>2, <1>3, <1>4, <1>5 DEF EcoInv

\* Every step keeps the invariant.
LEMMA NextEco == EcoInv /\ [Next]_vars => EcoInv'
<1> SUFFICES ASSUME EcoInv, [Next]_vars PROVE EcoInv'
  OBVIOUS
<1>1. CASE Parse
  BY <1>1, ParseEco
<1>2. CASE Calculate
  BY <1>2, CalculateEco
<1>3. CASE Recommend
  BY <1>3, RecommendEco
<1>4. CASE Persist
  BY <1>4, PersistEco
<1>5. CASE Recalculate
  BY <1>5, RecalculateEco
<1>6. CASE UNCHANGED vars
  <2>1. UNCHANGED <<given, stage, routes, co2, best, redone>>
    BY <1>6 DEF vars
  <2>2. \A i : Score(i)' = Score(i)
    BY <2>1, SameScores
  <2>3. (Ranked <=> Ranked') /\ (Priced <=> Priced') /\ (Misfit <=> Misfit')
    BY <2>1, <2>2 DEF Ranked, Priced, Misfit, RouteFits
  <2>4. (Parsed <=> Parsed') /\ (Redone <=> Redone')
    BY <2>1 DEF Parsed, ParsedFrom, Tells, Redone, Repriced
  <2> QED
    BY <2>1, <2>3, <2>4 DEF EcoInv
<1> QED
  BY <1>1, <1>2, <1>3, <1>4, <1>5, <1>6 DEF Next

\* The inductive invariant of a plan's candidates: they are well-typed, emissions
\* are those of the plan's rows and factor, the recommendation is that of the
\* weights, and a recalculation is priced from what was stored.
THEOREM EcoInvariant == Spec => []EcoInv
BY InitEco, NextEco, PTL DEF Spec

\* The book of a plan is one that is stored.
BookKept == given.rows \in Book

LEMMA GivenStays == Spec => []BookKept
<1>1. Init => BookKept
  BY DEF Init, BookKept
<1>2. BookKept /\ [Next]_vars => BookKept'
  BY DEF BookKept, Next, vars, Parse, Calculate, Recommend, Persist, Recalculate
<1> QED
  BY <1>1, <1>2, PTL DEF Spec

-----------------------------------------------------------------------------
(* The properties *)

\* A plan (execute_p2p) goes through its stages with the figures each needs.
THEOREM EcoTypeOK == Spec => []TypeOK
<1>1. ASSUME EcoInv PROVE TypeOK
  <2>1. /\ routes \in Seq(Candidate) /\ Len(routes) \in Nat
        /\ DOMAIN routes = 1 .. Len(routes)
    BY <1>1 DEF EcoInv
  <2>2. stage = "redone" => Redone /\ routes # << >> /\ redone.best \in DOMAIN routes
    BY <1>1, RedoneIs DEF EcoInv
  <2>3. redone.best \in 0 .. Len(routes)
    BY <1>1, <2>1, <2>2 DEF EcoInv
  <2>4. Priced => DOMAIN co2 = DOMAIN routes /\ Len(co2) = Len(routes)
                  /\ \A i \in DOMAIN co2 : co2[i] \in Nat
    BY <1>1, PricedIs
  <2>5. ~ Priced => co2 = << >>
    BY <1>1 DEF EcoInv
  <2>6. Len(co2) \in {0, Len(routes)} /\ \A i \in DOMAIN co2 : co2[i] \in Nat
    BY <2>4, <2>5
  <2>7. Priced /\ Ranked /\ routes # << >> => best \in DOMAIN routes
    BY <1>1, RankedIs
  <2>8. stage \in {"ranked", "stored", "redone"} => best \in DOMAIN routes
    BY <1>1, <2>7 DEF EcoInv
  <2>9. stage = "lost" => best = 0 \/ best \in DOMAIN routes
    BY <1>1, <2>7 DEF EcoInv
  <2>10. best \in 0 .. Len(routes)
    BY <1>1, <2>1, <2>8, <2>9 DEF EcoInv
  <2> QED
    BY <1>1, <2>3, <2>6, <2>8, <2>10 DEF TypeOK, EcoInv
<1> QED
  BY <1>1, EcoInvariant, PTL

\* The weighted sum of norms (score_candidates, rank_recommend) never
\* recommends a candidate that another one dominates in what counts.
THEOREM NoCandidateDominates == Spec => []RecommendedNotDominated
<1>1. ASSUME EcoInv PROVE RecommendedNotDominated
  <2> SUFFICES ASSUME best # 0
               PROVE  LET counts == {d \in Dimension : Weight[d] > 0 /\ ~ IsClose(d)}
                      IN ~ \E i \in DOMAIN routes :
                             /\ \A d \in counts : Measure(i, d) <= Measure(best, d)
                             /\ \E d \in counts : Measure(i, d) < Measure(best, d)
    BY DEF RecommendedNotDominated
  <2>1. Priced /\ Ranked /\ routes # << >>
    BY <1>1 DEF EcoInv
  <2>2. /\ best \in DOMAIN routes
        /\ \A i \in DOMAIN routes : Score(i) \in Nat /\ Score(best) <= Score(i)
    BY <1>1, <2>1, RankedIs
  <2>3. Scorable
    BY <1>1, <2>1, PricedIs
  <2> DEFINE counts == {d \in Dimension : Weight[d] > 0 /\ ~ IsClose(d)}
  <2>4. \A i, j \in DOMAIN routes :
          /\ \A d \in counts : Measure(i, d) <= Measure(j, d)
          /\ \E d \in counts : Measure(i, d) < Measure(j, d)
          => Score(i) < Score(j)
    BY <2>3, ScoresRespectMeasures
  <2>5. \A i \in DOMAIN routes : ~ (Score(i) < Score(best))
    BY <2>2
  <2> HIDE DEF counts
  <2>6. ~ \E i \in DOMAIN routes : /\ \A d \in counts : Measure(i, d) <= Measure(best, d)
                                   /\ \E d \in counts : Measure(i, d) < Measure(best, d)
    BY <2>2, <2>4, <2>5, Zenon
  <2> QED
    BY <2>6 DEF counts
<1> QED
  BY <1>1, EcoInvariant, PTL

\* The CO2 of a candidate is what it would be without the bins of the other
\* kind of engine (speed_multiplier, engine_has_live_traffic).
THEOREM OwnBinsOnly == Spec => []CongestionCountedOnce
<1>1. ASSUME EcoInv PROVE CongestionCountedOnce
  <2> SUFFICES ASSUME NEW i \in DOMAIN co2
               PROVE  co2[i] = Emission(routes[i], OwnRows(given.rows, routes[i].live), given.factor)
    BY DEF CongestionCountedOnce, OwnRows, Other
  <2>1. Priced
    BY <1>1 DEF EcoInv
  <2>2. i \in DOMAIN routes /\ co2[i] = Emission(routes[i], given.rows, given.factor)
        /\ routes[i] \in Candidate
    BY <1>1, <2>1, PricedIs
  <2>3. given.rows \in Seq(Bin) /\ given.factor \in Nat
    BY <1>1 DEF EcoInv, Plan
  <2> QED
    BY <2>2, <2>3, EmissionOfOwnRows
<1> QED
  BY <1>1, EcoInvariant, PTL

\* No segment emits more than its route.
LEMMA SegmentWithinRoute ==
  ASSUME NEW route \in Candidate, NEW rows \in Seq(Bin), NEW factor \in Nat,
         NEW k \in DOMAIN route.segments
  PROVE  SegmentEmission(route.segments[k], route.live, rows, factor)
           <= Emission(route, rows, factor)
<1> DEFINE all == Emissions(route, rows, factor)
           n == Len(route.segments)
           one == SegmentEmission(route.segments[k], route.live, rows, factor)
           alone == [i \in 1 .. n |-> IF i \in {k} THEN one ELSE 0]
<1>1. /\ n \in Nat /\ k \in 1 .. n /\ route.segments # << >> /\ DOMAIN route.segments = 1 .. n
      /\ route.live \in BOOLEAN /\ route.segments[k] \in Segment
  <2>1. route.live \in BOOLEAN /\ route.segments \in Seq(Segment)
    BY DEF Candidate
  <2> QED
    BY <2>1
<1>2. Emission(route, rows, factor) = SumOf(all) /\ all \in Seq(Nat) /\ all \in Seq(Int)
      /\ Len(all) = n
  BY <1>1, EmissionIs, EmissionsAre
<1>3. one \in Nat /\ all[k] = one
  <2>1. one \in Nat
    BY <1>1, SegmentEmissionIs
  <2>2. all[k] = one
    BY <1>1 DEF Emissions
  <2> QED
    BY <2>1, <2>2
<1> HIDE DEF all, n, one
<1>4. alone \in [1 .. n -> Int] /\ \A i \in 1 .. n : alone[i] = IF i \in {k} THEN one ELSE 0
  BY <1>3
<1> HIDE DEF alone
<1>5. alone \in Seq(Int) /\ Len(alone) = n
  BY <1>1, <1>4, FunctionIsList
<1>6. \A i \in 1 .. n : alone[i] <= all[i]
  <2>1. \A i \in 1 .. n : all[i] \in Nat
    BY <1>1, <1>2
  <2> QED
    BY <1>3, <1>4, <2>1
<1>7. SumOf(alone) <= SumOf(all)
  BY <1>2, <1>5, <1>6, SumMonotone
<1>8. SumOf(alone) = one * Cardinality({k})
  <2>1. {k} \in SUBSET (1 .. Len(alone)) /\ one \in Int
    BY <1>1, <1>3, <1>5
  <2>2. \A i \in 1 .. Len(alone) : alone[i] = IF i \in {k} THEN one ELSE 0
    BY <1>4, <1>5
  <2> QED
    BY <1>5, <2>1, <2>2, SumOfMarks
<1>9. one * Cardinality({k}) = one
  <2>1. Cardinality({k}) = 1
    BY FS_Singleton
  <2> QED
    BY <1>3, <2>1
<1> QED
  BY <1>2, <1>7, <1>8, <1>9 DEF one

\* A segment that tells a piece within the scale of the columns fits them, unless
\* it emits too much.
LEMMA SegmentOfScaleFits ==
  ASSUME NEW seg \in Segment, NEW p \in Piece, Tells(seg, p), ~ OutOfScale(p),
         NEW emission, emission < Width.co2
  PROVE  SegmentFits(seg, emission)
<1>1. /\ seg.m \in Nat /\ seg.min \in Nat /\ seg.gain \in Nat /\ seg.loss \in Nat
      /\ seg.speed \in Int /\ seg.grade \in Int
  BY DEF Segment
<1>2. /\ p.m \in Nat /\ p.min \in Nat /\ p.up \in Nat /\ p.down \in Nat /\ p.traffic \in Nat
  BY DEF Piece
<1>3. /\ Width.distance \in Nat /\ Width.duration \in Nat /\ Width.speed \in Nat
      /\ Width.elevation \in Nat /\ Width.grade \in Nat \ {0}
  BY EcoAssumption DEF Column
<1>4. /\ seg.m = p.m /\ seg.min = p.min /\ seg.long = p.long
      /\ seg.gain <= p.up /\ seg.loss <= p.down
      /\ seg.grade = 0 \/ seg.grade = Grade(p.up, p.down, p.m)
      /\ seg.speed = Speed(p.m, p.min) \/ seg.speed = 100 * p.traffic
  BY DEF Tells
<1>5. seg.m < Width.distance /\ seg.min < Width.duration /\ ~ seg.long
  BY <1>2, <1>3, <1>4 DEF OutOfScale
<1>6. seg.gain < Width.elevation /\ seg.loss < Width.elevation
  BY <1>1, <1>2, <1>3, <1>4 DEF OutOfScale
<1>7. seg.speed < Width.speed
  <2>1. Speed(p.m, p.min) \in Int
    BY <1>2, SpeedIsInteger
  <2>2. ~ (100 * p.traffic >= Width.speed) /\ ~ (Speed(p.m, p.min) >= Width.speed)
    BY DEF OutOfScale
  <2> DEFINE computed == Speed(p.m, p.min)
  <2> HIDE DEF computed
  <2> QED
    BY <1>1, <1>2, <1>3, <1>4, <2>1, <2>2 DEF computed
<1>8. GradeFits(seg.grade)
  <2> DEFINE g == Grade(p.up, p.down, p.m)
             w == Width.grade
             l == w * p.m
  <2>1. /\ g \in Int
        /\ g >= w => p.m > 0 /\ 100 * (p.up - p.down) >= l
        /\ g <= - w => p.m > 0 /\ 100 * (p.down - p.up) >= l
    BY <1>2, <1>3, GradeIs
  <2>2. /\ ~ (p.m > 0 /\ 100 * (p.up - p.down) >= l)
        /\ ~ (p.m > 0 /\ 100 * (p.down - p.up) >= l)
    BY DEF OutOfScale
  <2>3. seg.grade = 0 \/ seg.grade = g
    BY <1>4
  <2> HIDE DEF g, l
  <2>4. ~ (g >= w) /\ ~ (g <= - w)
    BY <2>1, <2>2
  <2> HIDE DEF w
  <2>5. w \in Nat \ {0}
    BY <1>3 DEF w
  <2>6. - w < seg.grade /\ seg.grade < w
    BY <2>1, <2>3, <2>4, <2>5
  <2> QED
    BY <2>6 DEF GradeFits, w
<1> QED
  BY <1>5, <1>6, <1>7, <1>8 DEF SegmentFits

\* A plan that was priced is lost (the flush of execute_p2p raises) only to what
\* an engine said of one route or one piece of road, or to a route of more CO2
\* than a segment has room for.
THEOREM LostToOnePiece == Spec => []PlanSurvives
<1>1. ASSUME EcoInv PROVE PlanSurvives
  <2> DEFINE Heavy == \E i \in DOMAIN co2 : co2[i] >= Width.co2
             Odd(answer) == \E raw \in Range(answer) :
               \/ raw.m >= Width.totalDistance \/ raw.min >= Width.duration
               \/ \E p \in Range(raw.pieces) : OutOfScale(p)
  <2> SUFFICES ASSUME stage = "lost", given.factor # 0, ~ Heavy
               PROVE  \E answer \in {given.kakao, given.ors} : Odd(answer)
    BY DEF PlanSurvives
  <2>1. Priced /\ Misfit
    BY <1>1 DEF EcoInv
  <2>2. PICK i \in DOMAIN routes : ~ RouteFits(routes[i], co2[i], given.factor)
    BY <2>1 DEF Misfit
  <2>3. PICK answer \in {given.kakao, given.ors} : ParsedFrom(routes[i], answer)
    BY <1>1 DEF EcoInv, Parsed
  <2>4. PICK raw \in Range(answer) :
          /\ routes[i].m = raw.m /\ routes[i].min = raw.min
          /\ \A k \in DOMAIN routes[i].segments :
               \E p \in Range(raw.pieces) : Tells(routes[i].segments[k], p)
    BY <2>3 DEF ParsedFrom
  <2>5. raw \in Raw
    <3>1. answer \in Seq(Raw)
      BY <1>1 DEF EcoInv, Plan
    <3> QED
      BY <3>1 DEF Range
  <2>6. /\ routes[i] \in Candidate /\ co2[i] \in Nat /\ i \in DOMAIN co2
        /\ co2[i] = Emission(routes[i], given.rows, given.factor)
    BY <1>1, <2>1, PricedIs
  <2>7. /\ Width.co2 \in Nat /\ Width.totalCo2 \in Nat /\ Width.co2 <= Width.totalCo2
        /\ Width.totalDistance \in Nat /\ Width.duration \in Nat
    BY EcoAssumption DEF Column
  <2>8. co2[i] < Width.co2 /\ co2[i] < Width.totalCo2
    BY <2>6, <2>7
  <2>9. SUFFICES ASSUME raw.m < Width.totalDistance, raw.min < Width.duration,
                        \A p \in Range(raw.pieces) : ~ OutOfScale(p)
                 PROVE  FALSE
    <3>1. raw.m \in Nat /\ raw.min \in Nat
      BY <2>5 DEF Raw
    <3> QED
      BY <2>7, <3>1
  <2>10. ASSUME NEW k \in DOMAIN routes[i].segments
         PROVE  SegmentFits(routes[i].segments[k],
                  SegmentEmission(routes[i].segments[k], routes[i].live, given.rows, given.factor))
    <3> DEFINE seg == routes[i].segments[k]
               emission == SegmentEmission(seg, routes[i].live, given.rows, given.factor)
    <3>1. PICK p \in Range(raw.pieces) : Tells(seg, p)
      BY <2>4
    <3>2. p \in Piece
      BY <2>5 DEF Range, Raw
    <3>3. seg \in Segment /\ routes[i].live \in BOOLEAN
      BY <2>6 DEF Candidate
    <3>4. given.rows \in Seq(Bin) /\ given.factor \in Nat
      BY <1>1 DEF EcoInv, Plan
    <3>5. emission \in Nat /\ emission <= co2[i]
      BY <2>6, <3>3, <3>4, SegmentEmissionIs, SegmentWithinRoute
    <3> HIDE DEF seg, emission
    <3>6. emission < Width.co2
      BY <2>6, <2>7, <2>8, <3>5
    <3>7. SegmentFits(seg, emission)
      BY <2>9, <3>1, <3>2, <3>3, <3>6, SegmentOfScaleFits
    <3> QED
      BY <3>7 DEF seg, emission
  <2> QED
    BY <2>2, <2>4, <2>8, <2>9, <2>10 DEF RouteFits
<1> QED
  BY <1>1, EcoInvariant, PTL

\* A recalculation (recalculate_with_vehicle) changes the CO2 of a route with
\* segments in proportion to the factor.
THEOREM RecalculatedInProportion == Spec => []RecalculationProportional
<1>1. ASSUME EcoInv PROVE RecalculationProportional
  <2> SUFFICES ASSUME stage = "redone", NEW i \in DOMAIN routes, routes[i].segments # << >>
               PROVE  redone.co2[i] * given.factor = co2[i] * redone.factor
    BY DEF RecalculationProportional
  <2> DEFINE rows == given.rows
             a == given.factor
             b == redone.factor
             x == SegmentsEmission(routes[i], rows, a)
             y == SegmentsEmission(routes[i], rows, b)
  <2>1. Priced /\ Redone /\ routes # << >>
    BY <1>1 DEF EcoInv
  <2>2. rows \in Seq(Bin) /\ a \in Nat /\ b \in Nat
    BY <1>1, <2>1 DEF EcoInv, Plan, Redone
  <2>3. routes[i] \in Candidate /\ co2[i] = Emission(routes[i], rows, a)
    BY <1>1, <2>1, PricedIs
  <2>4. co2[i] = x
    BY <2>2, <2>3, EmissionIs
  <2>5. redone.co2[i] = y
    BY <1>1, <2>1, RedoneIs
  <2>6. x \in Nat /\ y \in Nat /\ b * x = a * y
    BY <2>2, <2>3, SegmentsEmissionIs
  <2>7. y * a = x * b
    <3> HIDE DEF x, y, a, b
    <3> QED
      BY <2>2, <2>6
  <2> QED
    BY <2>4, <2>5, <2>7
<1> QED
  BY <1>1, EcoInvariant, PTL

\* A vehicle that emits no more makes the recommendation of the new run
\* (recalculate_with_vehicle) no worse than the original one.
THEOREM RecalculatedNoWorse == Spec => []RecalculationSaves
<1>1. ASSUME EcoInv PROVE RecalculationSaves
  <2> SUFFICES ASSUME stage = "redone", redone.factor <= given.factor
               PROVE  redone.co2[redone.best] <= co2[best]
    BY DEF RecalculationSaves
  <2> DEFINE rows == given.rows
             a == redone.factor
             b == given.factor
             x == SegmentsEmission(routes[best], rows, a)
             y == SegmentsEmission(routes[best], rows, b)
  <2>1. Priced /\ Ranked /\ Redone /\ routes # << >>
    BY <1>1 DEF EcoInv
  <2>2. rows \in Seq(Bin) /\ a \in Nat /\ b \in Nat /\ a <= b
    BY <1>1, <2>1 DEF EcoInv, Plan, Redone
  <2>3. best \in DOMAIN routes
    BY <1>1, <2>1, RankedIs
  <2>4. routes[best] \in Candidate /\ co2[best] \in Nat /\ co2[best] = Emission(routes[best], rows, b)
    BY <1>1, <2>1, <2>3, PricedIs
  <2>5. /\ redone.co2[best] = x /\ redone.co2[redone.best] <= redone.co2[best]
        /\ redone.best \in DOMAIN routes /\ redone.co2[redone.best] \in Nat
    BY <1>1, <2>1, <2>3, RedoneIs
  <2>6. x \in Nat /\ y \in Nat /\ x <= y /\ (routes[best].segments = << >> => x = 0)
    BY <2>2, <2>4, SegmentsEmissionIs
  <2>7. x <= co2[best]
    <3>1. CASE routes[best].segments = << >>
      BY <2>4, <2>6, <3>1
    <3>2. CASE routes[best].segments # << >>
      <4>1. co2[best] = y
        BY <2>2, <2>4, <3>2, EmissionIs
      <4> QED
        BY <2>6, <4>1
    <3> QED
      BY <3>1, <3>2
  <2> HIDE DEF x, y
  <2> QED
    BY <2>4, <2>5, <2>6, <2>7
<1> QED
  BY <1>1, EcoInvariant, PTL

\* With rows as they are seeded, read in any order, seeded twice or split by
\* engine (EcoFactorBook.speed_multiplier takes the first that fits), a segment that
\* moves, slower than Top, has one multiplier, whatever the engines measure.
THEOREM OneMultiplierEach ==
  ASSUME BooksTiled
  PROVE  Spec => []OneMultiplier
<1>1. ASSUME EcoInv, BookKept PROVE OneMultiplier
  <2> SUFFICES ASSUME NEW i \in DOMAIN routes, NEW k \in DOMAIN routes[i].segments,
                      0 < routes[i].segments[k].speed, routes[i].segments[k].speed < Top
               PROVE  LET hits == Hits(given.rows, routes[i].segments[k].speed, routes[i].live)
                      IN \E h \in hits : \A j \in hits :
                           given.rows[h].mult = given.rows[j].mult
    BY DEF OneMultiplier
  <2>1. routes[i] \in Candidate /\ given.rows \in Seq(Bin)
    BY <1>1 DEF EcoInv, Plan
  <2>2. routes[i].segments[k] \in Segment /\ routes[i].live \in BOOLEAN
    BY <2>1 DEF Candidate
  <2>3. routes[i].segments[k].speed \in Int
    BY <2>2 DEF Segment
  <2>4. Tiled(given.rows, KindOf(routes[i].live))
    BY <1>1, <2>2 DEF BookKept, BooksTiled, KindOf
  <2> QED
    BY <2>1, <2>2, <2>3, <2>4, TiledHits
<1> QED
  BY <1>1, EcoInvariant, GivenStays, PTL
=============================================================================

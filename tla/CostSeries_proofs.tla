------------------------- MODULE CostSeries_proofs -------------------------
(***************************************************************************)
(* The points of the cost-over-time chart, for sessions of any length, any  *)
(* unit and any cap on their number.                                        *)
(***************************************************************************)
EXTENDS CostSeries, Pricing_proofs, SequenceTheorems

(* What a point of the chart may be.                                        *)
Points ==
    [tick : Int,
     report : {Calculate(Truncate(c, t), o) : c \in Sessions, t \in Int, o \in Options}]

AllTicks == Ticks(cdr.start, cdr.end)

\* The points so far are at the first ticks there are, each with the report of
\* the session as it stood at its tick.
IInv ==
    /\ cdr \in Sessions /\ opts \in Options
    /\ series \in Seq(Points)
    /\ Len(series) <= Len(AllTicks)
    /\ \A k \in 1 .. Len(series) :
          /\ series[k].tick = AllTicks[k]
          /\ series[k].report = Calculate(Truncate(cdr, series[k].tick), opts)

-----------------------------------------------------------------------------
(* buildTicks.                                                              *)

\* CeilDiv is the least number of parts of size d that cover n.
LEMMA CeilDivFacts ==
    ASSUME NEW n \in Int, NEW d \in Nat \ {0}
    PROVE  CeilDiv(n, d) \in Int /\ d * CeilDiv(n, d) - n \in 0 .. d - 1
<1> DEFINE m == n + d - 1
           q == m \div d
           r == m % d
<1>1. m \in Int  OBVIOUS
<1>2. q \in Int /\ r \in 0 .. d - 1 /\ m = d * q + r  BY <1>1, DivisionFacts
<1>3. CeilDiv(n, d) = q  BY DEF CeilDiv
<1>4. m = n + d - 1  OBVIOUS
<1> HIDE DEF m, q, r
<1>5. d * q \in Int  BY <1>2
<1> QED BY <1>2, <1>3, <1>4, <1>5

\* The cap, or the number of points before it.
LEMMA LeastOfTwo ==
    ASSUME NEW a \in Int, NEW b \in Int
    PROVE  Least({a, b}) = IF a <= b THEN a ELSE b
<1> DEFINE x == IF a <= b THEN a ELSE b
<1>1. x \in {a, b} /\ \A y \in {a, b} : x <= y  OBVIOUS
<1>2. ASSUME NEW z \in {a, b}, \A y \in {a, b} : z <= y
      PROVE  z = x
  BY <1>2
<1> QED BY <1>1, <1>2 DEF Least

\* The distance of the points is a whole number of units, and so many of them
\* that MaxTicks points reach the end of the session.
LEMMA StrideFacts ==
    ASSUME NEW from \in Int, NEW until \in Int, from < until
    PROVE  /\ Stride(from, until) \in Nat \ {0}
           /\ \E c \in Nat : Stride(from, until) = Unit * c
           /\ MaxTicks * Stride(from, until) >= until - from
<1> DEFINE length == until - from
           raw == CeilDiv(length, Unit)
           c == IF raw > MaxTicks THEN CeilDiv(raw, MaxTicks) ELSE 1
<1>1. Unit \in Nat \ {0} /\ MaxTicks \in Nat \ {0}  BY TicksAssumption
<1>2. length \in Int /\ length > 0  OBVIOUS
<1>3. raw \in Int /\ Unit * raw - length \in 0 .. Unit - 1
  BY <1>1, <1>2, CeilDivFacts
<1>4. Stride(from, until) = Unit * c  BY DEF Stride
<1>5. c \in Int /\ MaxTicks * c >= raw
  <2>1. CASE raw > MaxTicks
    <3>1. /\ CeilDiv(raw, MaxTicks) \in Int
          /\ MaxTicks * CeilDiv(raw, MaxTicks) - raw \in 0 .. MaxTicks - 1
      BY <1>1, <1>3, CeilDivFacts
    <3>2. c = CeilDiv(raw, MaxTicks)  BY <2>1
    <3> HIDE DEF c, raw
    <3>3. MaxTicks * c \in Int  BY <1>1, <3>1, <3>2
    <3> QED BY <3>1, <3>2, <3>3, <1>1, <1>3
  <2>2. CASE ~ (raw > MaxTicks)
    <3>1. c = 1  BY <2>2
    <3> HIDE DEF c, raw
    <3> QED BY <2>2, <3>1, <1>1, <1>3
  <2> QED BY <2>1, <2>2
<1> HIDE DEF length, raw, c
<1>6. Unit * raw \in Int /\ Unit * raw >= length  BY <1>1, <1>2, <1>3
<1>7. raw > 0
  <2>1. SUFFICES ASSUME raw <= 0 PROVE FALSE  BY <1>3
  <2>2. Unit * raw <= 0  BY <2>1, <1>1, <1>3
  <2> QED BY <2>2, <1>2, <1>6
<1>8. c > 0
  <2>1. SUFFICES ASSUME c <= 0 PROVE FALSE  BY <1>5
  <2>2. MaxTicks * c \in Int /\ MaxTicks * c <= 0  BY <2>1, <1>1, <1>5
  <2> QED BY <2>2, <1>3, <1>5, <1>7
<1>9. c \in Nat /\ Unit * c \in Nat \ {0}  BY <1>1, <1>5, <1>8
<1>10. MaxTicks * (Unit * c) = Unit * (MaxTicks * c)  BY <1>1, <1>9
<1>11. Unit * (MaxTicks * c) >= Unit * raw
  <2>1. MaxTicks * c \in Int  BY <1>1, <1>9
  <2> DEFINE v == MaxTicks * c
  <2>2. v \in Int /\ v >= raw  BY <2>1, <1>5
  <2> HIDE DEF v
  <2>3. Unit * v >= Unit * raw  BY <2>2, <1>1, <1>3
  <2> QED BY <2>3 DEF v
<1>12. MaxTicks * (Unit * c) >= length
  <2>1. Unit * (MaxTicks * c) \in Int  BY <1>1, <1>9
  <2> QED BY <2>1, <1>2, <1>6, <1>10, <1>11
<1> QED BY <1>4, <1>9, <1>12 DEF length

\* The ticks of a session of some length: evenly apart up to the last one, the
\* session's end, which is at most as far from the one before.
LEMMA TicksFacts ==
    ASSUME NEW from \in Int, NEW until \in Int, from < until, MaxTicks # 1
    PROVE  LET step == Stride(from, until)
           IN  \E n \in 1 .. MaxTicks :
                 /\ Ticks(from, until) =
                        [k \in 1 .. n |-> IF k < n THEN from + k * step ELSE until]
                 /\ until - (from + (n - 1) * step) \in 1 .. step
<1> DEFINE step == Stride(from, until)
           length == until - from
           n == CeilDiv(length, step)
<1>1. MaxTicks \in Nat \ {0}  BY TicksAssumption
<1>2. step \in Nat \ {0} /\ MaxTicks * step >= length  BY StrideFacts
<1>3. length \in Int /\ length > 0  OBVIOUS
<1>4. n \in Int /\ step * n - length \in 0 .. step - 1
  BY <1>2, <1>3, CeilDivFacts
<1>5. Ticks(from, until) =
        LET inner == Least({n, MaxTicks}) - 1
        IN  [k \in 1 .. inner + 1 |-> IF k <= inner THEN from + k * step ELSE until]
  BY DEF Ticks
<1> HIDE DEF step, n
<1>6. step * n \in Int  BY <1>2, <1>4
<1>7. n > 0
  <2>1. SUFFICES ASSUME n <= 0 PROVE FALSE  BY <1>4
  <2>2. step * n <= 0  BY <2>1, <1>2, <1>4
  <2> QED BY <2>2, <1>3, <1>4, <1>6
<1>8. n <= MaxTicks
  <2>1. SUFFICES ASSUME n >= MaxTicks + 1 PROVE FALSE  BY <1>1, <1>4
  <2>2. step * n >= step * (MaxTicks + 1)  BY <2>1, <1>1, <1>2, <1>4
  <2>3. step * (MaxTicks + 1) = MaxTicks * step + step  BY <1>1, <1>2
  <2>4. MaxTicks * step \in Int  BY <1>1, <1>2
  <2> QED BY <2>2, <2>3, <2>4, <1>2, <1>3, <1>4, <1>6
<1>9. Least({n, MaxTicks}) = n  BY <1>1, <1>4, <1>8, LeastOfTwo
<1>10. Ticks(from, until) = [k \in 1 .. n |-> IF k < n THEN from + k * step ELSE until]
  <2>1. n - 1 + 1 = n /\ \A k \in 1 .. n : k <= n - 1 <=> k < n  BY <1>4
  <2> QED BY <2>1, <1>5, <1>9
<1>11. (n - 1) * step = step * n - step  BY <1>2, <1>4
<1>12. until - (from + (n - 1) * step) = length - step * n + step
  BY <1>2, <1>6, <1>11
<1>13. until - (from + (n - 1) * step) \in 1 .. step
  BY <1>2, <1>3, <1>4, <1>6, <1>12
<1> QED BY <1>1, <1>4, <1>7, <1>8, <1>10, <1>13 DEF step

\* Ticks are a sequence of times, for every session.
LEMMA TicksTyped ==
    ASSUME NEW from \in Int, NEW until \in Int
    PROVE  Ticks(from, until) \in Seq(Int)
<1>1. CASE until <= from \/ MaxTicks = 1  BY <1>1 DEF Ticks
<1>2. CASE from < until /\ MaxTicks # 1
  <2> DEFINE step == Stride(from, until)
  <2>1. step \in Nat /\ MaxTicks \in Nat  BY <1>2, StrideFacts, TicksAssumption
  <2>2. PICK n \in 1 .. MaxTicks :
          Ticks(from, until) = [k \in 1 .. n |-> IF k < n THEN from + k * step ELSE until]
    BY <1>2, TicksFacts
  <2> HIDE DEF step
  <2>3. \A k \in 1 .. n : from + k * step \in Int  BY <2>1
  <2>4. Ticks(from, until) \in [1 .. n -> Int]  BY <2>2, <2>3
  <2> QED BY <2>1, <2>4
<1> QED BY <1>1, <1>2

\* A whole number of units has no remainder.
LEMMA MultiplesDivide ==
    ASSUME NEW d \in Nat \ {0}, NEW c \in Nat
    PROVE  (d * c) % d = 0
<1> DEFINE n == d * c
           q == n \div d
           r == n % d
<1>1. n \in Int  OBVIOUS
<1>2. q \in Int /\ r \in 0 .. d - 1 /\ n = d * q + r  BY <1>1, DivisionFacts
<1>3. n = d * c  OBVIOUS
<1> HIDE DEF n, q, r
<1>4. d * c - d * q = r /\ d * q \in Int /\ d * c \in Int  BY <1>2, <1>3
<1>5. c * d - q * d = r  BY <1>2, <1>4
<1>6. c * d = q * d  BY <1>2, <1>5, NoMultipleBetween
<1>7. r = 0  BY <1>2, <1>5, <1>6
<1> QED BY <1>7 DEF n, r

-----------------------------------------------------------------------------
(* The chart.                                                               *)

\* No points yet.
LEMMA InitIInv == Init => IInv
<1> SUFFICES ASSUME Init PROVE IInv  OBVIOUS
<1>1. cdr \in Sessions /\ opts \in Options /\ series = <<>>  BY DEF Init
<1>2. cdr.start \in Int /\ cdr.end \in Int  BY <1>1, SessionsAssumption DEF Inputs
<1>3. Len(AllTicks) \in Nat  BY <1>2, TicksTyped DEF AllTicks
<1> QED BY <1>1, <1>3 DEF IInv

\* The next point is at the next tick; the others stay.
LEMMA SampleKeepsIInv == IInv /\ Sample => IInv'
<1> SUFFICES ASSUME IInv, Sample PROVE IInv'  OBVIOUS
<1> DEFINE k == Len(series) + 1
           point == [tick |-> AllTicks[k], report |-> Calculate(Truncate(cdr, AllTicks[k]), opts)]
<1>1. /\ cdr' = cdr /\ opts' = opts /\ k <= Len(AllTicks)
      /\ series' = Append(series, point)
  BY DEF Sample, AllTicks
<1>2. cdr \in Sessions /\ opts \in Options /\ series \in Seq(Points)  BY DEF IInv
<1>3. AllTicks \in Seq(Int)
  <2>1. cdr.start \in Int /\ cdr.end \in Int  BY <1>2, SessionsAssumption DEF Inputs
  <2> QED BY <2>1, TicksTyped DEF AllTicks
<1>4. k \in 1 .. Len(AllTicks) /\ Len(series) \in Nat  BY <1>1, <1>2, <1>3
<1>5. AllTicks[k] \in Int  BY <1>3, <1>4
<1>6. point \in Points
  <2>1. Calculate(Truncate(cdr, AllTicks[k]), opts) \in
          {Calculate(Truncate(c, t), o) : c \in Sessions, t \in Int, o \in Options}
    BY <1>2, <1>5
  <2> QED BY <2>1, <1>5 DEF Points
<1>7. point.tick = AllTicks[k] /\ point.report = Calculate(Truncate(cdr, point.tick), opts)
  OBVIOUS
<1>8. AllTicks' = AllTicks  BY <1>1 DEF AllTicks
<1> HIDE DEF point
<1>9. series' \in Seq(Points) /\ Len(series') = k  BY <1>1, <1>2, <1>6
<1>10. ASSUME NEW j \in 1 .. Len(series')
       PROVE  /\ series'[j].tick = AllTicks'[j]
              /\ series'[j].report = Calculate(Truncate(cdr', series'[j].tick), opts')
  <2>1. CASE j = k
    <3>1. series'[j] = point  BY <2>1, <1>1, <1>2, <1>4
    <3> QED BY <3>1, <2>1, <1>1, <1>7, <1>8
  <2>2. CASE j # k
    <3>1. j \in 1 .. Len(series)  BY <2>2, <1>4, <1>9
    <3>2. series'[j] = series[j]  BY <3>1, <1>1, <1>2
    <3> QED BY <3>1, <3>2, <1>1, <1>8 DEF IInv
  <2> QED BY <2>1, <2>2
<1>11. cdr' \in Sessions /\ opts' \in Options  BY <1>1, <1>2
<1>12. Len(series') <= Len(AllTicks')  BY <1>1, <1>8, <1>9
<1> QED BY <1>9, <1>10, <1>11, <1>12 DEF IInv

\* Every point is at its tick, in every reachable state.
THEOREM Invariance == Spec => []IInv
<1>1. IInv /\ [Next]_vars => IInv'
  <2>1. IInv /\ UNCHANGED vars => IInv'  BY DEF IInv, vars, AllTicks
  <2> QED BY <2>1, SampleKeepsIInv DEF Next
<1> QED BY <1>1, InitIInv, PTL DEF Spec

\* What PointsAreEven says of a chart whose points are at the first ticks.
LEMMA IInvIsEven == IInv => PointsAreEven
<1> SUFFICES ASSUME IInv PROVE PointsAreEven  OBVIOUS
<1> DEFINE from == cdr.start
           until == cdr.end
           tick(k) == IF k = 0 THEN from ELSE series[k].tick
           gap(k) == tick(k) - tick(k - 1)
           n == Len(series)
<1>1. from \in Int /\ until \in Int /\ n \in Nat /\ MaxTicks \in Nat \ {0} /\ Unit \in Nat \ {0}
  <2>1. from \in Int /\ until \in Int  BY SessionsAssumption DEF IInv, Inputs
  <2>2. n \in Nat  BY DEF IInv
  <2> QED BY <2>1, <2>2, TicksAssumption
<1>2. n <= Len(AllTicks) /\ \A k \in 1 .. n : series[k].tick = AllTicks[k]
  BY DEF IInv
<1>3. /\ n <= MaxTicks
      /\ \A k \in 2 .. n : gap(k) <= gap(1) /\ (k < n => gap(k) = gap(1))
      /\ n > 1 => gap(1) % Unit = 0
      /\ n = Len(AllTicks) => tick(n) = until
  <2>1. CASE until <= from \/ MaxTicks = 1
    <3>1. AllTicks = <<until>>  BY <2>1 DEF AllTicks, Ticks
    <3>2. Len(AllTicks) = 1 /\ AllTicks[1] = until  BY <3>1
    <3>3. n <= 1  BY <3>2, <1>2
    <3>4. n = 1 => tick(n) = until  BY <3>2, <1>2
    <3> HIDE DEF n, tick
    <3> QED BY <3>2, <3>3, <3>4, <1>1
  <2>2. CASE from < until /\ MaxTicks # 1
    <3> DEFINE step == Stride(from, until)
    <3>1. step \in Nat \ {0} /\ \E c \in Nat : step = Unit * c
      BY <1>1, <2>2, StrideFacts
    <3>2. PICK m \in 1 .. MaxTicks :
            /\ AllTicks = [k \in 1 .. m |-> IF k < m THEN from + k * step ELSE until]
            /\ until - (from + (m - 1) * step) \in 1 .. step
      BY <1>1, <2>2, TicksFacts DEF AllTicks
    <3>3. step % Unit = 0  BY <3>1, <1>1, MultiplesDivide
    <3> HIDE DEF step
    <3>4. Len(AllTicks) = m /\ m \in Nat  BY <3>2, <1>1
    <3>5. n <= m  BY <3>4, <1>2
    <3>6. ASSUME NEW k \in 0 .. n
          PROVE  tick(k) = IF k < m THEN from + k * step ELSE until
      <4>1. CASE k = 0
        <5>1. 0 * step = 0  BY <3>1
        <5> QED BY <4>1, <5>1, <3>2, <1>1
      <4>2. CASE k # 0
        <5>1. k \in 1 .. n /\ k \in 1 .. m  BY <4>2, <3>4, <3>5, <1>1
        <5>2. tick(k) = AllTicks[k]  BY <4>2, <5>1, <1>2
        <5> QED BY <5>1, <5>2, <3>2
      <4> QED BY <4>1, <4>2
    <3> HIDE DEF tick
    <3>7. ASSUME NEW k \in 1 .. n
          PROVE  gap(k) \in 1 .. step /\ (k < m => gap(k) = step)
      <4>1. k \in 0 .. n /\ k - 1 \in 0 .. n /\ k <= m  BY <3>4, <3>5, <1>1
      <4>2. tick(k - 1) = from + (k - 1) * step  BY <3>6, <4>1, <3>4, <1>1
      <4>3. CASE k < m
        <5>1. tick(k) = from + k * step  BY <3>6, <4>1, <4>3
        <5>2. k * step \in Int /\ (k - 1) * step = k * step - step  BY <3>1, <1>1
        <5> QED BY <4>2, <4>3, <5>1, <5>2, <3>1, <1>1
      <4>4. CASE k = m
        <5>1. tick(k) = until  BY <3>6, <4>1, <4>4
        <5> QED BY <4>2, <4>4, <5>1, <3>2
      <4> QED BY <4>1, <4>3, <4>4, <3>4, <1>1
    <3>8. n > 1 => gap(1) = step  BY <3>4, <3>5, <3>7, <1>1
    <3>9. \A k \in 2 .. n : gap(k) <= step /\ (k < n => gap(k) = step)
      BY <3>1, <3>4, <3>5, <3>7, <1>1
    <3>10. n = m => tick(n) = until  BY <3>4, <3>6, <1>1
    <3> HIDE DEF n, gap
    <3> QED BY <3>3, <3>4, <3>5, <3>8, <3>9, <3>10, <1>1
  <2> QED BY <2>1, <2>2, <1>1
<1>4. Done <=> n = Len(AllTicks)  BY DEF Done, AllTicks
<1> QED BY <1>3, <1>4 DEF PointsAreEven

\* The chart covers the session evenly, however long it is and whatever the cap.
THEOREM EvenPoints == Spec => []PointsAreEven
  BY Invariance, IInvIsEven, PTL

-----------------------------------------------------------------------------
(* truncateCdr.                                                             *)

\* A share of a period is a period; all of it is the period.
LEMMA ScalePeriodFacts ==
    ASSUME NEW p \in Periods, NEW elapsed \in Int, NEW length \in Int,
           elapsed < length => length > 0
    PROVE  /\ ScalePeriod(p, elapsed, length) \in Periods
           /\ ScalePeriod(p, elapsed, length).start = p.start
           /\ ScalePeriod(p, elapsed, length).tariff = p.tariff
           /\ elapsed >= length => ScalePeriod(p, elapsed, length) = p
           /\ HasReadings(ScalePeriod(p, elapsed, length)) <=> HasReadings(p)
           /\ ~ HasReadings(p) => SameReadings(ScalePeriod(p, elapsed, length), p)
<1> DEFINE S(opt) == {Scale(v, elapsed, length) : v \in opt}
           q == ScalePeriod(p, elapsed, length)
<1>1. ASSUME NEW v \in Int
      PROVE  Scale(v, elapsed, length) \in Int
  <2>1. CASE elapsed >= length  BY <2>1 DEF Scale
  <2>2. CASE elapsed < length
    <3>1. 2 * length \in Nat \ {0} /\ 2 * v * elapsed + length \in Int  BY <2>2
    <3>2. (2 * v * elapsed + length) \div (2 * length) \in Int  BY <3>1, DivisionFacts
    <3> QED BY <2>2, <3>2 DEF Scale
  <2> QED BY <2>1, <2>2
<1>2. ASSUME NEW opt \in Opt(Int)
      PROVE  /\ S(opt) \in Opt(Int) /\ (opt = {} <=> S(opt) = {})
             /\ elapsed >= length => S(opt) = opt
  <2>1. opt \subseteq Int /\ \A x, y \in opt : x = y  BY DEF Opt
  <2>2. S(opt) \in Opt(Int)  BY <1>1, <2>1 DEF Opt
  <2>3. elapsed >= length => \A v \in opt : Scale(v, elapsed, length) = v  BY DEF Scale
  <2> QED BY <2>2, <2>3
<1>3. p = [start |-> p.start, volume |-> p.volume, minPower |-> p.minPower,
           maxPower |-> p.maxPower, minCurrent |-> p.minCurrent,
           maxCurrent |-> p.maxCurrent, tariff |-> p.tariff]
  BY DEF Periods
<1> DEFINE volume == [d \in Volumed |-> S(p.volume[d])]
<1> DEFINE a == S(p.minPower)
           b == S(p.maxPower)
           c == S(p.minCurrent)
           e == S(p.maxCurrent)
<1>4. q = [start |-> p.start, volume |-> volume, minPower |-> S(p.minPower),
           maxPower |-> S(p.maxPower), minCurrent |-> S(p.minCurrent),
           maxCurrent |-> S(p.maxCurrent), tariff |-> p.tariff]
  <2>1. q = [p EXCEPT !.volume = volume, !.minPower = a, !.maxPower = b,
                      !.minCurrent = c, !.maxCurrent = e]
    BY Zenon DEF ScalePeriod
  <2> HIDE DEF volume, a, b, c, e, q
  <2>2. q = [start |-> p.start, volume |-> volume, minPower |-> a, maxPower |-> b,
             minCurrent |-> c, maxCurrent |-> e, tariff |-> p.tariff]
    BY <1>3, <2>1
  <2> QED BY <2>2 DEF a, b, c, e
<1>5. /\ p.volume \in [Volumed -> Opt(Int)] /\ p.minPower \in Opt(Int) /\ p.maxPower \in Opt(Int)
      /\ p.minCurrent \in Opt(Int) /\ p.maxCurrent \in Opt(Int)
      /\ p.start \in Int /\ p.tariff \in Opt(Int)
  BY DEF Periods
<1> HIDE DEF S, q
<1>6. volume \in [Volumed -> Opt(Int)]  BY <1>2, <1>5
<1>7. elapsed >= length => volume = p.volume  BY <1>2, <1>5
<1> HIDE DEF volume
<1>8. q \in Periods  BY <1>2, <1>4, <1>5, <1>6 DEF Periods
<1>9. elapsed >= length => q = p  BY <1>2, <1>3, <1>4, <1>5, <1>7
<1>10. /\ HasReadings(q) <=> HasReadings(p)
       /\ ~ HasReadings(p) => SameReadings(q, p)
  BY <1>2, <1>4, <1>5 DEF HasReadings, SameReadings
<1>11. q.start = p.start /\ q.tariff = p.tariff  BY <1>4
<1> QED BY <1>8, <1>9, <1>10, <1>11 DEF q

\* The periods begun at the tick are the first ones.
LEMMA BegunFacts ==
    ASSUME NEW ps \in Seq(Periods), InOrder(ps), NEW tick \in Int
    PROVE  LET begun == Cardinality({i \in DOMAIN ps : ps[i].start <= tick})
           IN  /\ begun \in 0 .. Len(ps)
               /\ {i \in DOMAIN ps : ps[i].start <= tick} = 1 .. begun
<1> DEFINE S == {i \in DOMAIN ps : ps[i].start <= tick}
<1>1. /\ DOMAIN ps = 1 .. Len(ps) /\ Len(ps) \in Nat /\ IsFiniteSet(DOMAIN ps)
      /\ \A i \in DOMAIN ps : ps[i].start \in Int
  <2>1. \A p \in Periods : p.start \in Int  BY DEF Periods
  <2> QED BY <2>1, PlacesAreFinite
<1>2. IsFiniteSet(S) /\ S \subseteq Int
  <2>1. S \in SUBSET DOMAIN ps  OBVIOUS
  <2> HIDE DEF S
  <2> QED BY <2>1, <1>1, FS_Subset
<1>3. CASE S = {}
  <2> HIDE DEF S
  <2>1. Cardinality(S) = 0  BY <1>3, FS_EmptySet
  <2>2. 1 .. 0 = {} /\ 0 \in 0 .. Len(ps)  BY <1>1
  <2>3. Cardinality(S) \in 0 .. Len(ps) /\ S = 1 .. Cardinality(S)  BY <2>1, <2>2, <1>3
  <2> QED BY <2>3 DEF S
<1>4. CASE S # {}
  <2> DEFINE m == Max(S)
  <2>1. m \in S /\ \A i \in S : i <= m
    <3> HIDE DEF S
    <3> QED BY <1>2, <1>4, MaxFacts
  <2> HIDE DEF m
  <2>2. m \in 1 .. Len(ps) /\ ps[m].start <= tick  BY <2>1, <1>1
  <2>3. \A i \in 1 .. m : i \in S
    <3> SUFFICES ASSUME NEW i \in 1 .. m PROVE i \in S  OBVIOUS
    <3>1. i \in DOMAIN ps /\ m \in DOMAIN ps  BY <1>1, <2>2
    <3>2. ps[i].start <= ps[m].start
      <4>1. CASE i = m  BY <4>1, <1>1, <3>1
      <4>2. CASE i < m  BY <4>2, <3>1 DEF InOrder
      <4> QED BY <4>1, <4>2, <2>2
    <3>3. ps[i].start \in Int /\ ps[m].start \in Int  BY <1>1, <3>1
    <3> QED BY <3>1, <3>2, <3>3, <2>2
  <2>4. S = 1 .. m  BY <2>1, <2>2, <2>3, <1>1
  <2>5. Cardinality(1 .. m) = m  BY <2>2, FS_Interval
  <2> HIDE DEF S
  <2>6. Cardinality(S) = m  BY <2>4, <2>5
  <2>7. m \in 0 .. Len(ps)  BY <2>2
  <2> QED BY <2>4, <2>6, <2>7 DEF S
<1> QED BY <1>3, <1>4

\* A session cut off at a tick is a session: of its periods in order, those
\* begun, all but the last of them complete.
Begun(in, tick) == Cardinality({i \in DOMAIN PeriodsOf(in) : PeriodsOf(in)[i].start <= tick})
\* What truncateCdr keeps of a session: its periods in order, up to the last that
\* has begun.
LEMMA TruncateFacts ==
    ASSUME NEW in \in Inputs, NEW tick \in Int
    PROVE  LET cut == Truncate(in, tick)
               ps == PeriodsOf(in)
               qs == PeriodsOf(cut)
               n == Begun(in, tick)
           IN  /\ cut \in Inputs /\ cut.periods = qs
               /\ cut = [in EXCEPT !.end = tick, !.periods = qs]
               /\ cut.start = in.start /\ cut.end = tick /\ cut.tariffs = in.tariffs
               /\ cut.currency = in.currency /\ cut.countryZone = in.countryZone
               /\ cut.warnings = in.warnings
               /\ ps \in Seq(Periods) /\ InOrder(ps) /\ n \in 0 .. Len(ps)
               /\ {i \in DOMAIN ps : ps[i].start <= tick} = 1 .. n
               /\ qs \in Seq(Periods) /\ Len(qs) = n
               /\ \A i \in 1 .. n :
                    /\ qs[i].start = ps[i].start /\ qs[i].tariff = ps[i].tariff
                    /\ EndOfPeriod(ps, i, in.end) <= tick => qs[i] = ps[i]
                    /\ HasReadings(qs[i]) <=> HasReadings(ps[i])
                    /\ ~ HasReadings(ps[i]) => SameReadings(qs[i], ps[i])
<1> DEFINE cut == Truncate(in, tick)
           ps == PeriodsOf(in)
           n == Begun(in, tick)
           end(i) == EndOfPeriod(ps, i, in.end)
           elapsed(i) == Least({tick, end(i)}) - ps[i].start
           length(i) == end(i) - ps[i].start
           qs == [i \in 1 .. n |-> ScalePeriod(ps[i], elapsed(i), length(i))]
<1>1. cut = [in EXCEPT !.end = tick, !.periods = qs]
  BY Zenon DEF Truncate, PeriodsOf, Begun, EndOfPeriod
<1>2. in.periods \in Seq(Periods) /\ in.end \in Int  BY DEF Inputs
<1>3. ps \in Seq(Periods) /\ InOrder(ps)  BY <1>2, SortedPeriodsTyped DEF PeriodsOf
<1> HIDE DEF ps
<1>4. n \in 0 .. Len(ps) /\ {i \in DOMAIN ps : ps[i].start <= tick} = 1 .. n
  BY <1>3, BegunFacts DEF Begun, ps
<1>5. /\ Len(ps) \in Nat /\ DOMAIN ps = 1 .. Len(ps)
      /\ \A i \in 1 .. Len(ps) : ps[i] \in Periods /\ ps[i].start \in Int
  <2>1. \A p \in Periods : p.start \in Int  BY DEF Periods
  <2> QED BY <2>1, <1>3, PlacesAreFinite
<1> HIDE DEF n
<1>6. ASSUME NEW i \in 1 .. n
      PROVE  /\ elapsed(i) \in Int /\ length(i) \in Int
             /\ elapsed(i) < length(i) => length(i) > 0
             /\ end(i) <= tick => elapsed(i) >= length(i)
             /\ ps[i] \in Periods
  <2>1. i \in 1 .. Len(ps) /\ ps[i].start \in Int /\ ps[i].start <= tick  BY <1>4, <1>5
  <2>2. end(i) \in Int
    <3>1. CASE i < Len(ps)
      <4>1. i + 1 \in 1 .. Len(ps)  BY <2>1, <3>1, <1>5
      <4> QED BY <4>1, <3>1, <1>5 DEF EndOfPeriod
    <3>2. CASE ~ (i < Len(ps))  BY <3>2, <1>2 DEF EndOfPeriod
    <3> QED BY <3>1, <3>2
  <2> DEFINE e == end(i)
             s == ps[i].start
  <2>3. Least({tick, e}) = IF tick <= e THEN tick ELSE e
    <3> HIDE DEF e
    <3> QED BY <2>2, LeastOfTwo DEF e
  <2>4. e \in Int /\ s \in Int /\ s <= tick /\ elapsed(i) = Least({tick, e}) - s /\ length(i) = e - s
    BY <2>1, <2>2
  <2> HIDE DEF e, s, elapsed, length
  <2> QED BY <2>1, <2>3, <2>4, <1>5 DEF e
<1> HIDE DEF elapsed, length, end
<1>7. ASSUME NEW i \in 1 .. n
      PROVE  /\ qs[i] \in Periods
             /\ qs[i].start = ps[i].start /\ qs[i].tariff = ps[i].tariff
             /\ end(i) <= tick => qs[i] = ps[i]
             /\ HasReadings(qs[i]) <=> HasReadings(ps[i])
             /\ ~ HasReadings(ps[i]) => SameReadings(qs[i], ps[i])
  BY <1>6, ScalePeriodFacts
<1>9. DOMAIN qs = 1 .. n /\ qs = [i \in 1 .. n |-> qs[i]]  OBVIOUS
<1> HIDE DEF qs
<1>10. n \in Nat  BY <1>4, <1>5
<1>11. qs \in Seq(Periods) /\ Len(qs) = n  BY <1>7, <1>9, <1>10
<1>12. InOrder(qs)
  <2> SUFFICES ASSUME NEW i \in 1 .. n, NEW j \in 1 .. n, i < j
               PROVE  qs[i].start <= qs[j].start
    BY <1>9 DEF InOrder
  <2>1. i \in DOMAIN ps /\ j \in DOMAIN ps  BY <1>4, <1>5
  <2> QED BY <2>1, <1>3, <1>7 DEF InOrder
<1>13. cut.periods = qs /\ SortedPeriods(qs) = qs
  <2>1. cut.periods = qs  BY <1>1 DEF Inputs
  <2> QED BY <2>1, <1>11, <1>12, SortedIsIdempotent
<1>14. PeriodsOf(cut) = qs  BY <1>13 DEF PeriodsOf
<1>15. /\ cut.start = in.start /\ cut.end = tick /\ cut.tariffs = in.tariffs
       /\ cut.currency = in.currency /\ cut.countryZone = in.countryZone
       /\ cut.warnings = in.warnings /\ cut \in Inputs
  BY <1>1, <1>11 DEF Inputs
<1> HIDE DEF cut
<1> QED BY <1>1, <1>3, <1>4, <1>7, <1>11, <1>13, <1>14, <1>15
        DEF cut, ps, n, end

-----------------------------------------------------------------------------
(* What the chart says of the session.                                      *)

\* The state the properties speak of: a session that is begun is a session,
\* cut off at the latest tick.
LEMMA LatestPoint ==
    ASSUME IInv
    PROVE  /\ cdr \in Inputs /\ opts \in EngineOptions
           /\ \A k \in 1 .. Len(series) :
                series[k].tick \in Int /\ At(k) = Truncate(cdr, series[k].tick) /\ At(k) \in Inputs
           /\ Started => /\ Len(series) \in 1 .. Len(series) /\ now = At(Len(series))
                         /\ rep = Calculate(now, opts)
<1>1. /\ cdr \in Inputs /\ opts \in EngineOptions /\ series \in Seq(Points)
  BY SessionsAssumption, OptionsAssumption DEF IInv
<1>2. \A k \in 1 .. Len(series) : series[k].tick \in Int
  <2>1. \A k \in 1 .. Len(series) : series[k] \in Points  BY <1>1
  <2> QED BY <2>1 DEF Points
<1>3. \A k \in 1 .. Len(series) : At(k) = Truncate(cdr, series[k].tick) /\ At(k) \in Inputs
  BY <1>1, <1>2, TruncateFacts DEF At
<1>4. Started => Len(series) \in 1 .. Len(series)  BY <1>1 DEF Started
<1>5. now = At(Len(series))  BY DEF now
<1>6. Started => rep = Calculate(now, opts)
  BY <1>4 DEF IInv, rep, now, At
<1> QED BY <1>1, <1>2, <1>3, <1>4, <1>5, <1>6

\* The session at its own end is the session: of periods that start in time,
\* all are begun and complete.
LEMMA TruncatedAtItsEnd ==
    ASSUME NEW in \in Inputs, NEW o,
           \A i \in DOMAIN in.periods : in.periods[i].start <= in.end
    PROVE  Calculate(Truncate(in, in.end), o) = Calculate(in, o)
<1> DEFINE cut == Truncate(in, in.end)
           ps == PeriodsOf(in)
           qs == PeriodsOf(cut)
           n == Begun(in, in.end)
<1>1. in.end \in Int /\ in.periods \in Seq(Periods)  BY DEF Inputs
<1>2. /\ cut.periods = qs
      /\ cut.start = in.start /\ cut.end = in.end /\ cut.tariffs = in.tariffs
      /\ cut.currency = in.currency /\ cut.countryZone = in.countryZone
      /\ cut.warnings = in.warnings
      /\ ps \in Seq(Periods) /\ n \in 0 .. Len(ps)
      /\ {i \in DOMAIN ps : ps[i].start <= in.end} = 1 .. n
      /\ qs \in Seq(Periods) /\ Len(qs) = n
      /\ \A i \in 1 .. n : EndOfPeriod(ps, i, in.end) <= in.end => qs[i] = ps[i]
  BY <1>1, TruncateFacts
<1>3. {ps[i] : i \in DOMAIN ps} = {in.periods[i] : i \in DOMAIN in.periods}
  BY <1>1, SortedPeriodsTyped DEF PeriodsOf
<1> HIDE DEF cut, ps, qs, n
<1>4. \A i \in DOMAIN ps : ps[i].start <= in.end
  <2> SUFFICES ASSUME NEW i \in DOMAIN ps PROVE ps[i].start <= in.end  OBVIOUS
  <2>1. ps[i] \in {in.periods[j] : j \in DOMAIN in.periods}  BY <1>3
  <2> QED BY <2>1
<1>5. n = Len(ps)
  <2>1. DOMAIN ps = 1 .. n  BY <1>2, <1>4
  <2>2. DOMAIN ps = 1 .. Len(ps) /\ Len(ps) \in Nat  BY <1>2
  <2> QED BY <2>1, <2>2, <1>2
<1>6. qs = ps
  <2>1. \A i \in 1 .. n : EndOfPeriod(ps, i, in.end) <= in.end
    <3> SUFFICES ASSUME NEW i \in 1 .. n PROVE EndOfPeriod(ps, i, in.end) <= in.end  OBVIOUS
    <3>1. CASE i < Len(ps)
      <4>1. i + 1 \in DOMAIN ps  BY <3>1, <1>2
      <4> QED BY <3>1, <4>1, <1>4 DEF EndOfPeriod
    <3>2. CASE ~ (i < Len(ps))  BY <3>2, <1>1 DEF EndOfPeriod
    <3> QED BY <3>1, <3>2
  <2>2. \A i \in 1 .. n : qs[i] = ps[i]  BY <2>1, <1>2
  <2> QED BY <2>2, <1>2, <1>5
<1>7. {cut.periods[i] : i \in DOMAIN cut.periods} = {in.periods[i] : i \in DOMAIN in.periods}
  <2>1. cut.periods = ps  BY <1>2, <1>6
  <2> QED BY <2>1, <1>3, Zenon
<1>8. Valid(cut) <=> Valid(in)  BY <1>2, <1>7, ValidInAnyOrder
<1>9. SamePricing(cut, in)  BY <1>2, <1>6, <1>8 DEF SamePricing, ps, qs
<1> QED BY <1>2, <1>9, PricingDependsOn DEF cut

\* A session has at least one tick, and the last is its end.
LEMMA LastTickIsTheEnd ==
    ASSUME NEW from \in Int, NEW until \in Int
    PROVE  /\ Len(Ticks(from, until)) \in Nat \ {0}
           /\ Ticks(from, until)[Len(Ticks(from, until))] = until
<1>1. CASE until <= from \/ MaxTicks = 1
  <2>1. Ticks(from, until) = <<until>>  BY <1>1 DEF Ticks
  <2> QED BY <2>1
<1>2. CASE from < until /\ MaxTicks # 1
  <2> DEFINE step == Stride(from, until)
  <2>1. MaxTicks \in Nat  BY TicksAssumption
  <2>2. PICK n \in 1 .. MaxTicks :
          Ticks(from, until) = [k \in 1 .. n |-> IF k < n THEN from + k * step ELSE until]
    BY <1>2, TicksFacts
  <2> HIDE DEF step
  <2>3. n \in Nat \ {0}  BY <2>1
  <2>4. Len(Ticks(from, until)) = n  BY <2>2, <2>3
  <2> QED BY <2>2, <2>3, <2>4
<1> QED BY <1>1, <1>2

\* The final point is the report of the main run, for every session whose
\* periods start in time.  (computeCostSeries at the final tick)
THEOREM LastPoint == Spec => []LastPointIsTheFullRun
<1>1. IInv => LastPointIsTheFullRun
  <2> SUFFICES ASSUME IInv, Done, StartsInTime PROVE rep = Calculate(cdr, opts)
    BY DEF LastPointIsTheFullRun
  <2>1. cdr \in Inputs /\ (Started => rep = Calculate(now, opts))  BY LatestPoint
  <2>2. cdr.start \in Int /\ cdr.end \in Int  BY <2>1 DEF Inputs
  <2>3. Len(AllTicks) \in Nat \ {0} /\ AllTicks[Len(AllTicks)] = cdr.end
    BY <2>2, LastTickIsTheEnd DEF AllTicks
  <2>4. Len(series) = Len(AllTicks)  BY DEF Done, AllTicks
  <2>5. series[Len(series)].tick = cdr.end  BY <2>3, <2>4 DEF IInv
  <2>6. Started
    <3>1. series # <<>>  BY <2>3, <2>4
    <3> QED BY <3>1 DEF Started
  <2>7. now = Truncate(cdr, cdr.end)  BY <2>5 DEF now, At
  <2>8. \A i \in DOMAIN cdr.periods : cdr.periods[i].start <= cdr.end  BY DEF StartsInTime
  <2> QED BY <2>1, <2>6, <2>7, <2>8, TruncatedAtItsEnd
<1> QED BY <1>1, Invariance, PTL

\* The zone and the order of the periods, of the session and of its tick.
LEMMA FoundIsOf ==
    ASSUME NEW in
    PROVE  /\ Zone(in) = ZoneOf(in, opts)
           /\ Found(in).ps = PeriodsOf(in) /\ Found(in).act = ActiveOf(in, opts)
BY DEF Found, Zone, ZoneOf, PeriodsOf, ActiveOf

\* The time zone is found from the tariffs and the country, not from the periods.
LEMMA ZonesAgree ==
    ASSUME NEW a, NEW b, a.tariffs = b.tariffs, a.countryZone = b.countryZone, NEW o
    PROVE  ZoneOf(a, o) = ZoneOf(b, o)
BY DEF ZoneOf, ResolveZone

\* At every tick a period is priced by the components that price it in the
\* end: by what came before it, and by its readings when it is over or has none.
LEMMA PricedAtEveryTick ==
    ASSUME NEW in \in Inputs, NEW tick \in Int, NEW o,
           NEW i \in DOMAIN ActiveOf(Truncate(in, tick), o),
           \/ i < Len(PeriodsOf(Truncate(in, tick)))
           \/ ~ HasReadings(PeriodsOf(Truncate(in, tick))[i])
    PROVE  ActiveOf(Truncate(in, tick), o)[i] = ActiveOf(in, o)[i]
<1> DEFINE cut == Truncate(in, tick)
           ps == PeriodsOf(in)
           qs == PeriodsOf(cut)
           n == Begun(in, tick)
<1>2. /\ cut.start = in.start /\ cut.end = tick /\ cut.tariffs = in.tariffs
      /\ cut.countryZone = in.countryZone
      /\ ps \in Seq(Periods) /\ n \in 0 .. Len(ps)
      /\ {j \in DOMAIN ps : ps[j].start <= tick} = 1 .. n
      /\ qs \in Seq(Periods) /\ Len(qs) = n
      /\ \A j \in 1 .. n :
           /\ qs[j].start = ps[j].start /\ qs[j].tariff = ps[j].tariff
           /\ EndOfPeriod(ps, j, in.end) <= tick => qs[j] = ps[j]
           /\ HasReadings(qs[j]) <=> HasReadings(ps[j])
           /\ ~ HasReadings(ps[j]) => SameReadings(qs[j], ps[j])
  BY TruncateFacts
<1> HIDE DEF cut
<1>3. ActiveOf(cut, o) = Active(cut, qs, ZoneOf(cut, o))
  BY DEF ActiveOf
<1>4. ActiveOf(in, o) = Active(in, ps, ZoneOf(cut, o))
  <2>1. ZoneOf(in, o) = ZoneOf(cut, o)  BY <1>2, ZonesAgree
  <2> QED BY <2>1 DEF ActiveOf
<1> DEFINE zone == ZoneOf(cut, o)
<1> HIDE DEF ps, qs, n, zone
<1>5. i \in 1 .. n /\ i \in DOMAIN ps /\ i \in DOMAIN qs /\ Len(ps) \in Nat /\ n \in Nat
  <2>1. DOMAIN Active(cut, qs, zone) = DOMAIN qs  BY DEF Active
  <2>2. i \in DOMAIN qs  BY <2>1, <1>3 DEF zone, cut
  <2> QED BY <2>2, <1>2
<1>6. ASSUME NEW j \in 1 .. n, j < n
      PROVE  qs[j] = ps[j] /\ EndOfPeriod(qs, j, tick) = EndOfPeriod(ps, j, in.end)
  <2>1. j + 1 \in 1 .. n /\ j < Len(ps)  BY <1>2, <1>6
  <2>2. j + 1 \in {k \in DOMAIN ps : ps[k].start <= tick}  BY <2>1, <1>2
  <2>3. EndOfPeriod(ps, j, in.end) = ps[j + 1].start /\ ps[j + 1].start <= tick
    BY <2>1, <2>2 DEF EndOfPeriod
  <2>4. EndOfPeriod(qs, j, tick) = qs[j + 1].start  BY <1>2, <1>6 DEF EndOfPeriod
  <2> QED BY <2>1, <2>3, <2>4, <1>2
<1>7. Snapshots(cut.start, cut.end, qs, zone)[i - 1] = Snapshots(in.start, in.end, ps, zone)[i - 1]
  <2> DEFINE m == i - 1
  <2>1. m \in 0 .. Len(qs) /\ m \in 0 .. Len(ps)  BY <1>2, <1>5
  <2>2. \A j \in 1 .. m : j \in 1 .. n /\ j < n  BY <1>2, <1>5
  <2> HIDE DEF m
  <2>3. \A j \in 1 .. m : /\ Volume(qs[j], "ENERGY") = Volume(ps[j], "ENERGY")
                          /\ EndOfPeriod(qs, j, tick) = EndOfPeriod(ps, j, in.end)
    BY <2>2, <1>6
  <2>4. Len(qs) \in Nat /\ Len(ps) \in Nat  BY <1>2
  <2>5. SameUpTo(qs, tick, ps, in.end, m)  BY <2>1, <2>3, <2>4 DEF SameUpTo
  <2>6. Snapshots(in.start, tick, qs, zone)[m] = Snapshots(in.start, in.end, ps, zone)[m]
    BY <2>5, SnapshotsDependOn
  <2> QED BY <2>6, <1>2 DEF m
<1>8. SameReadings(qs[i], ps[i])
  <2>1. CASE i < n  BY <2>1, <1>5, <1>6 DEF SameReadings
  <2>2. CASE ~ (i < n)
    <3>1. ~ HasReadings(qs[i])  BY <2>2, <1>2, <1>3 DEF cut, qs
    <3> QED BY <3>1, <1>2, <1>5
  <2> QED BY <2>1, <2>2
<1>9. Active(cut, qs, zone)[i] = Active(in, ps, zone)[i]
  <2>1. MatchedAlike(cut, qs, i, in, ps, i, zone)
    BY <1>2, <1>5, <1>7, <1>8 DEF MatchedAlike
  <2> QED BY <2>1, ActiveDependsOn
<1> QED BY <1>3, <1>4, <1>9 DEF zone, cut

\* At every tick a period is priced by the components that price it in the
\* full run, whatever comes after it.  (truncateCdr; matches)
THEOREM PricedAsInTheEnd == Spec => []PricedAsInTheMainRun
<1>1. IInv => PricedAsInTheMainRun
  <2> SUFFICES ASSUME IInv, Started,
                      NEW i \in DOMAIN Found(now).act,
                      i < Len(Found(now).ps) \/ ~ HasReadings(Found(now).ps[i])
               PROVE  Found(now).act[i] = Found(cdr).act[i]
    BY DEF PricedAsInTheMainRun
  <2> DEFINE tick == series[Len(series)].tick
  <2>1. cdr \in Inputs /\ tick \in Int /\ now = Truncate(cdr, tick)
    BY LatestPoint
  <2> HIDE DEF tick
  <2>2. /\ Found(now).act = ActiveOf(Truncate(cdr, tick), opts)
        /\ Found(now).ps = PeriodsOf(Truncate(cdr, tick))
        /\ Found(cdr).act = ActiveOf(cdr, opts)
    BY <2>1, FoundIsOf
  <2> QED BY <2>1, <2>2, PricedAtEveryTick
<1> QED BY <1>1, Invariance, PTL

\* Taking the tariff of a period away leaves the others priced as they were.
\* (README.md: such periods "still advance the cumulative restriction
\* snapshots")
THEOREM UnpricedCount == Spec => []UnpricedPeriodsStillCount
<1>1. ASSUME NEW in \in Inputs, in.periods = PeriodsOf(in),
             NEW i \in DOMAIN Found(in).act, NEW j \in DOMAIN Found(in).act \ {i}
      PROVE  Found([in EXCEPT !.periods[i].tariff = {}]).act[j] = Found(in).act[j]
  <2> DEFINE un == [in EXCEPT !.periods[i].tariff = {}]
             ps == in.periods
             qs == [ps EXCEPT ![i].tariff = {}]
             zone == ZoneOf(in, opts)
  <2>1. ps \in Seq(Periods) /\ InOrder(ps)
    <3>1. in.periods \in Seq(Periods)  BY DEF Inputs
    <3> QED BY <3>1, <1>1, SortedPeriodsTyped DEF PeriodsOf
  <2>2. /\ un.start = in.start /\ un.end = in.end /\ un.tariffs = in.tariffs
        /\ un.countryZone = in.countryZone /\ un.periods = qs
    BY DEF Inputs
  <2> HIDE DEF un
  <2>3. Found(in).act = Active(in, ps, zone)  BY <1>1, FoundIsOf DEF ActiveOf
  <2> HIDE DEF ps
  <2>4. i \in DOMAIN ps /\ j \in DOMAIN ps /\ j # i
    <3>1. DOMAIN Active(in, ps, zone) = DOMAIN ps  BY DEF Active
    <3> QED BY <3>1, <2>3, <1>1
  <2>5. /\ DOMAIN ps = 1 .. Len(ps) /\ Len(ps) \in Nat
        /\ \A k \in DOMAIN ps : ps[k] \in Periods
    BY <2>1, PlacesAreFinite
  <2>6. ASSUME NEW k \in DOMAIN ps
        PROVE  /\ qs[k] \in Periods
               /\ qs[k].start = ps[k].start /\ qs[k].volume = ps[k].volume
               /\ SameReadings(qs[k], ps[k])
               /\ k # i => qs[k] = ps[k]
    <3> DEFINE p == ps[k]
    <3>1. p \in Periods  BY <2>5
    <3>2. qs[k] = IF k = i THEN [p EXCEPT !.tariff = {}] ELSE p  BY <2>4
    <3> HIDE DEF p
    <3>3. {} \in Opt(Int)  BY DEF Opt
    <3>4. /\ [p EXCEPT !.tariff = {}] \in Periods
          /\ [p EXCEPT !.tariff = {}].start = p.start
          /\ [p EXCEPT !.tariff = {}].volume = p.volume
          /\ SameReadings([p EXCEPT !.tariff = {}], p)
      BY <3>1, <3>3 DEF Periods, SameReadings
    <3>5. SameReadings(p, p)  BY DEF SameReadings
    <3> HIDE DEF qs
    <3>6. CASE k = i  BY <3>2, <3>4, <3>6 DEF p
    <3>7. CASE k # i  BY <3>1, <3>2, <3>5, <3>7 DEF p
    <3> QED BY <3>6, <3>7
  <2>7. DOMAIN qs = DOMAIN ps /\ qs = [k \in 1 .. Len(ps) |-> qs[k]]  BY <2>5
  <2> HIDE DEF qs
  <2>8. qs \in Seq(Periods) /\ Len(qs) = Len(ps)  BY <2>5, <2>6, <2>7
  <2>9. InOrder(qs)  BY <2>1, <2>6, <2>7 DEF InOrder
  <2>10. PeriodsOf(un) = qs  BY <2>2, <2>8, <2>9, SortedIsIdempotent DEF PeriodsOf
  <2>11. Found(un).act = Active(un, qs, zone)
    <3>1. ZoneOf(un, opts) = zone  BY <2>2, ZonesAgree
    <3> QED BY <3>1, <2>10, FoundIsOf DEF ActiveOf
  <2> HIDE DEF zone
  <2>12. Snapshots(un.start, un.end, qs, zone)[j - 1] = Snapshots(in.start, in.end, ps, zone)[j - 1]
    <3> DEFINE m == j - 1
    <3>1. m \in 0 .. Len(qs) /\ m \in 0 .. Len(ps)
      BY <2>4, <2>5, <2>8
    <3>2. \A k \in 1 .. m : k \in DOMAIN ps /\ k < Len(ps) /\ k + 1 \in DOMAIN ps
      BY <2>4, <2>5
    <3> HIDE DEF m
    <3>3. \A k \in 1 .. m : /\ Volume(qs[k], "ENERGY") = Volume(ps[k], "ENERGY")
                            /\ EndOfPeriod(qs, k, in.end) = EndOfPeriod(ps, k, in.end)
      <4> SUFFICES ASSUME NEW k \in 1 .. m
                   PROVE  /\ Volume(qs[k], "ENERGY") = Volume(ps[k], "ENERGY")
                          /\ EndOfPeriod(qs, k, in.end) = EndOfPeriod(ps, k, in.end)
        OBVIOUS
      <4>1. qs[k].volume = ps[k].volume /\ qs[k + 1].start = ps[k + 1].start  BY <3>2, <2>6
      <4>2. Volume(qs[k], "ENERGY") = Volume(ps[k], "ENERGY")  BY <4>1 DEF Volume
      <4> QED BY <4>1, <4>2, <2>8 DEF EndOfPeriod
    <3>4. SameUpTo(qs, in.end, ps, in.end, m)  BY <3>1, <3>3, <2>5, <2>8 DEF SameUpTo
    <3>5. Snapshots(in.start, in.end, qs, zone)[m] = Snapshots(in.start, in.end, ps, zone)[m]
      BY <3>4, SnapshotsDependOn
    <3> QED BY <3>5, <2>2 DEF m
  <2>13. qs[j].tariff = ps[j].tariff /\ SameReadings(qs[j], ps[j])  BY <2>4, <2>6
  <2>14. Active(un, qs, zone)[j] = Active(in, ps, zone)[j]
    <3>1. MatchedAlike(un, qs, j, in, ps, j, zone)
      BY <2>2, <2>4, <2>7, <2>12, <2>13 DEF MatchedAlike
    <3> QED BY <3>1, ActiveDependsOn
  <2> QED BY <2>3, <2>11, <2>14 DEF un
<1>2. IInv => UnpricedPeriodsStillCount
  <2> SUFFICES ASSUME IInv, Started PROVE UnpricedPeriodsStillCount
    BY DEF UnpricedPeriodsStillCount
  <2>1. cdr \in Inputs /\ now \in Inputs /\ now = Truncate(cdr, series[Len(series)].tick)
        /\ series[Len(series)].tick \in Int
    BY LatestPoint
  <2>2. now.periods = PeriodsOf(now)  BY <2>1, TruncateFacts
  <2> DEFINE un(i) == [now EXCEPT !.periods[i].tariff = {}]
  <2>3. \A i \in DOMAIN Found(now).act : \A j \in DOMAIN Found(now).act \ {i} :
            Found(un(i)).act[j] = Found(now).act[j]
    BY <1>1, <2>1, <2>2
  <2> QED BY <2>3, Zenon DEF UnpricedPeriodsStillCount
<1> QED BY <1>2, Invariance, PTL

-----------------------------------------------------------------------------
(* What a point costs.                                                      *)

\* A point that is priced: the results the engine's report is made of.
LEMMA PricedPoint ==
    ASSUME NEW in \in Inputs, NEW o \in EngineOptions, Calculate(in, o).error = "none"
    PROVE  /\ Valid(in) /\ ~ Refused(in, o) /\ ~ StepRefused(in, o)
           /\ IsActive(ActiveOf(in, o), PeriodsOf(in))
           /\ PeriodsOf(in) \in Seq(Periods)
           /\ UsedBy(in) \subseteq DOMAIN in.tariffs
           /\ CostOf(in, o) \in [Dims -> Moneys] /\ TotalOf(in, o) \in Moneys
           /\ \A d \in Volumed :
                /\ IsLedger(LedgerOf(in, o, d)) /\ ~ StepFails(d, LedgerOf(in, o, d), IdleOf(in, o))
                /\ CostOf(in, o)[d] = SessionCost(d, LedgerOf(in, o, d), IdleOf(in, o))
           /\ o.precision = {} =>
                /\ Calculate(in, o).total = TotalOf(in, o)
                /\ \A d \in Dims : Calculate(in, o).cost[d] = CostOf(in, o)[d]
<1>1. ~ Refused(in, o) /\ ~ StepRefused(in, o)  BY ReportsAreTyped
<1>2. Valid(in)  BY <1>1 DEF Refused
<1>3. /\ PeriodsOf(in) \in Seq(Periods) /\ UsedBy(in) \subseteq DOMAIN in.tariffs
      /\ IsActive(ActiveOf(in, o), PeriodsOf(in))
  BY <1>2, ValidInputs
<1>4. /\ CostOf(in, o) \in [Dims -> Moneys] /\ TotalOf(in, o) \in Moneys
      /\ \A d \in Volumed : CostOf(in, o)[d] = SessionCost(d, LedgerOf(in, o, d), IdleOf(in, o))
  BY <1>1, CostsTyped
<1>5. \A d \in Volumed : IsLedger(LedgerOf(in, o, d))  BY <1>3, LedgerTyped DEF LedgerOf
<1>6. \A d \in Volumed : ~ StepFails(d, LedgerOf(in, o, d), IdleOf(in, o))
  BY <1>1 DEF StepRefused
<1>7. ASSUME o.precision = {}
      PROVE  /\ Calculate(in, o).total = TotalOf(in, o)
             /\ \A d \in Dims : Calculate(in, o).cost[d] = CostOf(in, o)[d]
  <2>1. \A m : RoundedTo(m, o) = m  BY <1>7 DEF RoundedTo
  <2>2. /\ Calculate(in, o).total = RoundedTo(TotalOf(in, o), o)
        /\ Calculate(in, o).cost = [d \in Dims |-> RoundedTo(CostOf(in, o)[d], o)]
    BY <1>1, CalculateFacts
  <2> QED BY <2>1, <2>2
<1> QED BY <1>1, <1>2, <1>3, <1>4, <1>5, <1>6, <1>7

\* Max and Min of two numbers.
LEMMA ExtremesOfTwo ==
    ASSUME NEW a \in Int, NEW b \in Int
    PROVE  /\ Max({a, b}) = IF a >= b THEN a ELSE b
           /\ Min({a, b}) = IF a <= b THEN a ELSE b
<1> DEFINE x == IF a >= b THEN a ELSE b
           y == IF a <= b THEN a ELSE b
<1>1. x \in {a, b} /\ \A z \in {a, b} : x >= z  OBVIOUS
<1>2. y \in {a, b} /\ \A z \in {a, b} : y <= z  OBVIOUS
<1>3. \A w \in {a, b} : (\A z \in {a, b} : w >= z) => w = x  OBVIOUS
<1>4. \A w \in {a, b} : (\A z \in {a, b} : w <= z) => w = y  OBVIOUS
<1> HIDE DEF x, y
<1> QED BY <1>1, <1>2, <1>3, <1>4 DEF Max, Min, x, y

\* A share of at most all of it is between nothing and all of it.
LEMMA ShareOf ==
    ASSUME NEW k \in Nat, NEW m \in Nat, k <= m, NEW p \in Int
    PROVE  /\ k * p \in Int /\ m * p \in Int
           /\ Min({m * p, 0}) <= k * p /\ k * p <= Max({m * p, 0})
<1>1. PICK j \in Nat : m = k + j  
  <2>1. m - k \in Nat /\ m = k + (m - k)  OBVIOUS
  <2> QED BY <2>1
<1> DEFINE x == k * p
           y == j * p
<1>2. x \in Int /\ y \in Int /\ m * p = x + y  BY <1>1
<1>3. p >= 0 => x >= 0 /\ y >= 0  OBVIOUS
<1>4. p < 0 => x <= 0 /\ y <= 0  OBVIOUS
<1> DEFINE z == m * p
<1>5. z = x + y  BY <1>2
<1> HIDE DEF x, y, z
<1>6. /\ Max({z, 0}) = IF z >= 0 THEN z ELSE 0
      /\ Min({z, 0}) = IF z <= 0 THEN z ELSE 0
  BY <1>2, <1>5, ExtremesOfTwo
<1>7. z \in Int /\ Min({z, 0}) <= x /\ x <= Max({z, 0})
  BY <1>2, <1>3, <1>4, <1>5, <1>6
<1> QED BY <1>2, <1>7 DEF x, z

\* The step adds less than one step of volume, at the price of the last period;
\* the rounding is to the nearest amount.  All of it in one inequation.
LEMMA StepOnce ==
    ASSUME NEW d \in Volumed, NEW ledger, IsLedger(ledger), DOMAIN ledger # {},
           NEW idle, ~ StepFails(d, ledger, idle)
    PROVE  LET last == ledger[Max(DOMAIN ledger)].comp
               part == Max({last.step - 1, 0}) * last.price
               cost == Base[d] * SessionCost(d, ledger, idle).before
           IN  /\ 2 * (Raw(ledger) + Min({part, 0})) - Base[d] <= 2 * cost
               /\ 2 * cost <= 2 * (Raw(ledger) + Max({part, 0})) + Base[d]
<1> DEFINE last == ledger[Max(DOMAIN ledger)].comp
           most == Max({last.step - 1, 0})
           part == most * last.price
           low == Min({part, 0})
           high == Max({part, 0})
           added == Added(d, ledger, idle)
           raw == Raw(ledger)
           all == Raw(WithStep(d, ledger, idle))
           before == SessionCost(d, ledger, idle).before
           base == Base[d]
<1>1. base \in Nat \ {0}  BY BaseAssumption
<1>2. last.step \in Int /\ last.price \in Int /\ LastStep(ledger) = last.step
  <2>1. Max(DOMAIN ledger) \in DOMAIN ledger  BY LastEntry
  <2>2. last \in PriceComponents  BY <2>1 DEF IsLedger, LedgerEntries
  <2> QED BY <2>2 DEF PriceComponents, LastStep
<1>3. raw \in Int  BY RawTyped
<1>4. before = RoundBank(all, base) /\ all = raw + added * last.price
  BY SessionCostFacts
<1>5. added \in Nat /\ (added # 0 => added <= last.step - 1)
  BY <1>2, AddedFacts
<1> DEFINE s == last.step - 1
           p == last.price
<1>6. s \in Int /\ p \in Int /\ most = Max({s, 0}) /\ part = most * p  BY <1>2
<1>7. added <= s \/ added = 0  BY <1>5
<1> HIDE DEF s, p, last, raw, all, before, base, added, most
<1>8. most \in Nat /\ added <= most  BY <1>5, <1>6, <1>7, ExtremesOfTwo
<1> DEFINE more == added * p
<1>9. more \in Int /\ part \in Int /\ low <= more /\ more <= high
  BY <1>5, <1>6, <1>8, ShareOf
<1>10. all = raw + more  BY <1>4 DEF p
<1> HIDE DEF more
<1>11. /\ all \in Int /\ base * before \in Int
       /\ 2 * (base * before - all) <= base /\ 2 * (all - base * before) <= base
  <2>1. all \in Int  BY <1>3, <1>9, <1>10
  <2>2. before \in Int  BY <1>1, <1>4, <2>1, RoundBankIsNearest
  <2> DEFINE r == RoundBank(all, base)
  <2>3. 2 * (base * r - all) <= base /\ 2 * (all - base * r) <= base
    BY <1>1, <2>1, RoundBankIsNearest
  <2>4. r = before  BY <1>4
  <2> HIDE DEF r
  <2>5. base * before \in Int  BY <1>1, <2>2
  <2> QED BY <2>1, <2>3, <2>4, <2>5
<1>12. low \in Int /\ high \in Int  BY <1>9, ExtremesOfTwo
<1> DEFINE cost == base * before
<1>13. cost \in Int /\ 2 * (cost - all) <= base /\ 2 * (all - cost) <= base  BY <1>11
<1> HIDE DEF cost, low, high
<1>14. /\ 2 * (raw + low) - base <= 2 * cost
       /\ 2 * cost <= 2 * (raw + high) + base
  BY <1>1, <1>3, <1>9, <1>10, <1>12, <1>13
<1> QED BY <1>14 DEF low, high, cost, part, most, last, raw, before, base

\* A step is applied once to the session and not once per period or tariff.
\* (priceSessionDimension)
THEOREM StepsRoundOnce == Spec => []StepRoundsOnce
<1>1. ASSUME NEW in \in Inputs, NEW o \in EngineOptions, Calculate(in, o).error = "none",
             o.precision = {}, NEW d \in Volumed,
             NEW f, f.ps = PeriodsOf(in), f.act = ActiveOf(in, o), PricedIn(f, d) # {}
      PROVE  LET raw  == SumFunction([i \in PricedIn(f, d) |->
                             Volume(f.ps[i], d) * CompOf(f, d, i).price])
                 last == CompOf(f, d, Max(PricedIn(f, d)))
                 part == Max({last.step - 1, 0}) * last.price
                 cost == Base[d] * Calculate(in, o).cost[d].before
             IN  /\ 2 * (raw + Min({part, 0})) - Base[d] <= 2 * cost
                 /\ 2 * cost <= 2 * (raw + Max({part, 0})) + Base[d]
  <2> DEFINE ledger == LedgerOf(in, o, d)
             idle == IdleOf(in, o)
             S == PricedIn(f, d)
  <2>1. /\ IsLedger(ledger) /\ ~ StepFails(d, ledger, idle)
        /\ Calculate(in, o).cost[d] = SessionCost(d, ledger, idle)
    BY <1>1, PricedPoint DEF Dims
  <2>2. DOMAIN ledger = S  BY <1>1 DEF LedgerOf, Ledger, PricedIn
  <2>3. \A i \in S : ledger[i].volume = Volume(f.ps[i], d) /\ ledger[i].comp = CompOf(f, d, i)
    BY <1>1, Zenon DEF LedgerOf, Ledger, PricedIn, CompOf
  <2> HIDE DEF ledger, idle, S
  <2>4. [i \in S |-> Volume(f.ps[i], d) * CompOf(f, d, i).price]
          = [i \in DOMAIN ledger |-> ledger[i].volume * ledger[i].comp.price]
    BY <2>2, <2>3
  <2>5. SumFunction([i \in S |-> Volume(f.ps[i], d) * CompOf(f, d, i).price]) = Raw(ledger)
    BY <2>4, Zenon DEF Raw
  <2>6. Max(S) \in S /\ ledger[Max(S)].comp = CompOf(f, d, Max(S))
    BY <2>1, <2>2, <2>3, <1>1, LastEntry DEF S
  <2>7. DOMAIN ledger # {}  BY <2>2, <1>1 DEF S
  <2>8. LET last == CompOf(f, d, Max(S))
            part == Max({last.step - 1, 0}) * last.price
            cost == Base[d] * Calculate(in, o).cost[d].before
        IN  /\ 2 * (Raw(ledger) + Min({part, 0})) - Base[d] <= 2 * cost
            /\ 2 * cost <= 2 * (Raw(ledger) + Max({part, 0})) + Base[d]
    BY <2>1, <2>2, <2>6, <2>7, StepOnce
  <2> QED BY <2>5, <2>8, Zenon DEF S
<1>2. IInv => StepRoundsOnce
  <2> SUFFICES ASSUME IInv, Priced, opts.precision = {} PROVE StepRoundsOnce
    BY DEF StepRoundsOnce
  <2>1. Started /\ rep.error = "none"  BY DEF Priced
  <2>2. now \in Inputs /\ opts \in EngineOptions /\ rep = Calculate(now, opts)
    BY <2>1, LatestPoint
  <2> DEFINE f == Found(now)
  <2>3. f.ps = PeriodsOf(now) /\ f.act = ActiveOf(now, opts)  BY FoundIsOf
  <2> HIDE DEF f
  <2>4. ASSUME NEW d \in Volumed, PricedIn(f, d) # {}
        PROVE  LET raw  == SumFunction([i \in PricedIn(f, d) |->
                               Volume(f.ps[i], d) * CompOf(f, d, i).price])
                   last == CompOf(f, d, Max(PricedIn(f, d)))
                   part == Max({last.step - 1, 0}) * last.price
                   cost == Base[d] * rep.cost[d].before
               IN  /\ 2 * (raw + Min({part, 0})) - Base[d] <= 2 * cost
                   /\ 2 * cost <= 2 * (raw + Max({part, 0})) + Base[d]
    <3>1. Calculate(now, opts).error = "none"  BY <2>1, <2>2
    <3> QED BY <1>1, <2>2, <2>3, <2>4, <3>1
  <2> QED BY <2>4, Zenon DEF StepRoundsOnce, f
<1> QED BY <1>2, Invariance, PTL

\* min_price and max_price bound the total of a session that uses one tariff,
\* and no other.  (Calculate; singleUsedTariffIndex)
THEOREM BoundsHold == Spec => []BoundsOfTheOneTariff
<1>1. ASSUME NEW in \in Inputs, NEW o \in EngineOptions, Calculate(in, o).error = "none",
             o.precision = {}, in.periods = PeriodsOf(in)
      PROVE  LET r == Calculate(in, o)
                 used == UsedTariffs(in.periods)
                 sum  == SumFunction([d \in Dims |-> r.cost[d].before])
                 low(t)  == {m.before : m \in in.tariffs[t].minPrice}
                 high(t) == {m.before : m \in in.tariffs[t].maxPrice}
             IN  \/ Cardinality(used) # 1 /\ r.total.before = sum
                 \/ \E t \in used :
                       /\ used = {t}
                       /\ (\A x \in low(t), y \in high(t) : x <= y) =>
                             /\ \A x \in low(t) : r.total.before >= x
                             /\ \A y \in high(t) : r.total.before <= y
                       /\ \/ r.total.before \in low(t) \cup high(t)
                          \/ r.total.before = sum
  <2> DEFINE r == Calculate(in, o)
             used == UsedTariffs(in.periods)
             sum  == SumFunction([d \in Dims |-> r.cost[d].before])
             low(t)  == {m.before : m \in in.tariffs[t].minPrice}
             high(t) == {m.before : m \in in.tariffs[t].maxPrice}
             cost == CostOf(in, o)
             all == Unclamped(cost)
             total == TotalCost(in, used, cost)
             below(t) == {m \in in.tariffs[t].minPrice : all.before < m.before}
             above(t) == {m \in in.tariffs[t].maxPrice : all.before > m.before}
  <2>1. /\ used \subseteq DOMAIN in.tariffs /\ cost \in [Dims -> Moneys]
        /\ r.total = total /\ \A d \in Dims : r.cost[d] = cost[d]
    BY <1>1, PricedPoint DEF UsedBy, TotalOf
  <2>2. [d \in Dims |-> r.cost[d].before] = [d \in Dims |-> cost[d].before]  BY <2>1
  <2>3. all.before = sum /\ all \in Moneys  BY <2>1, <2>2, UnclampedTyped
  <2>4. \/ total = all /\ Cardinality(used) # 1
        \/ \E t \in used :
             /\ used = {t}
             /\ \/ below(t) # {} /\ total \in below(t)
                \/ below(t) = {} /\ above(t) # {} /\ total \in above(t)
                \/ below(t) = {} /\ above(t) = {} /\ total = all
    BY <2>1, TotalCostFacts
  <2>6. ASSUME NEW t \in used, used = {t},
               \/ below(t) # {} /\ total \in below(t)
               \/ below(t) = {} /\ above(t) # {} /\ total \in above(t)
               \/ below(t) = {} /\ above(t) = {} /\ total = all
        PROVE  /\ (\A x \in low(t), y \in high(t) : x <= y) =>
                     /\ \A x \in low(t) : r.total.before >= x
                     /\ \A y \in high(t) : r.total.before <= y
               /\ \/ r.total.before \in low(t) \cup high(t)
                  \/ r.total.before = sum
    <3> DEFINE mins == in.tariffs[t].minPrice
               maxs == in.tariffs[t].maxPrice
    <3>1. /\ mins \subseteq Moneys /\ \A x, y \in mins : x = y
          /\ maxs \subseteq Moneys /\ \A x, y \in maxs : x = y
      <4>1. in.tariffs \in Seq(Tariffs) /\ t \in DOMAIN in.tariffs  BY <2>1 DEF Inputs
      <4>2. in.tariffs[t] \in Tariffs  BY <4>1
      <4> QED BY <4>2 DEF Tariffs, Opt
    <3>2. \A m \in mins \cup maxs : m.before \in Int  BY <3>1 DEF Moneys
    <3>3. all.before \in Int  BY <2>3 DEF Moneys
    <3>4. /\ below(t) = {m \in mins : all.before < m.before}
          /\ above(t) = {m \in maxs : all.before > m.before}
          /\ low(t) = {m.before : m \in mins} /\ high(t) = {m.before : m \in maxs}
      OBVIOUS
    <3> HIDE DEF mins, maxs, below, above, low, high, all, total, sum, r
    <3>5. CASE below(t) # {} /\ total \in below(t)
      <4>1. total \in mins /\ total.before \in low(t)  BY <3>4, <3>5
      <4>2. \A x \in low(t) : x = total.before  BY <3>1, <3>4, <4>1
      <4> QED BY <2>1, <3>2, <4>1, <4>2
    <3>6. CASE below(t) = {} /\ above(t) # {} /\ total \in above(t)
      <4>1. total \in maxs /\ total.before \in high(t)  BY <3>4, <3>6
      <4>2. \A y \in high(t) : y = total.before  BY <3>1, <3>4, <4>1
      <4>3. \A x \in low(t) : x \in Int  BY <3>2, <3>4
      <4> QED BY <2>1, <3>2, <4>1, <4>2, <4>3
    <3>7. CASE below(t) = {} /\ above(t) = {} /\ total = all
      <4>1. \A x \in low(t) : x \in Int /\ all.before >= x  BY <3>2, <3>3, <3>4, <3>7
      <4>2. \A y \in high(t) : y \in Int /\ all.before <= y  BY <3>2, <3>3, <3>4, <3>7
      <4> QED BY <2>1, <2>3, <3>7, <4>1, <4>2
    <3> QED BY <2>6, <3>5, <3>6, <3>7
  <2> HIDE DEF low, high, below, above, r, used, sum, total, all
  <2>7. \/ Cardinality(used) # 1 /\ r.total.before = sum
        \/ \E t \in used :
              /\ used = {t}
              /\ (\A x \in low(t), y \in high(t) : x <= y) =>
                    /\ \A x \in low(t) : r.total.before >= x
                    /\ \A y \in high(t) : r.total.before <= y
              /\ \/ r.total.before \in low(t) \cup high(t)
                 \/ r.total.before = sum
    <3>1. CASE total = all /\ Cardinality(used) # 1  BY <2>1, <2>3, <3>1
    <3>2. CASE ~ (total = all /\ Cardinality(used) # 1)
      <4>1. PICK t \in used :
             /\ used = {t}
             /\ \/ below(t) # {} /\ total \in below(t)
                \/ below(t) = {} /\ above(t) # {} /\ total \in above(t)
                \/ below(t) = {} /\ above(t) = {} /\ total = all
        BY <2>4, <3>2
      <4>2. /\ (\A x \in low(t), y \in high(t) : x <= y) =>
                  /\ \A x \in low(t) : r.total.before >= x
                  /\ \A y \in high(t) : r.total.before <= y
            /\ \/ r.total.before \in low(t) \cup high(t)
               \/ r.total.before = sum
        BY <2>6, <4>1
      <4> QED BY <4>1, <4>2, Zenon
    <3> QED BY <3>1, <3>2
  <2> QED BY <2>7 DEF low, high, r, used, sum
<1>2. IInv => BoundsOfTheOneTariff
  <2> SUFFICES ASSUME IInv, Priced, opts.precision = {} PROVE BoundsOfTheOneTariff
    BY DEF BoundsOfTheOneTariff
  <2>1. Started /\ rep.error = "none"  BY DEF Priced
  <2>2. /\ now \in Inputs /\ opts \in EngineOptions /\ rep = Calculate(now, opts)
        /\ cdr \in Inputs /\ now = Truncate(cdr, series[Len(series)].tick)
        /\ series[Len(series)].tick \in Int
    BY <2>1, LatestPoint
  <2>3. now.periods = PeriodsOf(now)  BY <2>2, TruncateFacts
  <2>4. LET used == UsedTariffs(now.periods)
            sum  == SumFunction([d \in Dims |-> rep.cost[d].before])
            low(t)  == {m.before : m \in now.tariffs[t].minPrice}
            high(t) == {m.before : m \in now.tariffs[t].maxPrice}
        IN  \/ Cardinality(used) # 1 /\ rep.total.before = sum
            \/ \E t \in used :
                  /\ used = {t}
                  /\ (\A x \in low(t), y \in high(t) : x <= y) =>
                        /\ \A x \in low(t) : rep.total.before >= x
                        /\ \A y \in high(t) : rep.total.before <= y
                  /\ \/ rep.total.before \in low(t) \cup high(t)
                     \/ rep.total.before = sum
    <3>1. Calculate(now, opts).error = "none"  BY <2>1, <2>2
    <3> DEFINE P(r, in) ==
            LET used == UsedTariffs(in.periods)
                sum  == SumFunction([d \in Dims |-> r.cost[d].before])
                low(t)  == {m.before : m \in in.tariffs[t].minPrice}
                high(t) == {m.before : m \in in.tariffs[t].maxPrice}
            IN  \/ Cardinality(used) # 1 /\ r.total.before = sum
                \/ \E t \in used :
                      /\ used = {t}
                      /\ (\A x \in low(t), y \in high(t) : x <= y) =>
                            /\ \A x \in low(t) : r.total.before >= x
                            /\ \A y \in high(t) : r.total.before <= y
                      /\ \/ r.total.before \in low(t) \cup high(t)
                         \/ r.total.before = sum
    <3>2. ASSUME NEW in \in Inputs, NEW o \in EngineOptions, Calculate(in, o).error = "none",
                 o.precision = {}, in.periods = PeriodsOf(in)
          PROVE  P(Calculate(in, o), in)
      BY <1>1, <3>2, Zenon
    <3> HIDE DEF P
    <3>3. P(Calculate(now, opts), now)  BY <2>2, <2>3, <3>1, <3>2
    <3>4. P(rep, now)  BY <2>2, <3>3
    <3> QED BY <3>4, Zenon DEF P
  <2> QED BY <2>4, Zenon DEF BoundsOfTheOneTariff
<1> QED BY <1>2, Invariance, PTL

-----------------------------------------------------------------------------
(* What is verified.                                                        *)

\* An amount agrees with itself; one that is further off than allowed is found.
LEMMA OwnMoneyMatches ==
    ASSUME NEW m \in Moneys, NEW tolerance \in Nat, NEW field
    PROVE  /\ MoneyMismatches(field, m, {m}, tolerance) = {}
           /\ ~ AfterTaxNotDerivable(m, {m})
<1>1. m.before \in Int /\ \A x, y \in AfterTax(m) : x = y /\ x \in Int
  <2>1. AfterTax(m) \in Opt(Int)  BY AfterTaxIsOpt
  <2> QED BY <2>1 DEF Opt, Moneys
<1>2. \A x \in Int : Apart(x, x) = 0  BY DEF Apart
<1>3. MoneyMismatches(field, m, {m}, tolerance) = {}
  <2>1. ~ (Apart(m.before, m.before) > tolerance)  BY <1>1, <1>2
  <2>2. \A x \in AfterTax(m), y \in AfterTax(m) : ~ (Apart(x, y) > 100 * tolerance)
    BY <1>1, <1>2
  <2> QED BY <2>1, <2>2 DEF MoneyMismatches
<1>4. ~ AfterTaxNotDerivable(m, {m})  BY DEF AfterTaxNotDerivable
<1> QED BY <1>3, <1>4

\* compareMoney finds an amount that is off by more than the tolerance.
LEMMA OffMoneyIsFound ==
    ASSUME NEW m \in Moneys, NEW tolerance \in Nat, NEW field, NEW e,
           \/ e.before = m.before + (1 + tolerance)
           \/ e.before = m.before + (-1 - tolerance)
    PROVE  MoneyMismatches(field, m, {e}, tolerance) # {}
<1>1. m.before \in Int  BY DEF Moneys
<1>2. Apart(m.before, e.before) > tolerance  BY <1>1 DEF Apart
<1>3. e \in {x \in {e} : Apart(m.before, x.before) > tolerance}  BY <1>2
<1>4. <<field, "before_taxes">> \in MoneyMismatches(field, m, {e}, tolerance)
  BY <1>3, Zenon DEF MoneyMismatches
<1> QED BY <1>4

\* A CDR that states the dimensions as they were computed and metered.
StatesDimensions(c, r) ==
    /\ \A d \in Dims : c.embedded.cost[d] = {r.cost[d]}
    /\ c.embedded.reservation = {}
    /\ \A d \in {"ENERGY", "TIME"} : c.embedded.volume[d] = {AuditedVolume(c, d)}

\* The verdict on such a CDR is the one on its total.  (Verify)
LEMMA VerdictOnTotal ==
    ASSUME NEW c, c.periods \in Seq(Periods), NEW r, NEW o \in EngineOptions,
           r.cost \in [Dims -> Moneys], r.total \in Moneys, StatesDimensions(c, r)
    PROVE  /\ MinMaxUndefined(r) /\ c.embedded.total # {} => Status(c, r, o) = "NotVerifiable"
           /\ ~ MinMaxUndefined(r) /\ c.embedded.total = {r.total} => Status(c, r, o) = "OK"
<1>1. o.tolerance \in Nat  BY DEF EngineOptions
<1>2. \A d \in Dims : /\ MoneyMismatches(d, r.cost[d], c.embedded.cost[d], o.tolerance) = {}
                      /\ ~ AfterTaxNotDerivable(r.cost[d], c.embedded.cost[d])
  <2> SUFFICES ASSUME NEW d \in Dims
               PROVE  /\ MoneyMismatches(d, r.cost[d], c.embedded.cost[d], o.tolerance) = {}
                      /\ ~ AfterTaxNotDerivable(r.cost[d], c.embedded.cost[d])
    OBVIOUS
  <2> DEFINE m == r.cost[d]
  <2>1. m \in Moneys /\ c.embedded.cost[d] = {m}  BY DEF StatesDimensions
  <2> HIDE DEF m
  <2>2. MoneyMismatches(d, m, {m}, o.tolerance) = {} /\ ~ AfterTaxNotDerivable(m, {m})
    BY <1>1, <2>1, OwnMoneyMatches
  <2> QED BY <2>1, <2>2 DEF m
<1>3. VolumeMismatches(c, o.tolerance) = {}
  <2>1. ASSUME NEW x \in {"ENERGY", "TIME"}
        PROVE  ~ \E v \in c.embedded.volume[x] :
                    10000 * Apart(AuditedVolume(c, x), v) > o.tolerance * Base[x]
    <3>1. c.embedded.volume[x] = {AuditedVolume(c, x)}  BY DEF StatesDimensions
    <3>2. Apart(AuditedVolume(c, x), AuditedVolume(c, x)) = 0
      <4>1. x \in Volumed  BY DEF Volumed
      <4>2. /\ IsFiniteSet(DOMAIN c.periods)
            /\ \A i \in DOMAIN c.periods : Volume(c.periods[i], x) \in Int
        BY <4>1, PlacesAreFinite, VolumeTyped
      <4> DEFINE f == [i \in DOMAIN c.periods |-> Volume(c.periods[i], x)]
      <4>3. \A i \in DOMAIN c.periods : f[i] \in Int  BY <4>2
      <4>4. DOMAIN f = DOMAIN c.periods  OBVIOUS
      <4> HIDE DEF f
      <4>5. SumFunctionOnSet(f, DOMAIN c.periods) \in Int  BY <4>2, <4>3, SumIsInt
      <4>6. AuditedVolume(c, x) = SumFunctionOnSet(f, DOMAIN c.periods)
        BY <4>4, Zenon DEF AuditedVolume, SumFunction, f
      <4> QED BY <4>5, <4>6 DEF Apart
    <3>3. Base[x] \in Nat  BY BaseAssumption DEF Volumed
    <3> DEFINE z == o.tolerance * Base[x]
    <3>4. z \in Int /\ z >= 0  BY <1>1, <3>3
    <3> HIDE DEF z
    <3>5. ~ (10000 * Apart(AuditedVolume(c, x), AuditedVolume(c, x)) > z)  BY <3>2, <3>4
    <3> QED BY <3>1, <3>5 DEF z
  <2> QED BY <2>1 DEF VolumeMismatches
<1>4. \A m \in c.embedded.reservation : m.before = 0  BY DEF StatesDimensions
<1>5. /\ MoneyMismatches("total_cost", r.total, {r.total}, o.tolerance) = {}
      /\ ~ AfterTaxNotDerivable(r.total, {r.total})
  BY <1>1, OwnMoneyMatches
<1>6. UNION {MoneyMismatches(d, r.cost[d], c.embedded.cost[d], o.tolerance) : d \in Dims} = {}
  BY <1>2
<1>7. CASE MinMaxUndefined(r)
  <2>1. Mismatches(c, r, o) = {}  BY <1>3, <1>6, <1>7 DEF Mismatches
  <2>2. c.embedded.total # {} => NotVerifiable(c, r)  BY <1>7 DEF NotVerifiable
  <2> QED BY <1>7, <2>1, <2>2 DEF Status
<1>8. CASE ~ MinMaxUndefined(r)
  <2> SUFFICES ASSUME c.embedded.total = {r.total} PROVE Status(c, r, o) = "OK"
    BY <1>8
  <2>1. Mismatches(c, r, o) = {}  BY <1>3, <1>5, <1>6, <1>8 DEF Mismatches
  <2>2. ~ NotVerifiable(c, r)  BY <1>2, <1>4, <1>5, <1>8 DEF NotVerifiable
  <2> QED BY <2>1, <2>2 DEF Status
<1> QED BY <1>7, <1>8

\* An amount that is off is found.  (compareMoney)
LEMMA VerdictOnFalseMoney ==
    ASSUME NEW c, NEW r, NEW o
    PROVE  /\ \A d \in Dims :
                MoneyMismatches(d, r.cost[d], c.embedded.cost[d], o.tolerance) # {} =>
                    Status(c, r, o) = "Mismatch"
           /\ ~ MinMaxUndefined(r)
              /\ MoneyMismatches("total_cost", r.total, c.embedded.total, o.tolerance) # {}
                => Status(c, r, o) = "Mismatch"
<1>1. ASSUME NEW d \in Dims,
             MoneyMismatches(d, r.cost[d], c.embedded.cost[d], o.tolerance) # {}
      PROVE  Status(c, r, o) = "Mismatch"
  <2>1. MoneyMismatches(d, r.cost[d], c.embedded.cost[d], o.tolerance)
           \subseteq UNION {MoneyMismatches(x, r.cost[x], c.embedded.cost[x], o.tolerance) : x \in Dims}
    OBVIOUS
  <2>2. Mismatches(c, r, o) # {}  BY <1>1, <2>1 DEF Mismatches
  <2> QED BY <2>2 DEF Status
<1>2. ASSUME ~ MinMaxUndefined(r),
             MoneyMismatches("total_cost", r.total, c.embedded.total, o.tolerance) # {}
      PROVE  Status(c, r, o) = "Mismatch"
  <2>1. Mismatches(c, r, o) # {}  BY <1>2 DEF Mismatches
  <2> QED BY <2>1 DEF Status
<1> QED BY <1>1, <1>2

\* Verification accuses exactly those who deserve it, of any session.  (Verify)
THEOREM JustVerdicts == Spec => []VerdictsAreJust
<1>1. ASSUME IInv, Priced
      PROVE  HonestCdrIsNotAccused /\ FalseCostIsFound
  <2>1. Started /\ rep.error = "none"  BY <1>1 DEF Priced
  <2>2. now \in Inputs /\ opts \in EngineOptions /\ rep = Calculate(now, opts)
    BY <1>1, <2>1, LatestPoint
  <2>3. rep.cost \in [Dims -> Moneys] /\ rep.total \in Moneys  BY <2>2, ReportsAreTyped
  <2>4. opts.tolerance \in Nat  BY <2>2 DEF EngineOptions
  <2> DEFINE c == Honest
             off == {-1 - opts.tolerance, 1 + opts.tolerance}
             other(d, x) == [c EXCEPT !.embedded.cost[d] = {[rep.cost[d] EXCEPT !.before = @ + x]}]
             totalled(m) == [c EXCEPT !.embedded.total = {m}]
  <2>5. /\ c.periods = now.periods
        /\ c.embedded = [total |-> {rep.total}, cost |-> [d \in Dims |-> {rep.cost[d]}],
                         reservation |-> {},
                         volume |-> [d \in {"ENERGY", "TIME"} |-> {AuditedVolume(now, d)}]]
    <3>1. c = [now EXCEPT !.embedded =
                [total |-> {rep.total}, cost |-> [d \in Dims |-> {rep.cost[d]}],
                 reservation |-> {},
                 volume |-> [d \in {"ENERGY", "TIME"} |-> {AuditedVolume(now, d)}]]]
      BY Zenon DEF Honest, AuditedVolume
    <3> HIDE DEF c
    <3> QED BY <3>1, <2>2 DEF Inputs
  <2>6. c.periods \in Seq(Periods)  BY <2>2, <2>5 DEF Inputs
  <2>7. \A d : AuditedVolume(c, d) = AuditedVolume(now, d)  BY <2>5 DEF AuditedVolume
  <2>8. c = [c EXCEPT !.embedded = c.embedded] /\ "embedded" \in DOMAIN c
        /\ "periods" \in DOMAIN c
    BY <2>2 DEF Inputs, Honest
  <2> HIDE DEF c
  <2>9. StatesDimensions(c, rep) /\ c.embedded.total = {rep.total}
    BY <2>5, <2>7 DEF StatesDimensions
  <2>10. ASSUME NEW m
         PROVE  /\ totalled(m).periods = c.periods /\ totalled(m).embedded.total = {m}
                /\ StatesDimensions(totalled(m), rep)
    <3> DEFINE t == totalled(m)
    <3>1. /\ t.periods = c.periods
          /\ t.embedded = [c.embedded EXCEPT !.total = {m}]
      BY <2>8
    <3> HIDE DEF t
    <3>2. \A d : AuditedVolume(t, d) = AuditedVolume(c, d)  BY <3>1 DEF AuditedVolume
    <3>3. /\ t.embedded.total = {m} /\ t.embedded.cost = c.embedded.cost
          /\ t.embedded.reservation = c.embedded.reservation
          /\ t.embedded.volume = c.embedded.volume
      BY <2>5, <3>1
    <3>4. StatesDimensions(t, rep)  BY <2>9, <3>2, <3>3 DEF StatesDimensions
    <3> QED BY <3>1, <3>3, <3>4 DEF t
  <2> HIDE DEF totalled
  <2>11. HonestCdrIsNotAccused
    <3>1. CASE MinMaxUndefined(rep)
      <4>1. \A m : Status(totalled(m), rep, opts) = "NotVerifiable"
        <5> SUFFICES ASSUME NEW m PROVE Status(totalled(m), rep, opts) = "NotVerifiable"
          OBVIOUS
        <5>1. totalled(m).embedded.total # {}  BY <2>10
        <5>2. totalled(m).periods \in Seq(Periods)  BY <2>6, <2>10
        <5> QED BY <5>1, <5>2, <2>2, <2>3, <2>10, <3>1, VerdictOnTotal
      <4> QED BY <4>1, <3>1, Zenon DEF HonestCdrIsNotAccused, totalled, c
    <3>2. CASE ~ MinMaxUndefined(rep)
      <4>1. Status(c, rep, opts) = "OK"  BY <2>2, <2>3, <2>6, <2>9, <3>2, VerdictOnTotal
      <4> QED BY <4>1, <3>2 DEF HonestCdrIsNotAccused, c
    <3> QED BY <3>1, <3>2
  <2>12. ASSUME NEW x \in off, NEW d \in Dims
         PROVE  Status(other(d, x), rep, opts) = "Mismatch"
    <3> DEFINE m == rep.cost[d]
               e == [m EXCEPT !.before = @ + x]
               o == other(d, x)
    <3>1. m \in Moneys  BY <2>3
    <3>2. MoneyMismatches(d, m, {e}, opts.tolerance) # {}
      <4>1. e.before = m.before + x  BY <3>1 DEF Moneys
      <4> HIDE DEF e, m
      <4>2. \/ e.before = m.before + (1 + opts.tolerance)
            \/ e.before = m.before + (-1 - opts.tolerance)
        BY <4>1
      <4>3. m \in Moneys  BY <3>1
      <4> QED BY <2>4, <4>2, <4>3, OffMoneyIsFound, Zenon
    <3> HIDE DEF e
    <3>3. o.embedded.cost = [c.embedded.cost EXCEPT ![d] = {e}]
      <4>1. o.embedded = [c.embedded EXCEPT !.cost[d] = {e}]  BY <2>8 DEF e
      <4> HIDE DEF o
      <4> QED BY <4>1, <2>5
    <3> HIDE DEF o
    <3>4. o.embedded.cost[d] = {e}  BY <3>3, <2>5
    <3>5. Status(o, rep, opts) = "Mismatch"  BY <3>2, <3>4, VerdictOnFalseMoney
    <3> QED BY <3>5 DEF o
  <2>13. ASSUME NEW x \in off, ~ MinMaxUndefined(rep)
         PROVE  Status(totalled([rep.total EXCEPT !.before = @ + x]), rep, opts) = "Mismatch"
    <3> DEFINE m == rep.total
               e == [m EXCEPT !.before = @ + x]
    <3>1. MoneyMismatches("total_cost", m, {e}, opts.tolerance) # {}
      <4>1. e.before = m.before + x /\ m \in Moneys  BY <2>3 DEF Moneys
      <4> HIDE DEF e, m
      <4>2. \/ e.before = m.before + (1 + opts.tolerance)
            \/ e.before = m.before + (-1 - opts.tolerance)
        BY <4>1
      <4>3. m \in Moneys  BY <4>1
      <4> QED BY <2>4, <4>2, <4>3, OffMoneyIsFound, Zenon
    <3> HIDE DEF e
    <3>2. totalled(e).embedded.total = {e}  BY <2>10
    <3>3. Status(totalled(e), rep, opts) = "Mismatch"  BY <2>13, <3>1, <3>2, VerdictOnFalseMoney
    <3> QED BY <3>3 DEF e
  <2>14. FalseCostIsFound
    <3>1. \A x \in off :
             /\ \A d \in Dims : Status(other(d, x), rep, opts) = "Mismatch"
             /\ ~ MinMaxUndefined(rep) =>
                    Status(totalled([rep.total EXCEPT !.before = @ + x]), rep, opts) = "Mismatch"
      BY <2>12, <2>13
    <3>2. ASSUME NEW x
          PROVE  /\ [rep.total EXCEPT !.before = @ + x] = [rep.total EXCEPT !.before = @ + x]
                 /\ totalled([rep.total EXCEPT !.before = @ + x])
                      = [c EXCEPT !.embedded.total = {[rep.total EXCEPT !.before = @ + x]}]
      BY DEF totalled
    <3> QED BY <3>1, <3>2, Zenon DEF FalseCostIsFound, c
  <2> QED BY <2>11, <2>14
<1>2. IInv => VerdictsAreJust  BY <1>1 DEF VerdictsAreJust
<1> QED BY <1>2, Invariance, PTL

-----------------------------------------------------------------------------
(* A period reported as two.                                                *)

\* Where period j is, or its second half, once period i is in two.
Shift(i, j) == IF j < i THEN j ELSE j + 1
Shifted(i, S) == {Shift(i, j) : j \in S} \cup (IF i \in S THEN {i} ELSE {})

\* A sum one of whose terms is split in two is the same.
LEMMA SumOfSplit ==
    ASSUME NEW f, NEW g, NEW S \in SUBSET Int, IsFiniteSet(S), NEW i \in Int,
           \A j \in S : f[j] \in Int,
           \A j \in S \ {i} : g[Shift(i, j)] = f[j],
           i \in S => g[i] \in Int /\ g[i + 1] \in Int /\ g[i] + g[i + 1] = f[i]
    PROVE  /\ IsFiniteSet(Shifted(i, S))
           /\ SumFunctionOnSet(g, Shifted(i, S)) = SumFunctionOnSet(f, S)
<1> DEFINE U == {Shift(i, j) : j \in S}
           T == Shifted(i, S)
           b == [j \in S |-> Shift(i, j)]
           h == [u \in U |-> IF u = i + 1 /\ i \in S THEN f[i] ELSE g[u]]
<1>1. \A j, k \in S : Shift(i, j) \in Int /\ (Shift(i, j) = Shift(i, k) => j = k)
  BY DEF Shift
<1>2. \A j \in S : Shift(i, j) # i /\ (Shift(i, j) = i + 1 => j = i)
  BY DEF Shift
<1>3. b \in Bijection(S, U)
  <2>1. b \in [S -> U] /\ \A u \in U : \E j \in S : b[j] = u  OBVIOUS
  <2>2. \A j, k \in S : b[j] = b[k] => j = k  BY <1>1
  <2> HIDE DEF b, U
  <2> QED BY <2>1, <2>2 DEF Bijection, Injection, Surjection, IsInjective
<1>4. IsFiniteSet(U)
  <2> HIDE DEF b, U
  <2> QED BY <1>3, FS_Surjection DEF Bijection
<1>5. U \subseteq Int /\ i \notin U /\ (i + 1 \in U => i \in S) /\ (i \in S => i + 1 \in U)
  <2>1. Shift(i, i) = i + 1  BY DEF Shift
  <2> QED BY <2>1, <1>1, <1>2
<1>6. \A j \in S : h[b[j]] = f[j]
  <2> SUFFICES ASSUME NEW j \in S PROVE h[b[j]] = f[j]  OBVIOUS
  <2>1. b[j] = Shift(i, j) /\ b[j] \in U  OBVIOUS
  <2>2. CASE j = i
    <3>1. b[j] = i + 1  BY <2>1, <2>2 DEF Shift
    <3> QED BY <2>1, <2>2, <3>1
  <2>3. CASE j # i
    <3>1. b[j] # i + 1  BY <2>1, <2>3, <1>2
    <3> QED BY <2>1, <2>3, <3>1
  <2> QED BY <2>2, <2>3
<1>7. \A u \in U : u # i + 1 => g[u] = h[u] /\ g[u] \in Int
  <2> SUFFICES ASSUME NEW j \in S, Shift(i, j) # i + 1
               PROVE  g[Shift(i, j)] = h[Shift(i, j)] /\ g[Shift(i, j)] \in Int
    OBVIOUS
  <2>1. j # i  BY DEF Shift
  <2>2. Shift(i, j) \in U  OBVIOUS
  <2>3. h[Shift(i, j)] = g[Shift(i, j)]  BY <2>2
  <2> HIDE DEF h, U
  <2> QED BY <2>1, <2>3
<1>8. i \in S => h[i + 1] = f[i]  BY <1>5
<1> HIDE DEF b, h, U
<1>9. SumFunctionOnSet(f, S) = SumFunctionOnSet(h, U)
  <2>1. \A j \in S : f[j] \in Int /\ h[b[j]] = f[j]  BY <1>6
  <2> DEFINE P == S
  <2>2. IsFiniteSet(P) /\ b \in Bijection(P, U) /\ \A j \in P : f[j] \in Int /\ h[b[j]] = f[j]
    BY <2>1, <1>3
  <2> HIDE DEF P
  <2>3. SumFunctionOnSet(f, P) = SumFunctionOnSet(h, U)  BY ONLY <2>2, SumIsRenamed
  <2> QED BY <2>3 DEF P
<1>10. CASE i \notin S
  <2>1. T = U  BY <1>10 DEF Shifted, U
  <2>2. \A u \in U : g[u] = h[u]  BY <1>5, <1>7, <1>10
  <2>3. SumFunctionOnSet(g, U) = SumFunctionOnSet(h, U)  BY <2>2, <1>4, SumOfEquals
  <2> QED BY <2>1, <2>3, <1>4, <1>9
<1>11. CASE i \in S
  <2>1. T = U \cup {i} /\ T \ {i} = U  BY <1>5, <1>11 DEF Shifted, U
  <2>2. IsFiniteSet(T)  BY <2>1, <1>4, FS_AddElement
  <2>3. \A u \in U : g[u] \in Int /\ h[u] \in Int  BY <1>7, <1>8, <1>11
  <2>4. \A u \in T : g[u] \in Int  BY <2>1, <2>3, <1>11
  <2> HIDE DEF T
  <2>5. SumFunctionOnSet(g, T) = g[i] + SumFunctionOnSet(g, U)
    <3> DEFINE y == i
    <3>1. y \in T /\ T \ {y} = U /\ g[y] = g[i]  BY <2>1
    <3> HIDE DEF y
    <3>2. SumFunctionOnSet(g, T) = g[y] + SumFunctionOnSet(g, T \ {y})
      BY ONLY <2>2, <2>4, <3>1, SumTakesAny
    <3> QED BY <3>1, <3>2
  <2>6. SumFunctionOnSet(g, U) - g[i + 1] = SumFunctionOnSet(h, U) - h[i + 1]
    <3>1. \A u \in U \ {i + 1} : g[u] = h[u]  BY <1>7
    <3>2. i + 1 \in U  BY <1>5, <1>11
    <3> QED BY <1>4, <2>3, <3>1, <3>2, SumWithOneChange
  <2>7. SumFunctionOnSet(g, U) \in Int /\ SumFunctionOnSet(h, U) \in Int
    BY <1>4, <2>3, SumIsInt
  <2>8. f[i] \in Int /\ g[i] \in Int /\ g[i + 1] \in Int /\ g[i] + g[i + 1] = f[i]
    BY <1>11
  <2>9. SumFunctionOnSet(g, T) = SumFunctionOnSet(h, U)
    BY <2>5, <2>6, <2>7, <2>8, <1>8, <1>11
  <2> QED BY <2>2, <2>9, <1>9 DEF T
<1> QED BY <1>10, <1>11

\* Period i of ps is the periods i and i + 1 of qs.
SplitAt(ps, qs, i) ==
    /\ ps \in Seq(Periods) /\ qs \in Seq(Periods) /\ i \in 1 .. Len(ps) /\ Len(qs) = Len(ps) + 1
    /\ \A j \in 1 .. Len(ps) : j # i => qs[Shift(i, j)] = ps[j]
    /\ qs[i].start = ps[i].start
    /\ \A k \in {i, i + 1} :
          /\ qs[k].tariff = ps[i].tariff /\ SameReadings(ps[i], qs[k])
          /\ \A d \in Volumed : qs[k].volume[d] = {} <=> ps[i].volume[d] = {}
    /\ \A d \in Volumed : Volume(qs[i], d) + Volume(qs[i + 1], d) = Volume(ps[i], d)

\* The snapshot is where the session stands, in numbers.
SnapshotTypes(zone) == [at : Int, zone : {zone}, energy : Int, durSession : Int]
\* The running snapshot, and the end of every period, is made of numbers.
LEMMA SnapshotsTyped ==
    ASSUME NEW start \in Int, NEW end \in Int, NEW ps \in Seq(Periods), NEW zone
    PROVE  /\ \A i \in 1 .. Len(ps) : EndOfPeriod(ps, i, end) \in Int
           /\ \A i \in 0 .. Len(ps) : Snapshots(start, end, ps, zone)[i] \in SnapshotTypes(zone)
<1> DEFINE s == Snapshots(start, end, ps, zone)
           B == {i \in Nat : i <= Len(ps) => s[i] \in SnapshotTypes(zone)}
<1>1. Len(ps) \in Nat /\ \A i \in 1 .. Len(ps) : ps[i] \in Periods  BY PlacesAreFinite
<1>2. \A p \in Periods : p.start \in Int /\ Volume(p, "ENERGY") \in Int
  BY VolumeTyped DEF Periods, Volumed
<1>3. \A i \in 1 .. Len(ps) : EndOfPeriod(ps, i, end) \in Int
  <2> SUFFICES ASSUME NEW i \in 1 .. Len(ps) PROVE EndOfPeriod(ps, i, end) \in Int  OBVIOUS
  <2>1. CASE i < Len(ps)
    <3>1. i + 1 \in 1 .. Len(ps)  BY <2>1, <1>1
    <3>2. ps[i + 1].start \in Int  BY <3>1, <1>1, <1>2
    <3> QED BY <2>1, <3>2 DEF EndOfPeriod
  <2>2. CASE ~ (i < Len(ps))  BY <2>2 DEF EndOfPeriod
  <2> QED BY <2>1, <2>2
<1>4. /\ s[0] = NewSnapshot(start, zone)
      /\ \A i \in 1 .. Len(ps) : s[i] = Advance(s[i - 1], ps[i], EndOfPeriod(ps, i, end))
  BY <1>1, SnapshotsUnfold
<1> HIDE DEF s
<1>5. 0 \in B  BY <1>4 DEF NewSnapshot, SnapshotTypes
<1>6. ASSUME NEW i \in Nat, i \in B
      PROVE  i + 1 \in B
  <2> SUFFICES ASSUME i + 1 <= Len(ps) PROVE s[i + 1] \in SnapshotTypes(zone)  OBVIOUS
  <2>1. s[i] \in SnapshotTypes(zone)  BY <1>1, <1>6
  <2>2. i + 1 \in 1 .. Len(ps) /\ i + 1 - 1 = i  BY <1>1
  <2>3. s[i + 1] = Advance(s[i], ps[i + 1], EndOfPeriod(ps, i + 1, end))  BY <2>2, <1>4
  <2>4. Volume(ps[i + 1], "ENERGY") \in Int /\ EndOfPeriod(ps, i + 1, end) \in Int
    BY <2>2, <1>1, <1>2, <1>3
  <2> DEFINE r == s[i]
             e == EndOfPeriod(ps, i + 1, end)
             v == Volume(ps[i + 1], "ENERGY")
  <2> HIDE DEF r, e, v
  <2>5. s[i + 1] = [r EXCEPT !.at = e, !.durSession = @ + (e - r.at), !.energy = @ + v]
    BY <2>3, Zenon DEF Advance, r, e, v
  <2>6. r \in SnapshotTypes(zone) /\ v \in Int /\ e \in Int  BY <2>1, <2>4 DEF r, e, v
  <2>7. r.durSession + (e - r.at) \in Int /\ r.energy + v \in Int
    BY <2>6 DEF SnapshotTypes
  <2> DEFINE x == r.durSession + (e - r.at)
             y == r.energy + v
  <2>8. s[i + 1] = [r EXCEPT !.at = e, !.durSession = x, !.energy = y]
    BY <2>5, <2>6 DEF SnapshotTypes
  <2>9. x \in Int /\ y \in Int  BY <2>7
  <2> HIDE DEF x, y
  <2> QED BY <2>6, <2>8, <2>9 DEF SnapshotTypes
<1> HIDE DEF B
<1>7. Nat \subseteq B  BY <1>5, <1>6, NatSetInduction
<1>8. \A i \in 0 .. Len(ps) : i \in Nat /\ i <= Len(ps)  BY <1>1
<1>9. \A i \in 0 .. Len(ps) : s[i] \in SnapshotTypes(zone)  BY <1>7, <1>8 DEF B
<1> QED BY <1>3, <1>9 DEF s

\* The snapshots of the periods around the split are the same.
LEMMA SplitSnapshots ==
    ASSUME NEW ps, NEW qs, NEW i, SplitAt(ps, qs, i),
           NEW start \in Int, NEW end \in Int, NEW zone, NEW j \in 0 .. Len(ps)
    PROVE  Snapshots(start, end, qs, zone)[Shift(i, j)] = Snapshots(start, end, ps, zone)[j]
<1> DEFINE n == Len(ps)
           s == Snapshots(start, end, ps, zone)
           t == Snapshots(start, end, qs, zone)
           B == {k \in Nat : i + k <= n => t[i + k + 1] = s[i + k]}
<1>1. /\ ps \in Seq(Periods) /\ qs \in Seq(Periods) /\ i \in 1 .. n /\ n \in Nat /\ Len(qs) = n + 1
      /\ \A k \in 1 .. n : k # i => qs[Shift(i, k)] = ps[k]
      /\ qs[i].start = ps[i].start
      /\ Volume(qs[i], "ENERGY") + Volume(qs[i + 1], "ENERGY") = Volume(ps[i], "ENERGY")
  BY PlacesAreFinite DEF SplitAt, Volumed
<1>2. \A k \in 1 .. i - 1 : qs[k] = ps[k]
  <2>1. \A k \in 1 .. i - 1 : k \in 1 .. n /\ k # i /\ Shift(i, k) = k  BY <1>1 DEF Shift
  <2> HIDE DEF n
  <2> QED BY <2>1, <1>1
<1>3. \A k \in i + 1 .. n : qs[k + 1] = ps[k]
  <2>1. \A k \in i + 1 .. n : k \in 1 .. n /\ k # i /\ Shift(i, k) = k + 1  BY <1>1 DEF Shift
  <2> HIDE DEF n
  <2> QED BY <2>1, <1>1
<1>4. ASSUME NEW m \in 0 .. i - 1 
      PROVE  t[m] = s[m]
  <2>1. m \in 0 .. Len(ps) /\ m \in 0 .. Len(qs) /\ Len(ps) \in Nat /\ Len(qs) \in Nat  BY <1>1
  <2>2. ASSUME NEW k \in 1 .. m
        PROVE  /\ Volume(qs[k], "ENERGY") = Volume(ps[k], "ENERGY")
               /\ EndOfPeriod(qs, k, end) = EndOfPeriod(ps, k, end)
    <3>1. k \in 1 .. i - 1 /\ k < Len(ps) /\ k < Len(qs) /\ k + 1 \in 1 .. i  BY <1>1
    <3>2. qs[k + 1].start = ps[k + 1].start
      <4>1. CASE k + 1 = i  BY <4>1, <1>1
      <4>2. CASE k + 1 # i
        <5>1. k + 1 \in 1 .. i - 1  BY <3>1, <4>2, <1>1
        <5> QED BY <5>1, <1>2
      <4> QED BY <4>1, <4>2
    <3> QED BY <3>1, <3>2, <1>2 DEF EndOfPeriod
  <2>3. SameUpTo(qs, end, ps, end, m)  BY <2>1, <2>2 DEF SameUpTo
  <2> QED BY <2>3, SnapshotsDependOn
<1>5. /\ \A k \in 1 .. n : s[k] = Advance(s[k - 1], ps[k], EndOfPeriod(ps, k, end))
      /\ \A k \in 1 .. n + 1 : t[k] = Advance(t[k - 1], qs[k], EndOfPeriod(qs, k, end))
  <2>1. \A k \in 1 .. n : s[k] = Advance(s[k - 1], ps[k], EndOfPeriod(ps, k, end))
    BY <1>1, SnapshotsUnfold
  <2>2. \A k \in 1 .. Len(qs) : t[k] = Advance(t[k - 1], qs[k], EndOfPeriod(qs, k, end))
    <3>1. Len(qs) \in Nat  BY <1>1
    <3> QED BY <3>1, SnapshotsUnfold
  <2> QED BY <2>1, <2>2, <1>1
<1>6. /\ \A k \in 0 .. n : s[k] \in SnapshotTypes(zone)
      /\ \A k \in 1 .. n + 1 : EndOfPeriod(qs, k, end) \in Int
  BY <1>1, SnapshotsTyped
<1> HIDE DEF s, t, n
<1>7. ASSUME NEW k \in i .. n
      PROVE  EndOfPeriod(qs, k + 1, end) = EndOfPeriod(ps, k, end)
  <2>1. CASE k < n
    <3>1. k + 1 \in i + 1 .. n /\ k + 1 < Len(qs)  BY <2>1, <1>1
    <3>2. qs[k + 1 + 1] = ps[k + 1]  BY <3>1, <1>3
    <3> QED BY <2>1, <3>1, <3>2 DEF EndOfPeriod, n
  <2>2. CASE ~ (k < n)
    <3>1. ~ (k + 1 < Len(qs))  BY <2>2, <1>1
    <3> QED BY <2>2, <3>1 DEF EndOfPeriod, n
  <2> QED BY <2>1, <2>2
<1>8. t[i + 1] = s[i]
  <2> DEFINE mid == EndOfPeriod(qs, i, end)
             last == EndOfPeriod(ps, i, end)
             r == s[i - 1]
             v == Volume(qs[i], "ENERGY")
             w == Volume(qs[i + 1], "ENERGY")
  <2>1. i - 1 \in 0 .. n /\ i - 1 \in 0 .. i - 1 /\ i \in 1 .. n + 1 /\ i + 1 \in 1 .. n + 1
        /\ i \in i .. n /\ i + 1 - 1 = i
    BY <1>1
  <2>2. t[i - 1] = r  BY <1>4, <2>1
  <2>3. t[i] = Advance(r, qs[i], mid)  BY <2>1, <2>2, <1>5
  <2>4. t[i + 1] = Advance(t[i], qs[i + 1], last)  BY <2>1, <1>5, <1>7
  <2>5. s[i] = Advance(r, ps[i], last)  BY <1>1, <1>5
  <2>6. r \in SnapshotTypes(zone) /\ mid \in Int /\ last \in Int  BY <2>1, <1>6, <1>7
  <2>7. v \in Int /\ w \in Int /\ Volume(ps[i], "ENERGY") = v + w
    <3>1. qs[i] \in Periods /\ qs[i + 1] \in Periods  BY <1>1, <2>1, PlacesAreFinite
    <3> QED BY <3>1, <1>1, VolumeTyped DEF Volumed
  <2> HIDE DEF r, mid, last
  <2>8. t[i] = [at |-> mid, zone |-> r.zone, energy |-> r.energy + v,
                durSession |-> r.durSession + (mid - r.at)]
    BY <2>3, <2>6 DEF Advance, SnapshotTypes
  <2>9. s[i] = [at |-> last, zone |-> r.zone, energy |-> r.energy + (v + w),
                durSession |-> r.durSession + (last - r.at)]
    BY <2>5, <2>6, <2>7 DEF Advance, SnapshotTypes
  <2>10. t[i + 1] = [at |-> last, zone |-> r.zone, energy |-> r.energy + v + w,
                     durSession |-> r.durSession + (mid - r.at) + (last - mid)]
    <3> DEFINE q == t[i]
    <3> HIDE DEF q
    <3>1. t[i + 1] = [q EXCEPT !.at = last, !.durSession = @ + (last - q.at), !.energy = @ + w]
      BY <2>4, Zenon DEF Advance, w, q
    <3>2. q = [at |-> mid, zone |-> r.zone, energy |-> r.energy + v,
               durSession |-> r.durSession + (mid - r.at)]
      BY <2>8 DEF q
    <3> HIDE DEF v, w
    <3> QED BY <3>1, <3>2
  <2>11. r.energy \in Int /\ r.durSession \in Int /\ r.at \in Int  BY <2>6 DEF SnapshotTypes
  <2> HIDE DEF v, w
  <2>12. /\ r.energy + v + w = r.energy + (v + w)
         /\ r.durSession + (mid - r.at) + (last - mid) = r.durSession + (last - r.at)
    <3>1. \A x, y, z \in Int : x + y + z = x + (y + z)  OBVIOUS
    <3>2. \A x, y, z, a \in Int : x + (y - z) + (a - y) = x + (a - z)  OBVIOUS
    <3>3. r.energy + v + w = r.energy + (v + w)  BY ONLY <2>7, <2>11, <3>1
    <3>4. r.durSession + (mid - r.at) + (last - mid) = r.durSession + (last - r.at)
      BY ONLY <2>6, <2>11, <3>2
    <3> QED BY <3>3, <3>4
  <2> QED BY <2>9, <2>10, <2>12
<1>9. 0 \in B
  <2>1. i + 0 = i  BY <1>1
  <2> QED BY <2>1, <1>8
<1>10. ASSUME NEW k \in Nat, k \in B
       PROVE  k + 1 \in B
  <2> SUFFICES ASSUME i + (k + 1) <= n PROVE t[i + (k + 1) + 1] = s[i + (k + 1)]  OBVIOUS
  <2> DEFINE m == i + k
  <2>1. m \in i .. n /\ m < n /\ i + (k + 1) = m + 1 /\ i + k + 1 = m + 1  BY <1>1
  <2>2. t[m + 1] = s[m]  BY <2>1, <1>10
  <2> HIDE DEF m
  <2>3. /\ m + 1 \in 1 .. n /\ m + 1 - 1 = m /\ m + 1 + 1 \in 1 .. n + 1 /\ m + 1 + 1 - 1 = m + 1
        /\ m + 1 \in i + 1 .. n /\ m + 1 \in i .. n
    BY <2>1, <1>1
  <2> DEFINE m1 == m + 1
             m2 == m + 1 + 1
  <2>7. m1 - 1 = m /\ m2 - 1 = m1 /\ m1 \in 1 .. n /\ m2 \in 1 .. n + 1  BY <2>1, <2>3, <1>1
  <2> HIDE DEF m1, m2
  <2>8. /\ s[m1] = Advance(s[m1 - 1], ps[m1], EndOfPeriod(ps, m1, end))
        /\ t[m2] = Advance(t[m2 - 1], qs[m2], EndOfPeriod(qs, m2, end))
    BY <2>7, <1>5
  <2>4. s[m + 1] = Advance(s[m], ps[m + 1], EndOfPeriod(ps, m + 1, end))
    BY <2>7, <2>8 DEF m1
  <2>5. t[m + 1 + 1] = Advance(t[m + 1], qs[m + 1 + 1], EndOfPeriod(qs, m + 1 + 1, end))
    BY <2>7, <2>8 DEF m1, m2
  <2>6. qs[m + 1 + 1] = ps[m + 1] /\ EndOfPeriod(qs, m + 1 + 1, end) = EndOfPeriod(ps, m + 1, end)
    BY <2>3, <1>3, <1>7
  <2> QED BY <2>1, <2>2, <2>4, <2>5, <2>6
<1> HIDE DEF B
<1>11. Nat \subseteq B  BY <1>9, <1>10, NatSetInduction
<1>12. CASE j < i
  <2>1. j \in 0 .. i - 1 /\ Shift(i, j) = j  BY <1>1, <1>12 DEF Shift
  <2> QED BY <2>1, <1>4 DEF s, t
<1>13. CASE ~ (j < i)
  <2>1. j - i \in Nat /\ i + (j - i) = j /\ j <= n /\ Shift(i, j) = j + 1
    BY <1>1, <1>13 DEF Shift, n
  <2>2. j - i \in B  BY <2>1, <1>11
  <2> QED BY <2>1, <2>2 DEF B, s, t
<1> QED BY <1>12, <1>13

\* The ledger M of a session in which period i of the ledger L is in two.
LedgerSplit(L, M, i) ==
    /\ IsLedger(L) /\ IsLedger(M) /\ i \in Int
    /\ DOMAIN M = Shifted(i, DOMAIN L)
    /\ \A j \in DOMAIN L : /\ M[Shift(i, j)].comp = L[j].comp
                           /\ j # i => M[Shift(i, j)].volume = L[j].volume
    /\ i \in DOMAIN L => M[i].comp = L[i].comp /\ M[i].volume + M[i + 1].volume = L[i].volume

\* A ledger with one entry split ends with the same component.
LEMMA SplitEntries ==
    ASSUME NEW L, NEW M, NEW i, LedgerSplit(L, M, i)
    PROVE  /\ DOMAIN L = {} <=> DOMAIN M = {}
           /\ DOMAIN L # {} => /\ Max(DOMAIN M) = Shift(i, Max(DOMAIN L))
                               /\ M[Max(DOMAIN M)].comp = L[Max(DOMAIN L)].comp
                               /\ LastStep(M) = LastStep(L)
<1> DEFINE D == DOMAIN L
           E == DOMAIN M
           m == Max(D)
<1>1. /\ IsLedger(L) /\ IsLedger(M) /\ i \in Int /\ D \subseteq Int /\ E \subseteq Int
      /\ E = {Shift(i, j) : j \in D} \cup (IF i \in D THEN {i} ELSE {})
      /\ \A j \in D : M[Shift(i, j)].comp = L[j].comp
  BY DEF LedgerSplit, Shifted, IsLedger
<1> HIDE DEF D, E
<1>2. D = {} <=> E = {}  BY <1>1
<1>3. ASSUME D # {}
      PROVE  /\ Max(E) = Shift(i, m) /\ M[Max(E)].comp = L[m].comp
             /\ LastStep(M) = LastStep(L)
  <2>1. m \in D /\ \A j \in D : j <= m  BY <1>1, <1>3, LastEntry DEF D
  <2>2. E # {} /\ Max(E) \in E /\ \A k \in E : k <= Max(E)  BY <1>1, <1>2, <1>3, LastEntry DEF E
  <2> DEFINE e == Max(E)
             x == Shift(i, m)
  <2> HIDE DEF m, e
  <2>3. x \in E /\ x \in Int /\ m \in Int  BY <1>1, <2>1 DEF Shift
  <2>4. e \in E /\ e \in Int /\ x <= e  BY <1>1, <2>2, <2>3 DEF e
  <2>5. e <= x
    <3>1. CASE e = i /\ i \in D  BY <1>1, <2>1, <2>3, <3>1 DEF Shift
    <3>2. CASE \E j \in D : e = Shift(i, j)
      <4>1. PICK j \in D : e = Shift(i, j)  BY <3>2
      <4>2. j <= m /\ j \in Int  BY <1>1, <2>1
      <4> QED BY <1>1, <2>3, <4>1, <4>2 DEF Shift
    <3> QED BY <1>1, <2>4, <3>1, <3>2
  <2>6. e = x  BY <2>3, <2>4, <2>5
  <2>7. M[x].comp = L[m].comp  BY <1>1, <2>1
  <2> HIDE DEF x
  <2>8. LastStep(M) = M[e].comp.step /\ LastStep(L) = L[m].comp.step
    BY DEF LastStep, e, m, E, D
  <2> QED BY <2>6, <2>7, <2>8 DEF e, x
<1> QED BY <1>2, <1>3 DEF D, E

\* A volume reported in two parts is the same volume, at the same price.
LEMMA SplitSums ==
    ASSUME NEW L, NEW M, NEW i, LedgerSplit(L, M, i)
    PROVE  TotalVolume(M) = TotalVolume(L) /\ Raw(M) = Raw(L)
<1> DEFINE D == DOMAIN L
           E == DOMAIN M
           f == [j \in D |-> L[j].volume]
           g == [j \in E |-> M[j].volume]
           h == [j \in D |-> L[j].volume * L[j].comp.price]
           k == [j \in E |-> M[j].volume * M[j].comp.price]
<1>1. /\ i \in Int /\ D \subseteq Int /\ IsFiniteSet(D) /\ E = Shifted(i, D)
      /\ \A j \in D : L[j] \in LedgerEntries
      /\ \A j \in E : M[j] \in LedgerEntries
      /\ \A j \in D : /\ M[Shift(i, j)].comp = L[j].comp
                      /\ j # i => M[Shift(i, j)].volume = L[j].volume
      /\ i \in D => M[i].comp = L[i].comp /\ M[i].volume + M[i + 1].volume = L[i].volume
  BY DEF LedgerSplit, IsLedger
<1>2. \A r \in LedgerEntries : r.volume \in Int /\ r.comp.price \in Int
  BY DEF LedgerEntries, PriceComponents
<1>3. \A j \in D : Shift(i, j) \in E  BY <1>1 DEF Shifted
<1>4. i \in D => i \in E /\ i + 1 \in E /\ Shift(i, i) = i + 1  BY <1>1, <1>3 DEF Shifted, Shift
<1>5. \A j \in D : f[j] \in Int /\ h[j] \in Int
  <2>1. \A j \in D : L[j].volume \in Int /\ L[j].comp.price \in Int  BY <1>1, <1>2
  <2> QED BY <2>1
<1>6. \A j \in D \ {i} : g[Shift(i, j)] = f[j] /\ k[Shift(i, j)] = h[j]
  <2> SUFFICES ASSUME NEW j \in D, j # i
               PROVE  g[Shift(i, j)] = f[j] /\ k[Shift(i, j)] = h[j]
    OBVIOUS
  <2> DEFINE y == Shift(i, j)
  <2>1. y \in E /\ M[y].volume = L[j].volume /\ M[y].comp = L[j].comp  BY <1>1, <1>3
  <2> HIDE DEF y
  <2>2. g[y] = M[y].volume /\ k[y] = M[y].volume * M[y].comp.price  BY <2>1
  <2> QED BY <2>1, <2>2 DEF y
<1>7. ASSUME i \in D
      PROVE  /\ g[i] \in Int /\ g[i + 1] \in Int /\ g[i] + g[i + 1] = f[i]
             /\ k[i] \in Int /\ k[i + 1] \in Int /\ k[i] + k[i + 1] = h[i]
  <2> DEFINE v == M[i].volume
             w == M[i + 1].volume
             p == L[i].comp.price
  <2>1. i \in E /\ i + 1 \in E /\ M[i].comp = L[i].comp /\ M[i + 1].comp = L[i].comp
        /\ L[i].volume = v + w
    BY <1>1, <1>4, <1>7
  <2>2. v \in Int /\ w \in Int /\ p \in Int  BY <1>1, <1>2, <1>7, <2>1
  <2>3. g[i] = v /\ g[i + 1] = w /\ f[i] = v + w  BY <1>7, <2>1
  <2>4. k[i] = v * p /\ k[i + 1] = w * p /\ h[i] = (v + w) * p  BY <1>7, <2>1
  <2> HIDE DEF v, w, p, f, g, h, k
  <2>5. v * p \in Int /\ w * p \in Int /\ (v + w) * p = v * p + w * p  BY <2>2
  <2> QED BY <2>2, <2>3, <2>4, <2>5
<1>8. DOMAIN f = D /\ DOMAIN g = E /\ DOMAIN h = D /\ DOMAIN k = E  OBVIOUS
<1>9. /\ TotalVolume(L) = SumFunctionOnSet(f, D) /\ TotalVolume(M) = SumFunctionOnSet(g, E)
      /\ Raw(L) = SumFunctionOnSet(h, D) /\ Raw(M) = SumFunctionOnSet(k, E)
  BY <1>8 DEF TotalVolume, Raw, SumFunction
<1> HIDE DEF D, E, f, g, h, k
<1>10. SumFunctionOnSet(g, Shifted(i, D)) = SumFunctionOnSet(f, D)
  BY <1>1, <1>5, <1>6, <1>7, SumOfSplit
<1>11. SumFunctionOnSet(k, Shifted(i, D)) = SumFunctionOnSet(h, D)
  BY <1>1, <1>5, <1>6, <1>7, SumOfSplit
<1> QED BY <1>1, <1>9, <1>10, <1>11

\* A dimension costs the same.
LEMMA SplitCosts ==
    ASSUME NEW d \in Volumed, NEW L, NEW M, NEW i, LedgerSplit(L, M, i), NEW idle
    PROVE  /\ StepFails(d, M, idle) <=> StepFails(d, L, idle)
           /\ ~ StepFails(d, L, idle) =>
                SessionCost(d, M, idle).before = SessionCost(d, L, idle).before
<1>1. /\ DOMAIN L = {} <=> DOMAIN M = {}
      /\ DOMAIN L # {} => LastStep(M) = LastStep(L)
                          /\ M[Max(DOMAIN M)].comp = L[Max(DOMAIN L)].comp
  BY SplitEntries
<1>2. TotalVolume(M) = TotalVolume(L) /\ Raw(M) = Raw(L)  BY SplitSums
<1>3. IsLedger(L) /\ IsLedger(M)  BY DEF LedgerSplit
<1>4. StepFails(d, M, idle) <=> StepFails(d, L, idle)  BY <1>1 DEF StepFails
<1>5. Added(d, M, idle) = Added(d, L, idle)  BY <1>1, <1>2 DEF Added, BilledVolume
<1>6. ASSUME ~ StepFails(d, L, idle)
      PROVE  Raw(WithStep(d, M, idle)) = Raw(WithStep(d, L, idle))
  <2>1. CASE DOMAIN L # {}
    BY <1>1, <1>2, <1>3, <1>4, <1>5, <1>6, <2>1, SessionCostFacts
  <2>2. CASE DOMAIN L = {}
    <3>1. Added(d, L, idle) = 0 /\ Added(d, M, idle) = 0
      BY <1>1, <1>3, <1>4, <1>6, <2>2, AddedFacts
    <3>2. WithStep(d, L, idle) = L /\ WithStep(d, M, idle) = M  BY <3>1 DEF WithStep, Added
    <3> QED BY <1>2, <3>2
  <2> QED BY <2>1, <2>2
<1> QED BY <1>3, <1>4, <1>6, SessionCostFacts

\* Session b is session a with period i in two.
SplitSession(a, b, i) ==
    /\ a \in Inputs /\ b \in Inputs
    /\ a.start = b.start /\ a.end = b.end /\ a.tariffs = b.tariffs /\ a.countryZone = b.countryZone
    /\ SplitAt(PeriodsOf(a), PeriodsOf(b), i)
    /\ Valid(a) /\ Valid(b)

\* The same components price the periods around the split, and its first half.
LEMMA SplitActive ==
    ASSUME NEW a, NEW b, NEW i, SplitSession(a, b, i), NEW o
    PROVE  /\ ActiveOf(b, o)[i] = ActiveOf(a, o)[i]
           /\ \A j \in 1 .. Len(PeriodsOf(a)) :
                j # i => ActiveOf(b, o)[Shift(i, j)] = ActiveOf(a, o)[j]
<1> DEFINE ps == PeriodsOf(a)
           qs == PeriodsOf(b)
           n == Len(ps)
           zone == ZoneOf(a, o)
           s == Snapshots(a.start, a.end, ps, zone)
           t == Snapshots(b.start, b.end, qs, zone)
<1>1. /\ a.start = b.start /\ a.end = b.end /\ a.tariffs = b.tariffs
      /\ a.countryZone = b.countryZone /\ SplitAt(ps, qs, i)
      /\ a.start \in Int /\ a.end \in Int
  BY DEF SplitSession, Inputs
<1>2. ActiveOf(a, o) = Active(a, ps, zone) /\ ActiveOf(b, o) = Active(b, qs, zone)
  BY <1>1, ZonesAgree DEF ActiveOf
<1> HIDE DEF ps, qs, zone
<1>3. /\ n \in Nat /\ i \in 1 .. n /\ DOMAIN ps = 1 .. n /\ DOMAIN qs = 1 .. n + 1
      /\ \A j \in 1 .. n : j # i => qs[Shift(i, j)] = ps[j]
      /\ \A k \in {i, i + 1} : qs[k].tariff = ps[i].tariff /\ SameReadings(ps[i], qs[k])
  BY <1>1, PlacesAreFinite DEF SplitAt
<1>4. \A j \in 0 .. n : t[Shift(i, j)] = s[j]  BY <1>1, SplitSnapshots
<1> HIDE DEF n, s, t
<1>5. ASSUME NEW j \in 1 .. n, j # i
      PROVE  Active(b, qs, zone)[Shift(i, j)] = Active(a, ps, zone)[j]
  <2> DEFINE k == Shift(i, j)
  <2>1. /\ j - 1 \in 0 .. n /\ k - 1 = Shift(i, j - 1) /\ k \in 1 .. n + 1
    BY <1>3, <1>5 DEF Shift
  <2>2. qs[k] = ps[j]  BY <1>3, <1>5
  <2> HIDE DEF k
  <2>3. t[k - 1] = s[j - 1]  BY <2>1, <1>4
  <2>4. MatchedAlike(b, qs, k, a, ps, j, zone)
    BY <2>1, <2>2, <2>3, <1>1, <1>3 DEF MatchedAlike, SameReadings, s, t
  <2>5. Active(b, qs, zone)[k] = Active(a, ps, zone)[j]  BY <2>4, ActiveDependsOn
  <2> QED BY <2>5 DEF k
<1>6. Active(b, qs, zone)[i] = Active(a, ps, zone)[i]
  <2>1. /\ i - 1 \in 0 .. n /\ i - 1 = Shift(i, i - 1) /\ i \in 1 .. n + 1
    BY <1>3 DEF Shift
  <2>2. t[i - 1] = s[i - 1]  BY <2>1, <1>4
  <2>3. qs[i].tariff = ps[i].tariff /\ SameReadings(qs[i], ps[i])  BY <1>3 DEF SameReadings
  <2>4. MatchedAlike(b, qs, i, a, ps, i, zone)
    BY <2>1, <2>2, <2>3, <1>1, <1>3 DEF MatchedAlike, s, t
  <2> QED BY <2>4, ActiveDependsOn
<1> QED BY <1>2, <1>5, <1>6 DEF n, ps

\* What the two sessions' periods are priced by, place by place.
LEMMA SplitPlaces ==
    ASSUME NEW a, NEW b, NEW i, SplitSession(a, b, i), NEW o,
           ActiveOf(b, o)[i + 1] = ActiveOf(a, o)[i]
    PROVE  /\ DOMAIN PeriodsOf(b) = Shifted(i, DOMAIN PeriodsOf(a))
           /\ i \in DOMAIN PeriodsOf(a) /\ i \in Int /\ DOMAIN PeriodsOf(a) \subseteq Int
           /\ \A j \in DOMAIN PeriodsOf(a) :
                /\ ActiveOf(b, o)[Shift(i, j)] = ActiveOf(a, o)[j]
                /\ PeriodsOf(b)[Shift(i, j)].tariff = PeriodsOf(a)[j].tariff
                /\ \A d \in Volumed : /\ PeriodsOf(b)[Shift(i, j)].volume[d] = {}
                                           <=> PeriodsOf(a)[j].volume[d] = {}
                                      /\ j # i => Volume(PeriodsOf(b)[Shift(i, j)], d)
                                                    = Volume(PeriodsOf(a)[j], d)
           /\ ActiveOf(b, o)[i] = ActiveOf(a, o)[i]
           /\ PeriodsOf(b)[i].tariff = PeriodsOf(a)[i].tariff
           /\ \A d \in Volumed : /\ PeriodsOf(b)[i].volume[d] = {} <=> PeriodsOf(a)[i].volume[d] = {}
                                 /\ Volume(PeriodsOf(b)[i], d) + Volume(PeriodsOf(b)[i + 1], d)
                                      = Volume(PeriodsOf(a)[i], d)
<1> DEFINE ps == PeriodsOf(a)
           qs == PeriodsOf(b)
           n == Len(ps)
           f == ActiveOf(a, o)
           g == ActiveOf(b, o)
<1>1. SplitAt(ps, qs, i)  BY DEF SplitSession
<1>2. g[i] = f[i] /\ \A j \in 1 .. n : j # i => g[Shift(i, j)] = f[j]  BY SplitActive
<1>3. g[i + 1] = f[i]  OBVIOUS
<1> HIDE DEF ps, qs, f, g
<1>4. /\ n \in Nat /\ i \in 1 .. n /\ DOMAIN ps = 1 .. n /\ DOMAIN qs = 1 .. n + 1
      /\ \A j \in 1 .. n : j # i => qs[Shift(i, j)] = ps[j]
      /\ \A k \in {i, i + 1} : /\ qs[k].tariff = ps[i].tariff
                               /\ \A d \in Volumed : qs[k].volume[d] = {} <=> ps[i].volume[d] = {}
      /\ \A d \in Volumed : Volume(qs[i], d) + Volume(qs[i + 1], d) = Volume(ps[i], d)
  BY <1>1, PlacesAreFinite DEF SplitAt
<1> HIDE DEF n
<1>5. Shift(i, i) = i + 1  BY <1>4 DEF Shift
<1>6. 1 .. n + 1 = Shifted(i, 1 .. n)
  <2>1. ASSUME NEW k \in 1 .. n + 1 PROVE k \in Shifted(i, 1 .. n)
    <3>1. CASE k = i  BY <1>4, <3>1 DEF Shifted
    <3>2. CASE k < i
      <4>1. k \in 1 .. n /\ Shift(i, k) = k  BY <1>4, <3>2 DEF Shift
      <4> QED BY <4>1 DEF Shifted
    <3>3. CASE k > i
      <4>1. k - 1 \in 1 .. n /\ Shift(i, k - 1) = k  BY <1>4, <3>3 DEF Shift
      <4> QED BY <4>1 DEF Shifted
    <3> QED BY <1>4, <3>1, <3>2, <3>3
  <2>2. ASSUME NEW k \in Shifted(i, 1 .. n) PROVE k \in 1 .. n + 1
    <3>1. \A j \in 1 .. n : Shift(i, j) \in 1 .. n + 1  BY <1>4 DEF Shift
    <3>2. i \in 1 .. n + 1  BY <1>4
    <3> QED BY <3>1, <3>2 DEF Shifted
  <2> QED BY <2>1, <2>2
<1>7. \A j \in 1 .. n : /\ g[Shift(i, j)] = f[j] /\ qs[Shift(i, j)].tariff = ps[j].tariff
                        /\ \A d \in Volumed :
                              /\ qs[Shift(i, j)].volume[d] = {} <=> ps[j].volume[d] = {}
                              /\ j # i => Volume(qs[Shift(i, j)], d) = Volume(ps[j], d)
  <2> SUFFICES ASSUME NEW j \in 1 .. n
               PROVE  /\ g[Shift(i, j)] = f[j] /\ qs[Shift(i, j)].tariff = ps[j].tariff
                      /\ \A d \in Volumed :
                              /\ qs[Shift(i, j)].volume[d] = {} <=> ps[j].volume[d] = {}
                              /\ j # i => Volume(qs[Shift(i, j)], d) = Volume(ps[j], d)
    OBVIOUS
  <2>1. CASE j = i  BY <1>3, <1>4, <1>5, <2>1
  <2>2. CASE j # i  BY <1>2, <1>4, <2>2 DEF n
  <2> QED BY <2>1, <2>2
<1>8. i \in 1 .. n /\ i \in Int /\ 1 .. n \subseteq Int  BY <1>4
<1> QED BY <1>2, <1>4, <1>6, <1>7, <1>8 DEF ps, qs, f, g

\* The ledgers of the two sessions.
LEMMA SplitLedgers ==
    ASSUME NEW a, NEW b, NEW i, SplitSession(a, b, i), NEW o,
           ActiveOf(b, o)[i + 1] = ActiveOf(a, o)[i], NEW d \in Volumed
    PROVE  LedgerSplit(LedgerOf(a, o, d), LedgerOf(b, o, d), i)
<1> DEFINE ps == PeriodsOf(a)
           qs == PeriodsOf(b)
           f == ActiveOf(a, o)
           g == ActiveOf(b, o)
           L == LedgerOf(a, o, d)
           M == LedgerOf(b, o, d)
           D == {j \in DOMAIN ps : ps[j].volume[d] # {} /\ f[j][d] # {}}
           E == {j \in DOMAIN qs : qs[j].volume[d] # {} /\ g[j][d] # {}}
<1>1. /\ IsLedger(L) /\ DOMAIN L = D
      /\ \A j \in D : L[j].volume = Volume(ps[j], d) /\ L[j].comp = PricedBy(f, j, d).comp
  <2>1. ps \in Seq(Periods) /\ IsActive(f, ps)  BY ValidInputs DEF SplitSession
  <2>2. L = Ledger(ps, f, d)  BY DEF LedgerOf
  <2> HIDE DEF ps, f, L
  <2>3. DOMAIN L = D  BY <2>2 DEF Ledger
  <2>4. \A j \in D : L[j].volume = Volume(ps[j], d) /\ L[j].comp = PricedBy(f, j, d).comp
    BY <2>2 DEF Ledger, PricedBy
  <2>5. IsLedger(L)  BY <2>1, <2>2, LedgerTyped
  <2> QED BY <2>3, <2>4, <2>5
<1>2. /\ IsLedger(M) /\ DOMAIN M = E
      /\ \A j \in E : M[j].volume = Volume(qs[j], d) /\ M[j].comp = PricedBy(g, j, d).comp
  <2>1. qs \in Seq(Periods) /\ IsActive(g, qs)  BY ValidInputs DEF SplitSession
  <2>2. M = Ledger(qs, g, d)  BY DEF LedgerOf
  <2> HIDE DEF qs, g, M
  <2>3. DOMAIN M = E  BY <2>2 DEF Ledger
  <2>4. \A j \in E : M[j].volume = Volume(qs[j], d) /\ M[j].comp = PricedBy(g, j, d).comp
    BY <2>2 DEF Ledger, PricedBy
  <2>5. IsLedger(M)  BY <2>1, <2>2, LedgerTyped
  <2> QED BY <2>3, <2>4, <2>5
<1>3. /\ DOMAIN qs = Shifted(i, DOMAIN ps)
      /\ i \in DOMAIN ps /\ i \in Int /\ DOMAIN ps \subseteq Int
      /\ \A j \in DOMAIN ps : /\ g[Shift(i, j)] = f[j]
                              /\ qs[Shift(i, j)].volume[d] = {} <=> ps[j].volume[d] = {}
                              /\ j # i => Volume(qs[Shift(i, j)], d) = Volume(ps[j], d)
      /\ g[i] = f[i]
      /\ qs[i].volume[d] = {} <=> ps[i].volume[d] = {}
      /\ Volume(qs[i], d) + Volume(qs[i + 1], d) = Volume(ps[i], d)
  BY SplitPlaces
<1> HIDE DEF ps, qs, f, g, L, M
<1>4. \A j \in DOMAIN ps : Shift(i, j) \in DOMAIN qs  BY <1>3 DEF Shifted
<1>5. i \in DOMAIN qs  BY <1>3 DEF Shifted
<1>6. \A j \in DOMAIN ps : Shift(i, j) \in E <=> j \in D  BY <1>3, <1>4
<1>7. i \in E <=> i \in D  BY <1>3, <1>5
<1>8. E = Shifted(i, D)
  <2>1. ASSUME NEW k \in E PROVE k \in Shifted(i, D)
    <3>1. k = i \/ \E j \in DOMAIN ps : k = Shift(i, j)  BY <1>3 DEF Shifted
    <3>2. CASE k = i  BY <1>7, <3>2 DEF Shifted
    <3>3. CASE \E j \in DOMAIN ps : k = Shift(i, j)
      <4>1. PICK j \in DOMAIN ps : k = Shift(i, j)  BY <3>3
      <4>2. j \in D  BY <1>6, <4>1
      <4> HIDE DEF D
      <4> QED BY <4>1, <4>2 DEF Shifted
    <3> QED BY <3>1, <3>2, <3>3
  <2>2. ASSUME NEW k \in Shifted(i, D) PROVE k \in E
    <3>1. (k = i /\ i \in D) \/ \E j \in D : k = Shift(i, j)
      <4> HIDE DEF D
      <4> QED BY DEF Shifted
    <3>2. \A j \in D : j \in DOMAIN ps  OBVIOUS
    <3> QED BY <3>1, <3>2, <1>6, <1>7
  <2> QED BY <2>1, <2>2
<1>9. \A j \in D : j \in DOMAIN ps  OBVIOUS
<1>10. \A j, k : f[j] = g[k] => PricedBy(f, j, d) = PricedBy(g, k, d)  BY DEF PricedBy
<1> HIDE DEF D, E
<1>11. \A j \in D : /\ M[Shift(i, j)].comp = L[j].comp
                    /\ j # i => M[Shift(i, j)].volume = L[j].volume
  <2> SUFFICES ASSUME NEW j \in D
               PROVE  /\ M[Shift(i, j)].comp = L[j].comp
                      /\ j # i => M[Shift(i, j)].volume = L[j].volume
    OBVIOUS
  <2> DEFINE k == Shift(i, j)
  <2>1. j \in DOMAIN ps /\ k \in E /\ g[k] = f[j]  BY <1>3, <1>6, <1>9
  <2>2. j # i => Volume(qs[k], d) = Volume(ps[j], d)  BY <1>3, <2>1
  <2> HIDE DEF k
  <2> QED BY <1>1, <1>2, <1>10, <2>1, <2>2 DEF k
<1>12. ASSUME i \in D
       PROVE  M[i].comp = L[i].comp /\ M[i].volume + M[i + 1].volume = L[i].volume
  <2>1. i \in E /\ g[i] = f[i]  BY <1>3, <1>7, <1>12
  <2>2. i + 1 \in E
    <3>1. Shift(i, i) = i + 1  BY <1>3 DEF Shift
    <3> QED BY <3>1, <1>3, <1>6, <1>12
  <2>3. M[i].volume = Volume(qs[i], d) /\ M[i + 1].volume = Volume(qs[i + 1], d)
        /\ L[i].volume = Volume(ps[i], d)
    BY <1>1, <1>2, <1>12, <2>1, <2>2
  <2>4. M[i].comp = PricedBy(g, i, d).comp /\ L[i].comp = PricedBy(f, i, d).comp
    BY <1>1, <1>2, <1>12, <2>1
  <2>5. PricedBy(g, i, d) = PricedBy(f, i, d)  BY <2>1 DEF PricedBy
  <2>6. M[i].comp = L[i].comp  BY <2>4, <2>5
  <2>7. Volume(qs[i], d) + Volume(qs[i + 1], d) = Volume(ps[i], d)  BY <1>3
  <2> QED BY <2>3, <2>6, <2>7
<1> QED BY <1>1, <1>2, <1>3, <1>8, <1>11, <1>12 DEF LedgerSplit, L, M

\* The fees, the idle step and the tariffs used are the same.
LEMMA SplitRest ==
    ASSUME NEW a, NEW b, NEW i, SplitSession(a, b, i), NEW o,
           ActiveOf(b, o)[i + 1] = ActiveOf(a, o)[i]
    PROVE  /\ Flats(ActiveOf(b, o)) = Flats(ActiveOf(a, o))
           /\ IdleOf(b, o) <=> IdleOf(a, o)
           /\ UsedBy(b) = UsedBy(a)
<1> DEFINE ps == PeriodsOf(a)
           qs == PeriodsOf(b)
           f == ActiveOf(a, o)
           g == ActiveOf(b, o)
<1>1. /\ DOMAIN qs = Shifted(i, DOMAIN ps) /\ i \in DOMAIN ps
      /\ \A j \in DOMAIN ps :
           /\ g[Shift(i, j)] = f[j] /\ qs[Shift(i, j)].tariff = ps[j].tariff
           /\ \A d \in Volumed : qs[Shift(i, j)].volume[d] = {} <=> ps[j].volume[d] = {}
      /\ g[i] = f[i] /\ qs[i].tariff = ps[i].tariff
      /\ \A d \in Volumed : qs[i].volume[d] = {} <=> ps[i].volume[d] = {}
  BY SplitPlaces
<1>2. DOMAIN f = DOMAIN ps /\ DOMAIN g = DOMAIN qs  BY DEF ActiveOf, Active
<1> HIDE DEF ps, qs, f, g
<1>3. \A j \in DOMAIN ps : Shift(i, j) \in DOMAIN qs  BY <1>1 DEF Shifted
<1>4. \A k \in DOMAIN qs : \E j \in DOMAIN ps :
        /\ g[k] = f[j] /\ qs[k].tariff = ps[j].tariff
        /\ \A d \in Volumed : qs[k].volume[d] = {} <=> ps[j].volume[d] = {}
  <2> SUFFICES ASSUME NEW k \in DOMAIN qs
               PROVE  \E j \in DOMAIN ps :
                        /\ g[k] = f[j] /\ qs[k].tariff = ps[j].tariff
                        /\ \A d \in Volumed : qs[k].volume[d] = {} <=> ps[j].volume[d] = {}
    OBVIOUS
  <2>1. k = i \/ \E j \in DOMAIN ps : k = Shift(i, j)  BY <1>1 DEF Shifted
  <2>2. CASE k = i  BY <1>1, <2>2
  <2>3. CASE \E j \in DOMAIN ps : k = Shift(i, j)
    <3>1. PICK j \in DOMAIN ps : k = Shift(i, j)  BY <2>3
    <3>2. /\ g[k] = f[j] /\ qs[k].tariff = ps[j].tariff
          /\ \A d \in Volumed : qs[k].volume[d] = {} <=> ps[j].volume[d] = {}
      BY <1>1, <3>1
    <3> QED BY <3>2
  <2> QED BY <2>1, <2>2, <2>3
<1>5. UsedTariffs(qs) = UsedTariffs(ps)
  <2>1. ASSUME NEW t \in UsedTariffs(qs) PROVE t \in UsedTariffs(ps)
    BY <1>4 DEF UsedTariffs
  <2>2. ASSUME NEW t \in UsedTariffs(ps) PROVE t \in UsedTariffs(qs)
    BY <1>1, <1>3 DEF UsedTariffs
  <2> QED BY <2>1, <2>2
<1>6. Flats(g) = Flats(f)
  <2>1. ASSUME NEW m \in Flats(g) PROVE m \in Flats(f)  BY <1>2, <1>4 DEF Flats
  <2>2. ASSUME NEW m \in Flats(f) PROVE m \in Flats(g)  BY <1>1, <1>2, <1>3 DEF Flats
  <2> QED BY <2>1, <2>2
<1>7. HasIdleStep(qs, g) <=> HasIdleStep(ps, f)
  <2>2. "PARKING_TIME" \in Volumed  BY DEF Volumed
  <2>3. \A k \in DOMAIN qs : \E j \in DOMAIN ps :
          /\ g[k]["PARKING_TIME"] = f[j]["PARKING_TIME"]
          /\ qs[k].volume["PARKING_TIME"] = {} <=> ps[j].volume["PARKING_TIME"] = {}
    BY <1>4, <2>2
  <2>4. \A j \in DOMAIN ps : \E k \in DOMAIN qs :
          /\ g[k]["PARKING_TIME"] = f[j]["PARKING_TIME"]
          /\ qs[k].volume["PARKING_TIME"] = {} <=> ps[j].volume["PARKING_TIME"] = {}
    BY <1>1, <1>3, <2>2
  <2>5. HasIdleStep(qs, g) => HasIdleStep(ps, f)  BY <2>3 DEF HasIdleStep
  <2>6. HasIdleStep(ps, f) => HasIdleStep(qs, g)  BY <2>4 DEF HasIdleStep
  <2> QED BY <2>5, <2>6
<1> QED BY <1>5, <1>6, <1>7 DEF UsedBy, IdleOf, ps, qs, f, g

\* The two sessions are billed alike.
LEMMA SplitBill ==
    ASSUME NEW a, NEW b, NEW i, SplitSession(a, b, i), NEW o \in EngineOptions,
           ActiveOf(b, o)[i + 1] = ActiveOf(a, o)[i], Calculate(a, o).error = "none"
    PROVE  /\ Calculate(b, o).total.before = Calculate(a, o).total.before
           /\ \A d \in Dims : Calculate(b, o).cost[d].before = Calculate(a, o).cost[d].before
<1>1. /\ a \in Inputs /\ b \in Inputs /\ Valid(b)
      /\ a.tariffs = b.tariffs /\ a.countryZone = b.countryZone
  BY DEF SplitSession
<1>2. ~ Refused(a, o) /\ ~ StepRefused(a, o)  BY <1>1, PricedPoint
<1>3. ~ Refused(b, o)
  <2>1. ResolveZone(a, o) = ResolveZone(b, o)  BY <1>1 DEF ResolveZone
  <2> QED BY <1>1, <1>2, <2>1 DEF Refused
<1>4. /\ Flats(ActiveOf(b, o)) = Flats(ActiveOf(a, o))
      /\ UsedBy(b) = UsedBy(a) /\ IdleOf(b, o) = IdleOf(a, o)
  <2>1. IdleOf(b, o) \in BOOLEAN /\ IdleOf(a, o) \in BOOLEAN  BY DEF IdleOf, HasIdleStep
  <2>2. IdleOf(b, o) <=> IdleOf(a, o)  BY SplitRest
  <2>3. IdleOf(b, o) = IdleOf(a, o)  BY <2>1, <2>2
  <2> QED BY <2>3, SplitRest
<1>5. ASSUME NEW d \in Volumed
      PROVE  /\ ~ StepFails(d, LedgerOf(b, o, d), IdleOf(b, o))
             /\ SessionCost(d, LedgerOf(b, o, d), IdleOf(b, o)).before =
                  SessionCost(d, LedgerOf(a, o, d), IdleOf(a, o)).before
  <2>1. LedgerSplit(LedgerOf(a, o, d), LedgerOf(b, o, d), i)  BY SplitLedgers
  <2>2. ~ StepFails(d, LedgerOf(a, o, d), IdleOf(a, o))  BY <1>2 DEF StepRefused
  <2> DEFINE L == LedgerOf(a, o, d)
             M == LedgerOf(b, o, d)
             idle == IdleOf(a, o)
  <2> HIDE DEF L, M, idle
  <2>3. /\ StepFails(d, M, idle) <=> StepFails(d, L, idle)
        /\ ~ StepFails(d, L, idle) =>
             SessionCost(d, M, idle).before = SessionCost(d, L, idle).before
    BY <2>1, SplitCosts DEF L, M
  <2> QED BY <2>2, <2>3, <1>4 DEF L, M, idle
<1>6. ~ StepRefused(b, o)  BY <1>5 DEF StepRefused
<1>7. \A d \in Dims : CostOf(b, o)[d].before = CostOf(a, o)[d].before
  <2>1. \A d \in Volumed : CostOf(b, o)[d].before = CostOf(a, o)[d].before
    BY <1>1, <1>2, <1>3, <1>5, <1>6, CostsTyped
  <2>2. \A in : CostOf(in, o)["FLAT"] = FlatCost(Flats(ActiveOf(in, o)))  BY DEF CostOf, Dims
  <2>3. CostOf(b, o)["FLAT"].before = CostOf(a, o)["FLAT"].before  BY <1>4, <2>2
  <2> QED BY <2>1, <2>3 DEF Dims
<1>8. TotalOf(b, o).before = TotalOf(a, o).before
  <2> DEFINE x == CostOf(a, o)
             y == CostOf(b, o)
             used == UsedBy(a)
             below(ts, m) == UNION {{w \in ts[t].minPrice : m.before < w.before} : t \in used}
             above(ts, m) == UNION {{w \in ts[t].maxPrice : m.before > w.before} : t \in used}
             F(ts, m) == IF Cardinality(used) # 1 THEN m
                         ELSE IF below(ts, m) # {} THEN CHOOSE w \in below(ts, m) : TRUE
                         ELSE IF above(ts, m) # {} THEN CHOOSE w \in above(ts, m) : TRUE
                         ELSE m
  <2>1. x \in [Dims -> Moneys] /\ y \in [Dims -> Moneys]  BY <1>1, <1>2, <1>3, <1>6, CostsTyped
  <2>2. Unclamped(x).before = Unclamped(y).before
    <3>1. [d \in Dims |-> x[d].before] = [d \in Dims |-> y[d].before]  BY <1>7
    <3> HIDE DEF x, y
    <3>2. \A c : Unclamped(c).before = SumFunction([d \in Dims |-> c[d].before])
      BY DEF Unclamped
    <3> QED BY <3>1, <3>2
  <2>3. TotalOf(a, o) = TotalCost(a, used, x) /\ TotalOf(b, o) = TotalCost(b, used, y)
    BY <1>4 DEF TotalOf
  <2> HIDE DEF x, y, used
  <2>4. \A in, c : TotalCost(in, used, c) = F(in.tariffs, Unclamped(c))
    BY Zenon DEF TotalCost
  <2>5. ASSUME NEW ts, NEW m, NEW n, m.before = n.before
        PROVE  F(ts, m).before = F(ts, n).before
    <3>1. below(ts, m) = below(ts, n) /\ above(ts, m) = above(ts, n)  BY <2>5
    <3> HIDE DEF below, above
    <3> QED BY <2>5, <3>1
  <2> HIDE DEF F
  <2>6. TotalOf(a, o) = F(a.tariffs, Unclamped(x)) /\ TotalOf(b, o) = F(a.tariffs, Unclamped(y))
    BY <1>1, <2>3, <2>4
  <2> QED BY <2>2, <2>5, <2>6
<1>9. \A m, n : m.before = n.before => RoundedTo(m, o).before = RoundedTo(n, o).before
  BY DEF RoundedTo, RoundMoney
<1>10. ASSUME NEW in, in \in {a, b}
       PROVE  /\ Calculate(in, o).total = RoundedTo(TotalOf(in, o), o)
              /\ \A d \in Dims : Calculate(in, o).cost[d] = RoundedTo(CostOf(in, o)[d], o)
  <2>1. ~ Refused(in, o) /\ ~ StepRefused(in, o)  BY <1>2, <1>3, <1>6, <1>10
  <2>2. /\ Calculate(in, o).total = RoundedTo(TotalOf(in, o), o)
        /\ Calculate(in, o).cost = [d \in Dims |-> RoundedTo(CostOf(in, o)[d], o)]
    BY <2>1, CalculateFacts
  <2> QED BY <2>2
<1> QED BY <1>7, <1>8, <1>9, <1>10

\* Split makes such a session of a session whose periods are in order.
LEMMA SplitIsSplit ==
    ASSUME NEW in \in Inputs, Valid(in), PeriodsOf(in) = in.periods, InOrder(in.periods),
           NEW i \in 1 .. Len(in.periods), NEW t \in Int, in.periods[i].start <= t,
           i < Len(in.periods) => t <= in.periods[i + 1].start
    PROVE  SplitSession(in, Split(in, i, t), i)
<1> DEFINE ps == in.periods
           n == Len(ps)
           p == ps[i]
           half(opt) == {v \div 2 : v \in opt}
           rest(opt) == {v - v \div 2 : v \in opt}
           one == [p EXCEPT !.volume = [d \in Volumed |-> half(@[d])]]
           two == [p EXCEPT !.start = t, !.volume = [d \in Volumed |-> rest(@[d])]]
           qs == SubSeq(ps, 1, i - 1) \o <<one, two>> \o SubSeq(ps, i + 1, n)
           out == Split(in, i, t)
<1>1. out = [in EXCEPT !.periods = qs]  BY Zenon DEF Split
<1>2. /\ ps \in Seq(Periods) /\ n \in Nat /\ DOMAIN ps = 1 .. n /\ i \in 1 .. n
      /\ \A j \in 1 .. n : ps[j] \in Periods
  BY PlacesAreFinite DEF Inputs
<1>3. \A r \in Periods : r.start \in Int  BY DEF Periods
<1> HIDE DEF ps, n
<1>4. p \in Periods /\ p.start \in Int  BY <1>2, <1>3
<1>5. ASSUME NEW d \in Volumed
      PROVE  /\ half(p.volume[d]) \in Opt(Int) /\ rest(p.volume[d]) \in Opt(Int)
             /\ half(p.volume[d]) = {} <=> p.volume[d] = {}
             /\ rest(p.volume[d]) = {} <=> p.volume[d] = {}
             /\ (\A v \in p.volume[d] : v >= 0) => /\ \A v \in half(p.volume[d]) : v >= 0
                                                   /\ \A v \in rest(p.volume[d]) : v >= 0
             /\ p.volume[d] # {} =>
                  (CHOOSE v \in half(p.volume[d]) : TRUE) + (CHOOSE v \in rest(p.volume[d]) : TRUE)
                    = CHOOSE v \in p.volume[d] : TRUE
  <2> DEFINE w == p.volume[d]
             c == CHOOSE v \in w : TRUE
  <2>1. w \in Opt(Int)  BY <1>4 DEF Periods
  <2> HIDE DEF w, p
  <2>2. CASE w = {}
    <3>1. half(w) = {} /\ rest(w) = {}  BY <2>2
    <3> HIDE DEF half, rest
    <3> QED BY <2>1, <2>2, <3>1 DEF w
  <2>3. CASE w # {}
    <3>1. c \in Int /\ w = {c}  BY <2>1, <2>3, OptFacts
    <3> HIDE DEF c
    <3>2. c \div 2 \in Int /\ (c >= 0 => c \div 2 >= 0 /\ c - c \div 2 >= 0)  BY <3>1
    <3> DEFINE h == c \div 2
               r == c - h
    <3>3. half(w) = {h} /\ rest(w) = {r}  BY <3>1
    <3> HIDE DEF half, rest, h
    <3>4. h \in Int /\ r \in Int /\ h + r = c /\ (c >= 0 => h >= 0 /\ r >= 0)
      BY <3>1, <3>2 DEF h
    <3> HIDE DEF r
    <3>5. {h} \in Opt(Int) /\ {r} \in Opt(Int)  BY <3>4 DEF Opt
    <3>6. (CHOOSE v \in {h} : TRUE) = h /\ (CHOOSE v \in {r} : TRUE) = r  OBVIOUS
    <3>7. (CHOOSE v \in w : TRUE) = c  BY DEF c
    <3> QED BY <3>1, <3>3, <3>4, <3>5, <3>6, <3>7 DEF w
  <2> QED BY <2>2, <2>3
<1>6. /\ one \in Periods /\ two \in Periods
      /\ one.start = p.start /\ two.start = t
      /\ one.tariff = p.tariff /\ two.tariff = p.tariff
      /\ SameReadings(p, one) /\ SameReadings(p, two)
      /\ \A d \in Volumed : one.volume[d] = half(p.volume[d]) /\ two.volume[d] = rest(p.volume[d])
  <2> HIDE DEF p
  <2> DEFINE x == [d \in Volumed |-> half(p.volume[d])]
             y == [d \in Volumed |-> rest(p.volume[d])]
  <2>1. x \in [Volumed -> Opt(Int)] /\ y \in [Volumed -> Opt(Int)]  BY <1>5
  <2>2. \A d \in Volumed : x[d] = half(p.volume[d]) /\ y[d] = rest(p.volume[d])  OBVIOUS
  <2>3. one = [p EXCEPT !.volume = x] /\ two = [p EXCEPT !.start = t, !.volume = y]
    BY <1>4 DEF Periods
  <2> HIDE DEF x, y, one, two, half, rest
  <2> QED BY <1>4, <2>1, <2>2, <2>3 DEF Periods, SameReadings
<1>7. \A d \in Volumed : /\ one.volume[d] = {} <=> p.volume[d] = {}
                         /\ two.volume[d] = {} <=> p.volume[d] = {}
                         /\ Volume(one, d) + Volume(two, d) = Volume(p, d)
  <2> SUFFICES ASSUME NEW d \in Volumed
               PROVE  /\ one.volume[d] = {} <=> p.volume[d] = {}
                      /\ two.volume[d] = {} <=> p.volume[d] = {}
                      /\ Volume(one, d) + Volume(two, d) = Volume(p, d)
    OBVIOUS
  <2> DEFINE C(opt) == CHOOSE v \in opt : TRUE
             w == p.volume[d]
  <2>1. one.volume[d] = half(w) /\ two.volume[d] = rest(w)  BY <1>6
  <2> HIDE DEF one, two, half, rest
  <2>2. \A q : Volume(q, d) = IF q.volume[d] = {} THEN 0 ELSE C(q.volume[d])
    BY Zenon DEF Volume
  <2>3. /\ half(w) = {} <=> w = {}
        /\ rest(w) = {} <=> w = {}
        /\ w # {} => C(half(w)) + C(rest(w)) = C(w)
    BY <1>5
  <2> HIDE DEF C
  <2>4. /\ Volume(one, d) = IF w = {} THEN 0 ELSE C(half(w))
        /\ Volume(two, d) = IF w = {} THEN 0 ELSE C(rest(w))
        /\ Volume(p, d) = IF w = {} THEN 0 ELSE C(w)
    BY <2>1, <2>2, <2>3
  <2> HIDE DEF w, p
  <2>5. CASE w = {}  BY <2>1, <2>3, <2>4, <2>5 DEF w
  <2>6. CASE w # {}  BY <2>1, <2>3, <2>4, <2>6 DEF w
  <2> QED BY <2>5, <2>6
<1>8. \A q \in {one, two} : (\A v \in p.volume["ENERGY"] : v >= 0) => \A v \in q.volume["ENERGY"] : v >= 0
  <2>1. "ENERGY" \in Volumed  BY DEF Volumed
  <2> HIDE DEF p, one, two, half, rest
  <2> QED BY <2>1, <1>5, <1>6
<1> HIDE DEF p, one, two, half, rest
<1>9. /\ qs \in Seq(Periods) /\ Len(qs) = n + 1
      /\ \A j \in 1 .. i - 1 : qs[j] = ps[j]
      /\ qs[i] = one /\ qs[i + 1] = two
      /\ \A j \in i + 1 .. n : qs[j + 1] = ps[j]
  <2> DEFINE u == SubSeq(ps, 1, i - 1)
             v == SubSeq(ps, i + 1, n)
             x == <<one, two>>
  <2>1. u \in Seq(Periods) /\ Len(u) = i - 1 /\ \A j \in 1 .. i - 1 : u[j] = ps[j]
    <3>1. \A j \in 1 .. i - 1 : ps[j] \in Periods  BY <1>2
    <3> DEFINE m == i - 1
    <3>2. m \in Nat  BY <1>2
    <3> HIDE DEF m
    <3>3. /\ SubSeq(ps, 1, m) \in Seq(Periods)
          /\ Len(SubSeq(ps, 1, m)) = IF 1 <= m THEN m - 1 + 1 ELSE 0
          /\ \A j \in 1 .. m - 1 + 1 : SubSeq(ps, 1, m)[j] = ps[1 + j - 1]
      BY <3>1, <3>2, SubSeqProperties DEF m
    <3>4. \A j \in 1 .. m : j \in 1 .. m - 1 + 1 /\ 1 + j - 1 = j  BY <3>2
    <3> QED BY <3>2, <3>3, <3>4 DEF m
  <2>2. v \in Seq(Periods) /\ Len(v) = n - i /\ \A j \in 1 .. n - i : v[j] = ps[i + j]
    <3>1. \A j \in i + 1 .. n : ps[j] \in Periods  BY <1>2
    <3> DEFINE k == i + 1
    <3>2. k \in Int /\ n \in Int /\ i \in Int /\ k <= n + 1  BY <1>2
    <3> HIDE DEF k, n
    <3>3. /\ SubSeq(ps, k, n) \in Seq(Periods)
          /\ Len(SubSeq(ps, k, n)) = IF k <= n THEN n - k + 1 ELSE 0
          /\ \A j \in 1 .. n - k + 1 : SubSeq(ps, k, n)[j] = ps[k + j - 1]
      BY <3>1, <3>2, SubSeqProperties DEF k
    <3>4. \A j \in 1 .. n - i : j \in 1 .. n - k + 1 /\ k + j - 1 = i + j  BY <3>2 DEF k
    <3>5. (IF k <= n THEN n - k + 1 ELSE 0) = n - i  BY <3>2 DEF k
    <3> QED BY <3>3, <3>4, <3>5 DEF k
  <2>3. x \in Seq(Periods) /\ Len(x) = 2 /\ x[1] = one /\ x[2] = two  BY <1>6
  <2> HIDE DEF u, v, x, n
  <2> DEFINE z == u \o x
  <2>4. z \in Seq(Periods) /\ Len(z) = i + 1
        /\ (\A j \in 1 .. i - 1 : z[j] = u[j]) /\ z[i] = one /\ z[i + 1] = two
    <3>1. /\ z \in Seq(Periods) /\ Len(z) = (i - 1) + 2
          /\ \A j \in 1 .. (i - 1) + 2 : z[j] = IF j <= i - 1 THEN u[j] ELSE x[j - (i - 1)]
      <4>1. /\ u \o x \in Seq(Periods) /\ Len(u \o x) = Len(u) + Len(x)
            /\ \A j \in 1 .. Len(u) + Len(x) :
                 (u \o x)[j] = IF j <= Len(u) THEN u[j] ELSE x[j - Len(u)]
        BY ONLY <2>1, <2>3, ConcatProperties
      <4> QED BY <4>1, <2>1, <2>3
    <3> HIDE DEF z
    <3>2. \A j \in 1 .. i - 1 : j \in 1 .. (i - 1) + 2 /\ j <= i - 1  BY <1>2
    <3>3. /\ i \in 1 .. (i - 1) + 2 /\ ~ (i <= i - 1) /\ i - (i - 1) = 1
          /\ i + 1 \in 1 .. (i - 1) + 2 /\ ~ (i + 1 <= i - 1) /\ i + 1 - (i - 1) = 2
          /\ (i - 1) + 2 = i + 1
      BY <1>2
    <3> QED BY <3>1, <3>2, <3>3, <2>3
  <2> HIDE DEF z
  <2>5. qs = z \o v  BY DEF z, u, v, x
  <2> HIDE DEF qs
  <2>6. qs \in Seq(Periods) /\ Len(qs) = n + 1
        /\ \A j \in 1 .. n + 1 : qs[j] = IF j <= i + 1 THEN z[j] ELSE v[j - (i + 1)]
    <3>1. /\ z \o v \in Seq(Periods) /\ Len(z \o v) = (i + 1) + (n - i)
          /\ \A j \in 1 .. (i + 1) + (n - i) :
               (z \o v)[j] = IF j <= i + 1 THEN z[j] ELSE v[j - (i + 1)]
      <4>1. /\ z \o v \in Seq(Periods) /\ Len(z \o v) = Len(z) + Len(v)
            /\ \A j \in 1 .. Len(z) + Len(v) :
                 (z \o v)[j] = IF j <= Len(z) THEN z[j] ELSE v[j - Len(z)]
        BY ONLY <2>2, <2>4, ConcatProperties
      <4> QED BY <4>1, <2>2, <2>4
    <3>2. (i + 1) + (n - i) = n + 1  BY <1>2
    <3> QED BY <2>5, <3>1, <3>2
  <2>7. \A j \in 1 .. i - 1 : qs[j] = ps[j]
    <3>1. \A j \in 1 .. i - 1 : j \in 1 .. n + 1 /\ j <= i + 1  BY <1>2
    <3> QED BY <3>1, <2>1, <2>4, <2>6
  <2>8. qs[i] = one /\ qs[i + 1] = two  BY <1>2, <2>4, <2>6
  <2>9. ASSUME NEW j \in i + 1 .. n PROVE qs[j + 1] = ps[j]
    <3>1. j + 1 \in 1 .. n + 1 /\ ~ (j + 1 <= i + 1) /\ j + 1 - (i + 1) = j - i
          /\ j - i \in 1 .. n - i /\ i + (j - i) = j
      BY <1>2
    <3>2. qs[j + 1] = v[j - i]  BY <3>1, <2>6
    <3> QED BY <3>1, <3>2, <2>2
  <2> QED BY <2>6, <2>7, <2>8, <2>9
<1> HIDE DEF qs
<1>10. \A j \in 1 .. n : j # i => qs[Shift(i, j)] = ps[j]
  <2> SUFFICES ASSUME NEW j \in 1 .. n, j # i PROVE qs[Shift(i, j)] = ps[j]  OBVIOUS
  <2>1. CASE j < i
    <3>1. j \in 1 .. i - 1 /\ Shift(i, j) = j  BY <1>2, <2>1 DEF Shift
    <3> QED BY <3>1, <1>9
  <2>2. CASE ~ (j < i)
    <3>1. j \in i + 1 .. n /\ Shift(i, j) = j + 1  BY <1>2, <2>2 DEF Shift
    <3> QED BY <3>1, <1>9
  <2> QED BY <2>1, <2>2
<1>11. SplitAt(ps, qs, i)
  <2>1. qs[i].start = ps[i].start  BY <1>6, <1>9 DEF p
  <2>2. \A k \in {i, i + 1} : qs[k] \in {one, two}  BY <1>9
  <2>3. \A k \in {i, i + 1} : qs[k].tariff = ps[i].tariff /\ SameReadings(ps[i], qs[k])
    BY <1>6, <2>2 DEF p
  <2>4. \A k \in {i, i + 1} : \A d \in Volumed : qs[k].volume[d] = {} <=> ps[i].volume[d] = {}
    BY <1>7, <2>2 DEF p
  <2>5. \A d \in Volumed : Volume(qs[i], d) + Volume(qs[i + 1], d) = Volume(ps[i], d)
    BY <1>7, <1>9 DEF p
  <2> QED BY <1>2, <1>9, <1>10, <2>1, <2>3, <2>4, <2>5 DEF SplitAt, n
<1>12. /\ out \in Inputs /\ out.periods = qs /\ out.start = in.start /\ out.end = in.end
       /\ out.tariffs = in.tariffs /\ out.countryZone = in.countryZone
       /\ out.currency = in.currency
  BY <1>1, <1>9 DEF Inputs
<1>13. InOrder(qs)
  <2>1. \A j, k \in 1 .. n : j < k => ps[j].start <= ps[k].start  BY <1>2 DEF InOrder, ps
  <2>2. /\ qs[i].start = ps[i].start /\ qs[i + 1].start = t
        /\ ps[i].start <= t /\ (i < n => t <= ps[i + 1].start)
    BY <1>6, <1>9 DEF p, ps, n
  <2>3. \A j \in 1 .. n : ps[j].start \in Int  BY <1>2, <1>3
  <2>4. \A j \in 1 .. i : qs[j].start = ps[j].start
    <3>1. \A j \in 1 .. i : j = i \/ j \in 1 .. i - 1  BY <1>2
    <3> QED BY <3>1, <2>2, <1>9
  <2>5. \A j \in i + 2 .. n + 1 : j - 1 \in i + 1 .. n /\ qs[j].start = ps[j - 1].start
    <3> SUFFICES ASSUME NEW j \in i + 2 .. n + 1
                 PROVE  j - 1 \in i + 1 .. n /\ qs[j].start = ps[j - 1].start
      OBVIOUS
    <3> DEFINE m == j - 1
    <3>1. m \in i + 1 .. n /\ m + 1 = j  BY <1>2
    <3> HIDE DEF m
    <3>2. qs[m + 1] = ps[m]  BY <3>1, <1>9
    <3> QED BY <3>1, <3>2 DEF m
  <2>6. \A j \in i + 1 .. n : t <= ps[j].start
    <3> SUFFICES ASSUME NEW j \in i + 1 .. n PROVE t <= ps[j].start  OBVIOUS
    <3>1. i < n /\ i + 1 \in 1 .. n /\ j \in 1 .. n  BY <1>2
    <3>2. ps[i + 1].start <= ps[j].start  
      <4>1. CASE j = i + 1  BY <4>1, <3>1, <2>3
      <4>2. CASE j # i + 1  
        <5>1. i + 1 < j  BY <4>2, <1>2
        <5> QED BY <5>1, <3>1, <2>1
      <4> QED BY <4>1, <4>2
    <3> QED BY <3>1, <3>2, <2>2, <2>3
  <2>7. \A j \in 1 .. i : ps[j].start <= t
    <3> SUFFICES ASSUME NEW j \in 1 .. i PROVE ps[j].start <= t  OBVIOUS
    <3>1. j \in 1 .. n  BY <1>2
    <3>2. ps[j].start <= ps[i].start
      <4>1. CASE j = i  BY <4>1, <3>1, <2>3
      <4>2. CASE j # i
        <5>1. j < i  BY <4>2, <1>2
        <5> QED BY <5>1, <3>1, <1>2, <2>1
      <4> QED BY <4>1, <4>2
    <3> QED BY <3>1, <3>2, <1>2, <2>2, <2>3
  <2> SUFFICES ASSUME NEW j \in 1 .. n + 1, NEW k \in 1 .. n + 1, j < k
               PROVE  qs[j].start <= qs[k].start
    <3>1. DOMAIN qs = 1 .. n + 1  BY <1>9, <1>2, PlacesAreFinite
    <3> QED BY <3>1 DEF InOrder
  <2>8. CASE k <= i
    <3>1. j \in 1 .. i /\ k \in 1 .. i /\ j \in 1 .. n /\ k \in 1 .. n  BY <1>2, <2>8
    <3> QED BY <3>1, <2>1, <2>4
  <2>9. CASE k = i + 1
    <3>1. j \in 1 .. i  BY <1>2, <2>9
    <3> QED BY <3>1, <2>2, <2>4, <2>7, <2>9
  <2>10. CASE k > i + 1
    <3>1. k \in i + 2 .. n + 1 /\ k - 1 \in 1 .. n  BY <1>2, <2>10
    <3>2. qs[k].start = ps[k - 1].start /\ k - 1 \in i + 1 .. n  BY <3>1, <2>5
    <3>3. CASE j <= i
      <4>1. j \in 1 .. i /\ j \in 1 .. n /\ j < k - 1  BY <1>2, <2>10, <3>3
      <4> QED BY <4>1, <3>1, <3>2, <2>1, <2>4
    <3>4. CASE j = i + 1  BY <3>2, <3>4, <2>2, <2>6
    <3>5. CASE j > i + 1
      <4>1. j \in i + 2 .. n + 1 /\ j - 1 \in 1 .. n /\ j - 1 < k - 1  BY <1>2, <3>5
      <4> QED BY <4>1, <3>1, <3>2, <2>1, <2>5
    <3> QED BY <1>2, <3>3, <3>4, <3>5
  <2> QED BY <1>2, <2>8, <2>9, <2>10
<1>14. PeriodsOf(out) = qs /\ PeriodsOf(in) = ps
  <2>1. SortedPeriods(qs) = qs  BY <1>9, <1>13, SortedIsIdempotent
  <2> QED BY <2>1, <1>12 DEF PeriodsOf, ps
<1>15. Valid(out)
  <2>1. \A j \in 1 .. n : /\ ps[j].tariff \subseteq DOMAIN in.tariffs
                          /\ \A v \in ps[j].volume["ENERGY"] : v >= 0
    BY <1>2 DEF Valid, ps
  <2>2. \A q \in {one, two} : /\ q.tariff \subseteq DOMAIN in.tariffs
                              /\ \A v \in q.volume["ENERGY"] : v >= 0
    BY <1>2, <1>6, <1>8, <2>1 DEF p
  <2>3. ASSUME NEW k \in DOMAIN qs
        PROVE  /\ qs[k].tariff \subseteq DOMAIN in.tariffs
               /\ \A v \in qs[k].volume["ENERGY"] : v >= 0
    <3>1. k \in 1 .. n + 1  BY <1>9, <1>2, PlacesAreFinite
    <3>2. CASE k < i
      <4>1. k \in 1 .. i - 1 /\ k \in 1 .. n  BY <1>2, <3>1, <3>2
      <4> QED BY <4>1, <1>9, <2>1
    <3>3. CASE k \in {i, i + 1}  BY <3>3, <1>9, <2>2
    <3>4. CASE k > i + 1
      <4> DEFINE m == k - 1
      <4>1. m \in i + 1 .. n /\ m \in 1 .. n /\ m + 1 = k  BY <1>2, <3>1, <3>4
      <4> HIDE DEF m
      <4>2. qs[m + 1] = ps[m]  BY <4>1, <1>9
      <4> QED BY <4>1, <4>2, <2>1
    <3> QED BY <1>2, <3>1, <3>2, <3>3, <3>4
  <2> HIDE DEF out
  <2> QED BY <1>12, <2>3, Zenon DEF Valid
<1> QED BY <1>11, <1>12, <1>14, <1>15 DEF SplitSession

\* At a tick no period starts later.
LEMMA BegunInTime ==
    ASSUME NEW in \in Inputs, NEW tick \in Int
    PROVE  LET cut == Truncate(in, tick)
           IN  /\ cut.periods = PeriodsOf(cut) /\ cut.end = tick
               /\ \A j \in DOMAIN cut.periods : cut.periods[j].start <= tick
<1> DEFINE cut == Truncate(in, tick)
           ps == PeriodsOf(in)
           qs == PeriodsOf(cut)
           n == Begun(in, tick)
<1>1. /\ cut.periods = qs /\ cut.end = tick
      /\ {j \in DOMAIN ps : ps[j].start <= tick} = 1 .. n
      /\ qs \in Seq(Periods) /\ Len(qs) = n
      /\ \A j \in 1 .. n : qs[j].start = ps[j].start
  BY TruncateFacts
<1> HIDE DEF cut, ps, qs, n
<1>2. DOMAIN qs = 1 .. n  BY <1>1
<1>3. \A j \in 1 .. n : ps[j].start <= tick  BY <1>1
<1>4. \A j \in DOMAIN qs : qs[j].start <= tick  BY <1>1, <1>2, <1>3
<1> QED BY <1>1, <1>4 DEF cut, qs

\* Reporting one period as two changes no cost, whatever its volumes and the
\* instant.  (Calculate; priceSessionDimension)
THEOREM SplittingCostsNothing == Spec => []SplittingIsFree
<1>1. IInv => SplittingIsFree
  <2> DEFINE ps == now.periods
             n == Len(ps)
             end(i) == IF i < n THEN ps[i + 1].start ELSE now.end
             mid(i) == ps[i].start + (end(i) - ps[i].start) \div 2
             half(i) == Split(now, i, mid(i))
  <2> SUFFICES ASSUME IInv, Priced, NEW i \in 1 .. n,
                      Found(half(i)).act[i + 1] = Found(now).act[i]
               PROVE  /\ Calculate(half(i), opts).total.before = rep.total.before
                      /\ \A d \in Dims : Calculate(half(i), opts).cost[d].before = rep.cost[d].before
    BY Zenon DEF SplittingIsFree
  <2> DEFINE tick == series[Len(series)].tick
  <2>1. Started /\ rep.error = "none"  BY DEF Priced
  <2>2. /\ now \in Inputs /\ opts \in EngineOptions /\ rep = Calculate(now, opts)
        /\ cdr \in Inputs /\ now = Truncate(cdr, tick) /\ tick \in Int
    BY <2>1, LatestPoint
  <2>3. ps = PeriodsOf(now) /\ now.end = tick /\ \A j \in DOMAIN ps : ps[j].start <= tick
    BY <2>2, BegunInTime
  <2>4. Valid(now) /\ ps \in Seq(Periods) /\ InOrder(ps)
    <3>1. Valid(now)  BY <2>1, <2>2, PricedPoint
    <3> QED BY <3>1, <2>2, <2>3, ValidInputs
  <2>5. /\ n \in Nat /\ DOMAIN ps = 1 .. n /\ \A j \in 1 .. n : ps[j].start \in Int
    <3>1. \A r \in Periods : r.start \in Int  BY DEF Periods
    <3> QED BY <3>1, <2>4, PlacesAreFinite
  <2>6. \A j \in 1 .. n : ps[j].start <= now.end  BY <2>3, <2>5
  <2>7. now.end \in Int  BY <2>2 DEF Inputs
  <2> DEFINE s == ps[i].start
             e == end(i)
  <2>8. s \in Int /\ e \in Int /\ s <= e
    <3>1. CASE i < n
      <4>1. i + 1 \in 1 .. n /\ i < i + 1  BY <2>5, <3>1
      <4> QED BY <4>1, <3>1, <2>4, <2>5 DEF InOrder
    <3>2. CASE ~ (i < n)  BY <3>2, <2>5, <2>6, <2>7
    <3> QED BY <3>1, <3>2
  <2>9. mid(i) \in Int /\ ps[i].start <= mid(i) /\ (i < n => mid(i) <= ps[i + 1].start)
    <3>1. i < n => e = ps[i + 1].start  OBVIOUS
    <3>2. mid(i) = s + (e - s) \div 2  OBVIOUS
    <3> HIDE DEF s, e, mid, end
    <3>3. mid(i) \in Int /\ s <= mid(i) /\ mid(i) <= e  BY <2>8, <3>2
    <3> QED BY <3>1, <3>3 DEF s
  <2> DEFINE m == mid(i)
  <2> HIDE DEF mid, s, e
  <2>10. SplitSession(now, Split(now, i, m), i)
    <3> HIDE DEF m
    <3> QED BY <2>2, <2>3, <2>4, <2>9, SplitIsSplit DEF m
  <2>11. ActiveOf(half(i), opts)[i + 1] = ActiveOf(now, opts)[i]  BY FoundIsOf
  <2> DEFINE b == half(i)
  <2>12. /\ SplitSession(now, b, i) /\ ActiveOf(b, opts)[i + 1] = ActiveOf(now, opts)[i]
         /\ Calculate(now, opts).error = "none"
    BY <2>1, <2>2, <2>10, <2>11
  <2> HIDE DEF b
  <2>13. /\ Calculate(b, opts).total.before = Calculate(now, opts).total.before
         /\ \A d \in Dims : Calculate(b, opts).cost[d].before = Calculate(now, opts).cost[d].before
    BY <2>2, <2>12, SplitBill
  <2> QED BY <2>2, <2>13 DEF b
<1> QED BY <1>1, Invariance, PTL

-----------------------------------------------------------------------------
(* The curve: every step of the computation is monotone.                    *)

\* More of it takes no fewer whole units.
LEMMA DivisionIsMonotone ==
    ASSUME NEW m \in Int, NEW n \in Int, m <= n, NEW d \in Nat \ {0}
    PROVE  m \div d <= n \div d
<1> DEFINE p == m \div d
           q == n \div d
<1>1. /\ p \in Int /\ q \in Int
      /\ m % d \in 0 .. d - 1 /\ m = d * p + (m % d)
      /\ n % d \in 0 .. d - 1 /\ n = d * q + (n % d)
  BY DivisionFacts
<1> HIDE DEF p, q
<1>2. SUFFICES ASSUME p > q PROVE FALSE
  BY <1>1 DEF p, q
<1>3. p - (q + 1) \in Nat  BY <1>1, <1>2
<1>4. d * (p - (q + 1)) \in Nat  BY <1>3
<1>5. d * p = d * q + d + d * (p - (q + 1))  BY <1>1
<1>6. d * p \in Int /\ d * q \in Int  BY <1>1
<1>7. m >= d * p /\ n <= d * q + d - 1  BY <1>1, <1>6
<1> QED BY <1>4, <1>5, <1>6, <1>7

\* A larger amount rounds to no smaller one (roundOCPI).
LEMMA RoundBankIsMonotone ==
    ASSUME NEW m \in Int, NEW n \in Int, m <= n, NEW d \in Nat \ {0}
    PROVE  RoundBank(m, d) <= RoundBank(n, d)
<1> DEFINE p == m \div d
           q == n \div d
           r == m % d
           s == n % d
<1>1. /\ p \in Int /\ q \in Int /\ r \in 0 .. d - 1 /\ s \in 0 .. d - 1
      /\ m = d * p + r /\ n = d * q + s
  BY DivisionFacts
<1>2. p <= q  BY DivisionIsMonotone
<1>3. /\ RoundBank(m, d) = IF 2 * r < d \/ (2 * r = d /\ p % 2 = 0) THEN p ELSE p + 1
      /\ RoundBank(n, d) = IF 2 * s < d \/ (2 * s = d /\ q % 2 = 0) THEN q ELSE q + 1
  BY Zenon DEF RoundBank
<1> HIDE DEF p, q, r, s
<1>4. CASE p < q  BY <1>1, <1>3, <1>4
<1>5. CASE p = q
  <2>1. r <= s  BY <1>1, <1>5
  <2> QED BY <2>1, <1>1, <1>3, <1>5
<1> QED BY <1>1, <1>2, <1>4, <1>5

\* A larger volume is billed no fewer steps (stepBill).
LEMMA StepBillIsMonotone ==
    ASSUME NEW m \in Int, NEW n \in Int, m <= n, NEW step \in Nat \ {0}
    PROVE  StepBill(m, step) <= StepBill(n, step)
<1> DEFINE p == (-m) \div step
           q == (-n) \div step
<1>1. q <= p /\ p \in Int /\ q \in Int
  BY DivisionIsMonotone, DivisionFacts
<1>2. StepBill(m, step) = -p * step /\ StepBill(n, step) = -q * step
  BY DEF StepBill
<1> HIDE DEF p, q
<1>3. p - q \in Nat  BY <1>1
<1>4. (p - q) * step \in Nat  BY <1>3
<1>5. -q * step = -p * step + (p - q) * step /\ p * step \in Int /\ q * step \in Int  BY <1>1
<1> QED BY <1>2, <1>4, <1>5

\* A larger amount rounds to no smaller one (roundCurrency).
LEMMA RoundCurrencyIsMonotone ==
    ASSUME NEW x \in Int, NEW y \in Int, x <= y, NEW unit \in Nat \ {0}
    PROVE  RoundCurrency(x, unit) <= RoundCurrency(y, unit)
<1>1. 2 * unit \in Nat \ {0}  OBVIOUS
<1> DEFINE up(z) == (2 * z + unit) \div (2 * unit)
           down(z) == (unit - 2 * z) \div (2 * unit)
<1>2. \A z \in Int : up(z) \in Int /\ down(z) \in Int
  BY <1>1, DivisionFacts
<1>3. \A z \in Int : RoundCurrency(z, unit) = IF z >= 0 THEN up(z) * unit ELSE -(down(z) * unit)
  BY DEF RoundCurrency
<1>4. \A u, v \in Int : u <= v => u * unit <= v * unit
  <2> TAKE u, v \in Int
  <2> HAVE u <= v
  <2>1. (v - u) \in Nat  OBVIOUS
  <2>2. (v - u) * unit \in Nat  BY <2>1
  <2>3. v * unit = u * unit + (v - u) * unit /\ u * unit \in Int  OBVIOUS
  <2> QED BY <2>2, <2>3
<1>5. \A z \in Int : z >= 0 => up(z) >= 0
  <2> TAKE z \in Int
  <2> HAVE z >= 0
  <2>1. 0 \div (2 * unit) <= up(z)  BY <1>1, DivisionIsMonotone
  <2>2. 0 \div (2 * unit) = 0  BY <1>1
  <2> QED BY <2>1, <2>2, <1>2
<1>6. \A z \in Int : z < 0 => down(z) >= 0
  <2> TAKE z \in Int
  <2> HAVE z < 0
  <2>1. 0 \div (2 * unit) <= down(z)  BY <1>1, DivisionIsMonotone
  <2>2. 0 \div (2 * unit) = 0  BY <1>1
  <2> QED BY <2>1, <2>2, <1>2
<1>7. up(x) <= up(y) /\ down(y) <= down(x)
  BY <1>1, DivisionIsMonotone
<1> HIDE DEF up, down
<1>8. CASE x >= 0  BY <1>8, <1>2, <1>3, <1>4, <1>7
<1>9. CASE y < 0
  <2>1. down(y) * unit <= down(x) * unit  BY <1>2, <1>4, <1>7
  <2>2. down(y) * unit \in Int /\ down(x) * unit \in Int  BY <1>2
  <2> QED BY <2>1, <2>2, <1>9, <1>3
<1>10. CASE x < 0 /\ y >= 0
  <2>1. 0 * unit <= down(x) * unit /\ 0 * unit <= up(y) * unit  BY <1>10, <1>2, <1>4, <1>5, <1>6
  <2>2. down(x) * unit \in Int /\ up(y) * unit \in Int  BY <1>2
  <2> QED BY <2>1, <2>2, <1>10, <1>3
<1> QED BY <1>8, <1>9, <1>10

\* The further a period has got, the more of its volume truncateCdr gives it.
LEMMA ScaleIsMonotone ==
    ASSUME NEW v \in Nat, NEW e \in Nat, NEW f \in Nat, e <= f, NEW length \in Int
    PROVE  /\ Scale(v, e, length) \in Nat
           /\ Scale(v, e, length) <= Scale(v, f, length)
<1> DEFINE share(x) == (2 * v * x + length) \div (2 * length)
<1>1. \A x \in Nat : Scale(v, x, length) = IF x >= length THEN v ELSE share(x)
  BY DEF Scale
<1>2. \A x, y \in Nat : x <= y => v * x \in Nat /\ v * y \in Nat /\ v * x <= v * y
  <2> TAKE x, y \in Nat
  <2> HAVE x <= y
  <2>1. y - x \in Nat  OBVIOUS
  <2>2. v * (y - x) \in Nat  BY <2>1
  <2>3. v * y = v * x + v * (y - x) /\ v * x \in Nat  OBVIOUS
  <2> QED BY <2>2, <2>3
<1>3. ASSUME e < length PROVE \A x \in Nat : x < length => share(x) \in 0 .. v
  <2>1. length \in Nat \ {0} /\ 2 * length \in Nat \ {0}  BY <1>3
  <2> TAKE x \in Nat
  <2> HAVE x < length
  <2>2. v * x \in Nat /\ v * x <= v * length /\ v * length \in Nat  BY <1>2, <2>1
  <2>3. share(x) \in Int  BY <2>1, <2>2, DivisionFacts
  <2>4. 0 \div (2 * length) <= share(x)
    <3>1. 2 * v * x + length \in Int /\ 0 <= 2 * v * x + length  BY <2>1, <2>2
    <3> QED BY <3>1, <2>1, DivisionIsMonotone
  <2>5. 0 \div (2 * length) = 0  BY <2>1
  <2>6. 2 * v * x + length = (2 * length) * share(x) + ((2 * v * x + length) % (2 * length))
        /\ ((2 * v * x + length) % (2 * length)) \in 0 .. 2 * length - 1
    <3>1. 2 * v * x + length \in Int  BY <2>1, <2>2
    <3> QED BY <3>1, <2>1, DivisionFacts
  <2> HIDE DEF share
  <2>7. share(x) <= v
    <3>1. SUFFICES ASSUME share(x) >= v + 1 PROVE FALSE  BY <2>3
    <3>2. share(x) - (v + 1) \in Nat  BY <3>1, <2>3
    <3>3. length * (share(x) - (v + 1)) \in Nat  BY <3>2, <2>1
    <3>4. length * share(x) = length * (share(x) - (v + 1)) + v * length + length  BY <2>1, <2>3
    <3>5. (2 * length) * share(x) = 2 * (length * share(x)) /\ length * share(x) \in Int  BY <2>1, <2>3
    <3>6. 2 * v * x = 2 * (v * x)  BY <2>2
    <3> QED BY <3>3, <3>4, <3>5, <3>6, <2>1, <2>2, <2>6
  <2> QED BY <2>3, <2>4, <2>5, <2>7
<1>4. ASSUME f < length PROVE share(e) <= share(f)
  <2>1. 2 * length \in Nat \ {0}  BY <1>4
  <2>2. v * e \in Nat /\ v * f \in Nat /\ v * e <= v * f  BY <1>2
  <2>3. 2 * v * e = 2 * (v * e) /\ 2 * v * f = 2 * (v * f)  OBVIOUS
  <2>4. 2 * v * e + length <= 2 * v * f + length
        /\ 2 * v * e + length \in Int /\ 2 * v * f + length \in Int
    BY <2>2, <2>3
  <2> QED BY <2>1, <2>4, DivisionIsMonotone
<1> HIDE DEF share
<1>5. CASE f < length  BY <1>1, <1>3, <1>4, <1>5
<1>6. CASE e < length /\ f >= length  BY <1>1, <1>3, <1>6
<1>7. CASE e >= length  BY <1>1, <1>7
<1> QED BY <1>5, <1>6, <1>7

\* A sum of multiples is a multiple of the sum.
LEMMA SumIsMultiplied ==
    ASSUME NEW f, NEW g, NEW S, IsFiniteSet(S), NEW p \in Int,
           \A x \in S : f[x] \in Int /\ g[x] = f[x] * p
    PROVE  SumFunctionOnSet(g, S) = SumFunctionOnSet(f, S) * p
<1> DEFINE A == {s \in SUBSET S : SumFunctionOnSet(g, s) = SumFunctionOnSet(f, s) * p}
<1>1. {} \in A
  <2>1. SumFunctionOnSet(g, {}) = 0 /\ SumFunctionOnSet(f, {}) = 0  BY SumOfNone
  <2> QED BY <2>1
<1>2. ASSUME NEW s \in SUBSET S, s # {}, \A x \in s : s \ {x} \in A
      PROVE  s \in A
  <2>1. PICK x \in s : TRUE  BY <1>2
  <2>2. IsFiniteSet(s) /\ IsFiniteSet(s \ {x})  BY FS_Subset
  <2>3. \A y \in s : f[y] \in Int /\ g[y] \in Int  OBVIOUS
  <2>4. SumFunctionOnSet(g, s) = g[x] + SumFunctionOnSet(g, s \ {x})
    BY <2>2, <2>3, SumTakesAny
  <2>5. SumFunctionOnSet(f, s) = f[x] + SumFunctionOnSet(f, s \ {x})
    BY <2>2, <2>3, SumTakesAny
  <2>6. SumFunctionOnSet(f, s \ {x}) \in Int
    <3>1. \A y \in s \ {x} : f[y] \in Int  BY <2>3
    <3> QED BY <2>2, <3>1, SumIsInt
  <2>7. SumFunctionOnSet(g, s \ {x}) = SumFunctionOnSet(f, s \ {x}) * p  BY <1>2
  <2>8. g[x] = f[x] * p /\ f[x] \in Int  OBVIOUS
  <2>9. SumFunctionOnSet(g, s) = SumFunctionOnSet(f, s) * p
    BY <2>4, <2>5, <2>6, <2>7, <2>8
  <2> QED BY <2>9
<1> HIDE DEF A
<1>3. \A s \in SUBSET S : s \in A  BY <1>1, <1>2, FiniteSetInduction
<1>4. S \in A  BY <1>3
<1> QED BY <1>4 DEF A

\* A sum grows with its terms, and with terms that are not negative.
LEMMA SumGrows ==
    ASSUME NEW f, NEW g, NEW T, IsFiniteSet(T), NEW S \in SUBSET T,
           \A x \in S : f[x] \in Int /\ f[x] <= g[x],
           \A x \in T : g[x] \in Nat
    PROVE  /\ SumFunctionOnSet(f, S) <= SumFunctionOnSet(g, T)
           /\ SumFunctionOnSet(f, S) \in Int /\ SumFunctionOnSet(g, T) \in Int
<1> DEFINE h == [x \in T |-> IF x \in S THEN f[x] ELSE 0]
<1>1. /\ \A x \in T : h[x] \in Int /\ h[x] <= g[x] /\ g[x] \in Int
      /\ \A x \in T \ S : h[x] = 0
      /\ \A x \in S : h[x] = f[x]
  OBVIOUS
<1> HIDE DEF h
<1>2. IsFiniteSet(S)  BY FS_Subset
<1>3. SumFunctionOnSet(h, T) = SumFunctionOnSet(h, S)  BY <1>1, SumSkipsZeros
<1>4. SumFunctionOnSet(h, S) = SumFunctionOnSet(f, S)  BY <1>1, <1>2, SumOfEquals
<1>5. SumFunctionOnSet(h, T) <= SumFunctionOnSet(g, T)  BY <1>1, SumIsMonotone
<1>6. SumFunctionOnSet(f, S) \in Int  BY <1>2, SumIsInt
<1>7. SumFunctionOnSet(g, T) \in Int  BY <1>1, SumIsInt
<1> QED BY <1>3, <1>4, <1>5, <1>6, <1>7

\* The ledger of a session that has gone on: it has the entries it had, with no
\* less volume, and perhaps others; all at one rate.
LedgerGrown(L, M) ==
    /\ IsLedger(L) /\ IsLedger(M) /\ DOMAIN L \subseteq DOMAIN M
    /\ \A i \in DOMAIN L : L[i].comp = M[i].comp /\ L[i].volume <= M[i].volume
    /\ \A i \in DOMAIN M : M[i].volume >= 0 /\ M[i].comp.price >= 0
    /\ \A i, j \in DOMAIN M : /\ M[i].comp.price = M[j].comp.price
                              /\ M[i].comp.step = M[j].comp.step

\* A ledger that has grown is of no less volume.
LEMMA GrownVolume ==
    ASSUME NEW L, NEW M, LedgerGrown(L, M)
    PROVE  TotalVolume(L) <= TotalVolume(M) /\ TotalVolume(L) \in Int /\ TotalVolume(M) \in Nat
<1> DEFINE f == [i \in DOMAIN L |-> L[i].volume]
           g == [i \in DOMAIN M |-> M[i].volume]
           S == DOMAIN L
           T == DOMAIN M
<1>1. IsFiniteSet(T) /\ S \in SUBSET T  BY DEF LedgerGrown, IsLedger
<1>2. \A x \in S : f[x] \in Int /\ f[x] <= g[x]
  BY <1>1 DEF LedgerGrown, IsLedger, LedgerEntries
<1>3. \A x \in T : g[x] \in Nat  BY DEF LedgerGrown, IsLedger, LedgerEntries
<1>4. DOMAIN f = S /\ DOMAIN g = T  OBVIOUS
<1>5. TotalVolume(L) = SumFunctionOnSet(f, S) /\ TotalVolume(M) = SumFunctionOnSet(g, T)
  BY DEF TotalVolume, SumFunction
<1> HIDE DEF f, g, S, T
<1>6. SumFunctionOnSet(f, S) <= SumFunctionOnSet(g, T)
      /\ SumFunctionOnSet(f, S) \in Int /\ SumFunctionOnSet(g, T) \in Int
  BY <1>1, <1>2, <1>3, SumGrows
<1>7. 0 <= SumFunctionOnSet(g, T)
  <2>1. SumFunctionOnSet(f, {}) = 0  BY SumOfNone
  <2>2. \A x \in {} : f[x] \in Int /\ f[x] <= g[x]  OBVIOUS
  <2>3. {} \in SUBSET T  OBVIOUS
  <2>4. SumFunctionOnSet(f, {}) <= SumFunctionOnSet(g, T)
    BY <1>1, <1>3, <2>2, <2>3, SumGrows
  <2> QED BY <2>1, <2>4
<1> QED BY <1>5, <1>6, <1>7

\* At one rate, what a dimension costs is its volume, with the step, at that
\* price.
LEMMA RawAtOneRate ==
    ASSUME NEW L, IsLedger(L), NEW p \in Int, \A i \in DOMAIN L : L[i].comp.price = p
    PROVE  Raw(L) = TotalVolume(L) * p
<1> DEFINE f == [i \in DOMAIN L |-> L[i].volume]
           g == [i \in DOMAIN L |-> L[i].volume * L[i].comp.price]
           S == DOMAIN L
<1>1. IsFiniteSet(S) /\ DOMAIN f = S /\ DOMAIN g = S  BY DEF IsLedger
<1>2. \A x \in S : f[x] \in Int /\ g[x] = f[x] * p  BY DEF IsLedger, LedgerEntries
<1>3. TotalVolume(L) = SumFunctionOnSet(f, S) /\ Raw(L) = SumFunctionOnSet(g, S)
  BY DEF TotalVolume, Raw, SumFunction
<1> HIDE DEF f, g, S
<1> QED BY <1>1, <1>2, <1>3, SumIsMultiplied

\* A dimension of a session costs no less as the session goes on, at one rate,
\* unless parking has ended the rounding of charging time (priceSessionDimension).
LEMMA GrownCost ==
    ASSUME NEW d \in Volumed, NEW L, NEW M, LedgerGrown(L, M),
           NEW x, NEW y, y => x, ~ StepFails(d, L, x), ~ StepFails(d, M, y)
    PROVE  SessionCost(d, L, x).before <= SessionCost(d, M, y).before
<1> DEFINE rl == Raw(WithStep(d, L, x))
           rm == Raw(WithStep(d, M, y))
<1>1. IsLedger(L) /\ IsLedger(M)  BY DEF LedgerGrown
<1>2. /\ SessionCost(d, L, x).before = RoundBank(rl, Base[d])
      /\ SessionCost(d, M, y).before = RoundBank(rm, Base[d])
  BY <1>1, SessionCostFacts
<1>3. Base[d] \in Nat \ {0}  BY BaseAssumption
<1>4. ASSUME DOMAIN L = {} PROVE rl = 0
  <2>1. Added(d, L, x) = 0  BY <1>1, <1>4, AddedFacts
  <2>2. WithStep(d, L, x) = L  BY <2>1 DEF WithStep, Added
  <2>3. Raw(L) = TotalVolume(L) * 0
    <3>1. \A i \in DOMAIN L : L[i].comp.price = 0  BY <1>4
    <3> QED BY <1>1, <3>1, RawAtOneRate
  <2> QED BY <1>1, <2>2, <2>3, TotalVolumeTyped
<1>5. CASE DOMAIN M = {}
  <2>1. DOMAIN L = {}  BY <1>5 DEF LedgerGrown
  <2>2. rl = 0  BY <1>4, <2>1
  <2>3. rm = 0
    <3>1. Added(d, M, y) = 0  BY <1>1, <1>5, AddedFacts
    <3>2. WithStep(d, M, y) = M  BY <3>1 DEF WithStep, Added
    <3>3. \A i \in DOMAIN M : M[i].comp.price = 0  BY <1>5
    <3>4. Raw(M) = TotalVolume(M) * 0  BY <1>1, <3>3, RawAtOneRate
    <3> QED BY <1>1, <3>2, <3>4, TotalVolumeTyped
  <2>4. RoundBank(0, Base[d]) \in Int  BY <1>3, RoundBankIsNearest
  <2> QED BY <1>2, <2>2, <2>3, <2>4
<1>6. CASE DOMAIN M # {}
  <2> DEFINE p == M[Max(DOMAIN M)].comp.price
             s == LastStep(M)
             a == Added(d, L, x)
             b == Added(d, M, y)
             v == TotalVolume(L)
             w == TotalVolume(M)
  <2>1. Max(DOMAIN M) \in DOMAIN M /\ s \in Int  BY <1>1, <1>6, LastEntry
  <2>2. p \in Nat
    BY <2>1 DEF LedgerGrown, IsLedger, LedgerEntries, PriceComponents
  <2>3. /\ \A i \in DOMAIN M : M[i].comp.price = p /\ M[i].comp.step = s
        /\ \A i \in DOMAIN L : L[i].comp.price = p /\ L[i].comp.step = s
    BY <2>1 DEF LedgerGrown, LastStep
  <2>4. v \in Int /\ w \in Nat /\ v <= w  BY GrownVolume
  <2>5. Raw(M) = w * p /\ Raw(L) = v * p  BY <1>1, <2>2, <2>3, RawAtOneRate
  <2>6. rm = w * p + b * p  BY <1>1, <1>6, <2>5, SessionCostFacts
  <2>7. a \in Nat /\ b \in Nat  BY <1>1, AddedFacts
  <2>8. CASE DOMAIN L = {}
    <3>1. rl = 0  BY <1>4, <2>8
    <3>2. w * p \in Nat /\ b * p \in Nat  BY <2>2, <2>4, <2>7
    <3>3. 0 <= rm /\ rm \in Int  BY <2>6, <3>2
    <3> QED BY <1>2, <1>3, <3>1, <3>3, RoundBankIsMonotone
  <2>9. CASE DOMAIN L # {}
    <3>1. Max(DOMAIN L) \in DOMAIN L  BY <1>1, <2>9, LastEntry
    <3>2. LastStep(L) = s /\ L[Max(DOMAIN L)].comp.price = p  BY <2>3, <3>1 DEF LastStep
    <3>3. rl = v * p + a * p  BY <1>1, <2>5, <2>9, <3>2, SessionCostFacts
    <3>4. BilledVolume(d, L, x) = v + a /\ BilledVolume(d, M, y) = w + b
      <4>1. BilledVolume(d, L, x) \in Int /\ BilledVolume(d, M, y) \in Int
        <5>1. Stepped(d, s, x) => s \in Nat \ {0}  BY <2>1, <2>9, <3>2 DEF StepFails
        <5>2. Stepped(d, s, y) => s \in Nat \ {0}  BY <1>6, <2>1 DEF StepFails
        <5> QED BY <5>1, <5>2, <2>4, <3>2, StepBillIsTheNextStep DEF BilledVolume
      <4> QED BY <4>1, <2>4 DEF Added
    <3>5. BilledVolume(d, L, x) <= BilledVolume(d, M, y)
      <4>1. CASE Stepped(d, s, x)
        <5>1. s \in Nat \ {0}  BY <2>1, <2>9, <3>2, <4>1 DEF StepFails
        <5>2. Stepped(d, s, y)  BY <4>1 DEF Stepped
        <5>3. BilledVolume(d, L, x) = StepBill(v, s) /\ BilledVolume(d, M, y) = StepBill(w, s)
          BY <1>6, <2>9, <3>2, <4>1, <5>2 DEF BilledVolume
        <5> QED BY <2>4, <5>1, <5>3, StepBillIsMonotone
      <4>2. CASE ~ Stepped(d, s, x)
        <5>1. BilledVolume(d, L, x) = v  BY <3>2, <4>2 DEF BilledVolume
        <5> QED BY <2>4, <2>7, <3>4, <5>1
      <4> QED BY <4>1, <4>2
    <3> HIDE DEF p, s, a, b, v, w, rl, rm
    <3>6. (w + b) - (v + a) \in Nat  BY <2>4, <2>7, <3>4, <3>5
    <3>7. ((w + b) - (v + a)) * p \in Nat  BY <2>2, <3>6
    <3>8. rm = rl + ((w + b) - (v + a)) * p  BY <2>2, <2>4, <2>6, <2>7, <3>3
    <3>9. rl \in Int /\ rm \in Int /\ rl <= rm
      <4>1. v * p \in Int /\ a * p \in Int  BY <2>2, <2>4, <2>7
      <4>2. rl \in Int  BY <3>3, <4>1
      <4> QED BY <3>7, <3>8, <4>2
    <3> QED BY <1>2, <1>3, <3>9, RoundBankIsMonotone
  <2> QED BY <2>8, <2>9
<1> QED BY <1>5, <1>6

\* So do its fees, of which there are only more.
LEMMA GrownFees ==
    ASSUME NEW T, IsFiniteSet(T), T \subseteq MatchTypes, NEW S \in SUBSET T,
           \A m \in T : m.comp.price >= 0
    PROVE  FlatCost(S).before <= FlatCost(T).before
<1> DEFINE f == [fee \in S |-> fee.comp.price]
           g == [fee \in T |-> fee.comp.price]
<1>1. IsFiniteSet(S) /\ S \subseteq MatchTypes  BY FS_Subset
<1>2. /\ FlatCost(S).before = SumFunctionOnSet(f, S)
      /\ FlatCost(T).before = SumFunctionOnSet(g, T)
  BY <1>1, FlatCostTyped
<1>3. \A m \in T : m.comp.price \in Nat  BY DEF MatchTypes, PriceComponents
<1>4. /\ \A m \in S : f[m] \in Int /\ f[m] <= g[m]
      /\ \A m \in T : g[m] \in Nat
  BY <1>3
<1> HIDE DEF f, g
<1> QED BY <1>2, <1>4, SumGrows

\* No component of an ordinary session has a negative price.
LEMMA NothingIsPaidBack ==
    ASSUME NEW in \in Inputs, Valid(in), Ordinary(in), NEW o, NEW i \in DOMAIN PeriodsOf(in),
           NEW d \in Dims, NEW m \in ActiveOf(in, o)[i][d]
    PROVE  m.comp.price >= 0
<1> DEFINE ps == PeriodsOf(in)
           snap == Snapshots(in.start, in.end, ps, ZoneOf(in, o))
           t == CHOOSE x \in ps[i].tariff : TRUE
<1>1. ActiveOf(in, o)[i] = IF ps[i].tariff = {} THEN [x \in Dims |-> {}]
                           ELSE [x \in Dims |-> FirstMatch(in.tariffs, t, snap[i - 1], ps[i], x)]
  BY DEF ActiveOf, Active, ActiveComponents
<1>2. ps[i].tariff # {} /\ m \in FirstMatch(in.tariffs, t, snap[i - 1], ps[i], d)
  BY <1>1
<1>3. t \in DOMAIN in.tariffs
  <2>1. ps[i].tariff \subseteq DOMAIN in.tariffs  BY ValidInputs
  <2> QED BY <1>2, <2>1
<1>4. in.tariffs \in Seq(Tariffs)  BY DEF Inputs
<1> DEFINE s == snap[i - 1]
           p == ps[i]
<1> HIDE DEF t, s, p
<1>5. /\ m.element \in DOMAIN in.tariffs[t].elements
      /\ \E j \in DOMAIN in.tariffs[t].elements[m.element].components :
            m.comp = in.tariffs[t].elements[m.element].components[j]
  <2>1. m \in FirstMatch(in.tariffs, t, s, p, d)  BY <1>2 DEF s, p
  <2> QED BY <1>3, <1>4, <2>1, FirstMatchTyped
<1> QED BY <1>3, <1>5 DEF Ordinary

-----------------------------------------------------------------------------
(* A session that has gone on.                                              *)

\* What session a was metered is part of what b was, and priced by the same
\* components of the same tariffs.
Outgrows(a, b, o) ==
    /\ a \in Inputs /\ b \in Inputs /\ Valid(a) /\ Valid(b) /\ Ordinary(b)
    /\ a.tariffs = b.tariffs
    /\ Len(PeriodsOf(a)) <= Len(PeriodsOf(b))
    /\ \A i \in DOMAIN PeriodsOf(b) : \A d \in Volumed : Volume(PeriodsOf(b)[i], d) >= 0
    /\ \A i \in DOMAIN PeriodsOf(a) :
          /\ ActiveOf(a, o)[i] = ActiveOf(b, o)[i]
          /\ PeriodsOf(a)[i].tariff = PeriodsOf(b)[i].tariff
          /\ \A d \in Volumed : /\ PeriodsOf(a)[i].volume[d] = {} <=> PeriodsOf(b)[i].volume[d] = {}
                                /\ Volume(PeriodsOf(a)[i], d) <= Volume(PeriodsOf(b)[i], d)

\* The periods of dimension d that are priced are priced alike.
FlatRate(in, o, d) ==
    \A i, j \in DOMAIN LedgerOf(in, o, d) :
        /\ LedgerOf(in, o, d)[i].comp.price = LedgerOf(in, o, d)[j].comp.price
        /\ LedgerOf(in, o, d)[i].comp.step = LedgerOf(in, o, d)[j].comp.step

\* Its ledgers have grown.
LEMMA OutgrownLedgers ==
    ASSUME NEW a, NEW b, NEW o, Outgrows(a, b, o), NEW d \in Volumed, FlatRate(b, o, d)
    PROVE  LedgerGrown(LedgerOf(a, o, d), LedgerOf(b, o, d))
<1> DEFINE ps == PeriodsOf(a)
           qs == PeriodsOf(b)
           f == ActiveOf(a, o)
           g == ActiveOf(b, o)
           L == LedgerOf(a, o, d)
           M == LedgerOf(b, o, d)
<1>1. /\ a \in Inputs /\ b \in Inputs /\ Valid(a) /\ Valid(b) /\ Ordinary(b)
      /\ Len(ps) <= Len(qs)
      /\ \A i \in DOMAIN qs : Volume(qs[i], d) >= 0
      /\ \A i \in DOMAIN ps :
            /\ f[i] = g[i]
            /\ ps[i].volume[d] = {} <=> qs[i].volume[d] = {}
            /\ Volume(ps[i], d) <= Volume(qs[i], d)
  BY DEF Outgrows
<1>2. /\ ps \in Seq(Periods) /\ IsActive(f, ps) /\ qs \in Seq(Periods) /\ IsActive(g, qs)
  BY <1>1, ValidInputs
<1>3. \A i \in DOMAIN qs : \A m \in g[i][d] : m.comp.price >= 0
  BY <1>1, NothingIsPaidBack DEF Dims
<1>4. L = Ledger(ps, f, d) /\ M = Ledger(qs, g, d)  BY DEF LedgerOf
<1>5. \A i, j \in DOMAIN M : M[i].comp.price = M[j].comp.price /\ M[i].comp.step = M[j].comp.step
  BY DEF FlatRate
<1> HIDE DEF ps, qs, f, g, L, M
<1>6. /\ IsLedger(L) /\ DOMAIN L = {i \in DOMAIN ps : ps[i].volume[d] # {} /\ f[i][d] # {}}
      /\ \A i \in DOMAIN L : /\ L[i].volume = Volume(ps[i], d)
                             /\ L[i].comp = PricedBy(f, i, d).comp
  <2>1. IsLedger(L)  BY <1>2, <1>4, LedgerTyped
  <2>2. DOMAIN L = {i \in DOMAIN ps : ps[i].volume[d] # {} /\ f[i][d] # {}}
    BY <1>4 DEF Ledger
  <2>3. \A i \in DOMAIN L : L[i].volume = Volume(ps[i], d) /\ L[i].comp = PricedBy(f, i, d).comp
    BY <1>4 DEF Ledger, PricedBy
  <2> QED BY <2>1, <2>2, <2>3
<1>7. /\ IsLedger(M) /\ DOMAIN M = {i \in DOMAIN qs : qs[i].volume[d] # {} /\ g[i][d] # {}}
      /\ \A i \in DOMAIN M : /\ M[i].volume = Volume(qs[i], d)
                             /\ M[i].comp = PricedBy(g, i, d).comp
  <2>1. IsLedger(M)  BY <1>2, <1>4, LedgerTyped
  <2>2. DOMAIN M = {i \in DOMAIN qs : qs[i].volume[d] # {} /\ g[i][d] # {}}
    BY <1>4 DEF Ledger
  <2>3. \A i \in DOMAIN M : M[i].volume = Volume(qs[i], d) /\ M[i].comp = PricedBy(g, i, d).comp
    BY <1>4 DEF Ledger, PricedBy
  <2> QED BY <2>1, <2>2, <2>3
<1>8. DOMAIN ps \subseteq DOMAIN qs
  <2>1. /\ DOMAIN ps = 1 .. Len(ps) /\ DOMAIN qs = 1 .. Len(qs)
        /\ Len(ps) \in Nat /\ Len(qs) \in Nat
    BY <1>2
  <2> QED BY <2>1, <1>1
<1>9. \A i \in DOMAIN L : i \in DOMAIN ps /\ i \in DOMAIN qs /\ i \in DOMAIN M
  BY <1>1, <1>6, <1>7, <1>8
<1>10. ASSUME NEW i \in DOMAIN L
       PROVE  L[i].comp = M[i].comp /\ L[i].volume <= M[i].volume
  <2>1. i \in DOMAIN ps /\ i \in DOMAIN M  BY <1>9
  <2>2. f[i] = g[i] /\ Volume(ps[i], d) <= Volume(qs[i], d)  BY <2>1, <1>1
  <2>3. PricedBy(f, i, d) = PricedBy(g, i, d)  BY <2>2 DEF PricedBy
  <2> QED BY <1>6, <1>7, <2>1, <2>2, <2>3
<1>11. ASSUME NEW i \in DOMAIN M
       PROVE  M[i].volume >= 0 /\ M[i].comp.price >= 0
  <2>1. i \in DOMAIN qs /\ M[i].volume = Volume(qs[i], d)  BY <1>7
  <2>2. PricedBy(g, i, d) \in g[i][d]  BY <1>7 DEF PricedBy
  <2> QED BY <1>1, <1>3, <1>7, <2>1, <2>2
<1>12. DOMAIN L \subseteq DOMAIN M  BY <1>9
<1>13. LedgerGrown(L, M)
  BY <1>5, <1>6, <1>7, <1>10, <1>11, <1>12 DEF LedgerGrown
<1> QED BY <1>13 DEF L, M

\* Its fees and its tariffs are among those there are in the end.
LEMMA OutgrownRest ==
    ASSUME NEW a, NEW b, NEW o, Outgrows(a, b, o)
    PROVE  /\ Flats(ActiveOf(a, o)) \subseteq Flats(ActiveOf(b, o))
           /\ IsFiniteSet(Flats(ActiveOf(b, o))) /\ Flats(ActiveOf(b, o)) \subseteq MatchTypes
           /\ \A m \in Flats(ActiveOf(b, o)) : m.comp.price >= 0
           /\ UsedBy(a) \subseteq UsedBy(b)
<1> DEFINE ps == PeriodsOf(a)
           qs == PeriodsOf(b)
           f == ActiveOf(a, o)
           g == ActiveOf(b, o)
<1>1. /\ a \in Inputs /\ b \in Inputs /\ Valid(a) /\ Valid(b) /\ Ordinary(b)
      /\ Len(ps) <= Len(qs)
      /\ \A i \in DOMAIN ps : f[i] = g[i] /\ ps[i].tariff = qs[i].tariff
  BY DEF Outgrows
<1>2. /\ ps \in Seq(Periods) /\ IsActive(f, ps) /\ qs \in Seq(Periods) /\ IsActive(g, qs)
  BY <1>1, ValidInputs
<1>3. \A i \in DOMAIN qs : \A m \in g[i]["FLAT"] : m.comp.price >= 0
  BY <1>1, NothingIsPaidBack DEF Dims
<1>4. UsedBy(a) = UsedTariffs(ps) /\ UsedBy(b) = UsedTariffs(qs)  BY DEF UsedBy
<1> HIDE DEF ps, qs, f, g
<1>5. DOMAIN ps \subseteq DOMAIN qs
  <2>1. /\ DOMAIN ps = 1 .. Len(ps) /\ DOMAIN qs = 1 .. Len(qs)
        /\ Len(ps) \in Nat /\ Len(qs) \in Nat
    BY <1>2
  <2> QED BY <2>1, <1>1
<1>6. DOMAIN f = DOMAIN ps /\ DOMAIN g = DOMAIN qs  BY <1>2 DEF IsActive
<1>7. Flats(f) \subseteq Flats(g)
  <2> SUFFICES ASSUME NEW m \in Flats(f) PROVE m \in Flats(g)  OBVIOUS
  <2>1. PICK i \in DOMAIN ps : m \in f[i]["FLAT"]  BY <1>6 DEF Flats
  <2>2. i \in DOMAIN g /\ m \in g[i]["FLAT"]  BY <2>1, <1>1, <1>5, <1>6
  <2> QED BY <2>2 DEF Flats
<1>8. IsFiniteSet(Flats(g)) /\ Flats(g) \subseteq MatchTypes  BY <1>2, FlatsTyped
<1>9. \A m \in Flats(g) : m.comp.price >= 0  BY <1>3, <1>6 DEF Flats
<1>10. UsedTariffs(ps) \subseteq UsedTariffs(qs)
  <2> SUFFICES ASSUME NEW t \in UsedTariffs(ps) PROVE t \in UsedTariffs(qs)  OBVIOUS
  <2>1. PICK i \in DOMAIN ps : t \in ps[i].tariff  BY DEF UsedTariffs
  <2>2. i \in DOMAIN qs /\ t \in qs[i].tariff  BY <2>1, <1>1, <1>5
  <2> QED BY <2>2 DEF UsedTariffs
<1> QED BY <1>4, <1>7, <1>8, <1>9, <1>10 DEF f, g

\* So every dimension costs at least what it did.
LEMMA OutgrownCosts ==
    ASSUME NEW a, NEW b, NEW o \in EngineOptions, Outgrows(a, b, o),
           Calculate(a, o).error = "none", Calculate(b, o).error = "none",
           \A d \in Volumed : FlatRate(b, o, d), IdleOf(b, o) => IdleOf(a, o), NEW d \in Dims
    PROVE  CostOf(a, o)[d].before <= CostOf(b, o)[d].before
<1>1. a \in Inputs /\ b \in Inputs  BY DEF Outgrows
<1>2. CASE d \in Volumed
  <2> DEFINE L == LedgerOf(a, o, d)
             M == LedgerOf(b, o, d)
             x == IdleOf(a, o)
             y == IdleOf(b, o)
  <2>1. LedgerGrown(L, M)  BY <1>2, OutgrownLedgers
  <2>2. /\ ~ StepFails(d, L, x) /\ ~ StepFails(d, M, y)
        /\ CostOf(a, o)[d] = SessionCost(d, L, x) /\ CostOf(b, o)[d] = SessionCost(d, M, y)
    BY <1>1, <1>2, PricedPoint
  <2>3. y => x  OBVIOUS
  <2> HIDE DEF L, M, x, y
  <2>4. SessionCost(d, L, x).before <= SessionCost(d, M, y).before
    BY <1>2, <2>1, <2>2, <2>3, GrownCost
  <2> QED BY <2>2, <2>4
<1>3. CASE d = "FLAT"
  <2> DEFINE S == Flats(ActiveOf(a, o))
             T == Flats(ActiveOf(b, o))
  <2>1. CostOf(a, o)[d] = FlatCost(S) /\ CostOf(b, o)[d] = FlatCost(T)
    BY <1>3 DEF CostOf, Dims
  <2>2. /\ S \in SUBSET T /\ IsFiniteSet(T) /\ T \subseteq MatchTypes
        /\ \A m \in T : m.comp.price >= 0
    BY OutgrownRest
  <2> HIDE DEF S, T
  <2>3. FlatCost(S).before <= FlatCost(T).before  BY <2>2, GrownFees
  <2> QED BY <2>1, <2>3
<1> QED BY <1>2, <1>3 DEF Dims

\* Periods without a tariff cost nothing.
LEMMA UntariffedIsFree ==
    ASSUME NEW in \in Inputs, NEW o \in EngineOptions, Calculate(in, o).error = "none",
           UsedBy(in) = {}
    PROVE  Unclamped(CostOf(in, o)).before = 0
<1> DEFINE ps == PeriodsOf(in)
           f == ActiveOf(in, o)
           cost == CostOf(in, o)
<1>1. \A i \in DOMAIN ps : ps[i].tariff = {}  BY DEF UsedBy, UsedTariffs
<1>2. \A i \in DOMAIN ps : f[i] = [d \in Dims |-> {}]  BY <1>1 DEF ActiveOf, Active
<1>3. cost \in [Dims -> Moneys] /\ DOMAIN f = DOMAIN ps
  BY PricedPoint DEF IsActive
<1>4. ASSUME NEW d \in Volumed PROVE cost[d].before = 0
  <2> DEFINE L == LedgerOf(in, o, d)
             idle == IdleOf(in, o)
  <2>1. IsLedger(L) /\ ~ StepFails(d, L, idle) /\ cost[d] = SessionCost(d, L, idle)
    BY PricedPoint
  <2>2. DOMAIN L = {}
    <3>1. \A i \in DOMAIN ps : f[i][d] = {}  BY <1>2 DEF Dims
    <3> QED BY <3>1 DEF LedgerOf, Ledger
  <2> HIDE DEF L, idle
  <2>3. Added(d, L, idle) = 0  BY <2>1, <2>2, AddedFacts
  <2>4. WithStep(d, L, idle) = L  BY <2>3 DEF WithStep, Added
  <2>5. Raw(L) = 0
    <3> DEFINE g == [i \in DOMAIN L |-> L[i].volume * L[i].comp.price]
    <3>1. Raw(L) = SumFunctionOnSet(g, {})  BY <2>2 DEF Raw, SumFunction
    <3> HIDE DEF g
    <3> QED BY <3>1, SumOfNone
  <2>6. cost[d].before = RoundBank(0, Base[d])  BY <2>1, <2>4, <2>5, SessionCostFacts
  <2>7. Base[d] \in Nat \ {0}  BY BaseAssumption
  <2> QED BY <2>6, <2>7 DEF RoundBank
<1>5. cost["FLAT"].before = 0
  <2>1. cost["FLAT"] = FlatCost(Flats(f))  BY DEF CostOf, Dims
  <2>2. Flats(f) = {}  BY <1>2, <1>3 DEF Flats, Dims
  <2>3. FlatCost({}).before = SumFunctionOnSet([fee \in {} |-> fee.comp.price], {})
    <3>1. IsFiniteSet({}) /\ {} \subseteq MatchTypes  BY FS_EmptySet
    <3> QED BY <3>1, FlatCostTyped
  <2> QED BY <2>1, <2>2, <2>3, SumOfNone
<1>6. \A d \in Dims : cost[d].before = 0  BY <1>4, <1>5 DEF Dims
<1> HIDE DEF cost
<1> DEFINE b == [d \in Dims |-> cost[d].before]
<1>7. \A d \in Dims : b[d] = 0 /\ b[d] \in Int  BY <1>6
<1>8. Unclamped(cost).before = SumFunctionOnSet(b, Dims)
  BY <1>3, UnclampedTyped DEF SumFunction
<1> HIDE DEF b
<1>9. \A d \in Dims \ {} : b[d] = 0  BY <1>7
<1>10. SumFunctionOnSet(b, Dims) = SumFunctionOnSet(b, {})
  BY <1>7, <1>9, DimsAreFinite, SumSkipsZeros
<1> QED BY <1>8, <1>10, SumOfNone DEF cost

\* What applyMinMax makes of a sum, with bounds that are at most one each.
IsClamped(total, sum, low, high) ==
    \/ total \in low /\ sum.before < total.before
    \/ total \in high /\ sum.before > total.before /\ \A m \in low : ~ (sum.before < m.before)
    \/ total = sum /\ (\A m \in low : ~ (sum.before < m.before))
                   /\ \A m \in high : ~ (sum.before > m.before)
LeavesRoom(low, high) ==
    /\ \A y \in high : \A x \in low : x.before <= y.before
    /\ \A x \in low \cup high : x.before \in Int
    /\ \A x, y \in high : x = y
    /\ \A x, y \in low : x = y

\* A larger sum is clamped to no smaller a total, by bounds that leave room.
LEMMA ClampIsMonotone ==
    ASSUME NEW low, NEW high, LeavesRoom(low, high),
           NEW s, s.before \in Int, NEW t, t.before \in Int, s.before <= t.before,
           NEW u, IsClamped(u, s, low, high), NEW v, IsClamped(v, t, low, high)
    PROVE  u.before <= v.before
<1> USE DEF LeavesRoom
<1>1. s.before \in Int /\ t.before \in Int  OBVIOUS
<1>2. \/ u \in low /\ s.before < u.before
      \/ u \in high /\ s.before > u.before /\ \A m \in low : ~ (s.before < m.before)
      \/ u = s /\ (\A m \in low : ~ (s.before < m.before)) /\ \A m \in high : ~ (s.before > m.before)
  BY DEF IsClamped
<1>3. \/ v \in low /\ t.before < v.before
      \/ v \in high /\ t.before > v.before /\ \A m \in low : ~ (t.before < m.before)
      \/ v = t /\ (\A m \in low : ~ (t.before < m.before)) /\ \A m \in high : ~ (t.before > m.before)
  BY DEF IsClamped
<1>4. CASE u \in low /\ s.before < u.before  BY <1>1, <1>3, <1>4
<1>5. CASE u \in high /\ s.before > u.before
  <2>1. CASE v \in low /\ t.before < v.before  BY <1>1, <1>5, <2>1
  <2>2. CASE v \in high  BY <1>5, <2>2
  <2>3. CASE v = t  BY <1>1, <1>5, <2>3
  <2> QED BY <1>3, <2>1, <2>2, <2>3
<1>6. CASE u = s /\ \A m \in high : ~ (s.before > m.before)  BY <1>1, <1>3, <1>6
<1> QED BY <1>2, <1>4, <1>5, <1>6

\* And the total is at least what it was: at one tariff's bounds, if any.
LEMMA OutgrownTotal ==
    ASSUME NEW a, NEW b, NEW o \in EngineOptions, Outgrows(a, b, o),
           Calculate(a, o).error = "none", Calculate(b, o).error = "none",
           \A d \in Volumed : FlatRate(b, o, d), IdleOf(b, o) => IdleOf(a, o),
           ~ (Cardinality(UsedBy(b)) > 1)
    PROVE  Calculate(a, o).total.before <= Calculate(b, o).total.before
<1> DEFINE x == CostOf(a, o)
           y == CostOf(b, o)
           s == Unclamped(x)
           t == Unclamped(y)
           u == TotalOf(a, o)
           v == TotalOf(b, o)
<1>1. /\ a \in Inputs /\ b \in Inputs /\ a.tariffs = b.tariffs /\ Ordinary(b)
      /\ UsedBy(a) \subseteq UsedBy(b) /\ UsedBy(b) \subseteq DOMAIN b.tariffs
      /\ UsedBy(a) \subseteq DOMAIN a.tariffs
      /\ x \in [Dims -> Moneys] /\ y \in [Dims -> Moneys] /\ u \in Moneys /\ v \in Moneys
  <2>1. a \in Inputs /\ b \in Inputs /\ a.tariffs = b.tariffs /\ Ordinary(b)  BY DEF Outgrows
  <2>2. UsedBy(a) \subseteq UsedBy(b)  BY OutgrownRest
  <2> QED BY <2>1, <2>2, PricedPoint
<1>2. \A d \in Dims : x[d].before <= y[d].before  BY OutgrownCosts
<1>3. u = TotalCost(a, UsedBy(a), x) /\ v = TotalCost(b, UsedBy(b), y)  BY DEF TotalOf
<1>4. UsedBy(a) = {} => s.before = 0  BY <1>1, UntariffedIsFree
<1> HIDE DEF x, y, u, v
<1>5. s \in Moneys /\ t \in Moneys /\ s.before <= t.before
  <2> DEFINE f == [d \in Dims |-> x[d].before]
             g == [d \in Dims |-> y[d].before]
  <2>1. \A d \in Dims : f[d] \in Int /\ g[d] \in Int /\ f[d] <= g[d]
    <3>1. \A d \in Dims : x[d] \in Moneys /\ y[d] \in Moneys  BY <1>1
    <3> QED BY <1>2, <3>1 DEF Moneys
  <2>2. s.before = SumFunctionOnSet(f, Dims) /\ t.before = SumFunctionOnSet(g, Dims)
    BY <1>1, UnclampedTyped DEF SumFunction
  <2> HIDE DEF f, g
  <2>3. SumFunctionOnSet(f, Dims) <= SumFunctionOnSet(g, Dims)
    BY <2>1, DimsAreFinite, SumIsMonotone
  <2> QED BY <1>1, <2>2, <2>3, UnclampedTyped
<1>6. IsFiniteSet(UsedBy(b))
  <2>1. IsFiniteSet(DOMAIN b.tariffs)  BY <1>1, PlacesAreFinite DEF Inputs
  <2> QED BY <1>1, <2>1, FS_Subset
<1> DEFINE low(r) == b.tariffs[r].minPrice
           high(r) == b.tariffs[r].maxPrice
           below(m, r) == {w \in low(r) : m.before < w.before}
           above(m, r) == {w \in high(r) : m.before > w.before}
<1>7. /\ \/ u = s /\ Cardinality(UsedBy(a)) # 1
         \/ \E r \in UsedBy(a) :
              /\ UsedBy(a) = {r}
              /\ \/ below(s, r) # {} /\ u \in below(s, r)
                 \/ below(s, r) = {} /\ above(s, r) # {} /\ u \in above(s, r)
                 \/ below(s, r) = {} /\ above(s, r) = {} /\ u = s
      /\ \/ v = t /\ Cardinality(UsedBy(b)) # 1
         \/ \E r \in UsedBy(b) :
              /\ UsedBy(b) = {r}
              /\ \/ below(t, r) # {} /\ v \in below(t, r)
                 \/ below(t, r) = {} /\ above(t, r) # {} /\ v \in above(t, r)
                 \/ below(t, r) = {} /\ above(t, r) = {} /\ v = t
  BY <1>1, <1>3, TotalCostFacts
<1>8. s.before \in Int /\ t.before \in Int  BY <1>5 DEF Moneys
<1> HIDE DEF s, t
<1>9. ASSUME NEW r \in DOMAIN b.tariffs
      PROVE  /\ low(r) \subseteq Moneys /\ high(r) \subseteq Moneys
             /\ \A m \in low(r) \cup high(r) : m.before \in Int
             /\ \A m, n \in low(r) : m = n
             /\ \A m, n \in high(r) : m = n
             /\ \A n \in high(r) : n.before >= 0 /\ \A m \in low(r) : m.before <= n.before
  <2>1. b.tariffs \in Seq(Tariffs)  BY <1>1 DEF Inputs
  <2>2. b.tariffs[r] \in Tariffs  BY <2>1, PlacesAreFinite
  <2>3. low(r) \in Opt(Moneys) /\ high(r) \in Opt(Moneys)  BY <2>2 DEF Tariffs
  <2>4. /\ low(r) \subseteq Moneys /\ high(r) \subseteq Moneys
        /\ \A m, n \in low(r) : m = n
        /\ \A m, n \in high(r) : m = n
    BY <2>3 DEF Opt
  <2>5. \A m \in low(r) \cup high(r) : m.before \in Int  BY <2>4 DEF Moneys
  <2>6. \A n \in high(r) : n.before >= 0 /\ \A m \in low(r) : m.before <= n.before
    BY <1>1 DEF Ordinary
  <2> QED BY <2>4, <2>5, <2>6
<1>10. u.before <= v.before
  <2>1. CASE UsedBy(b) = {}
    <3>1. u = s /\ v = t  BY <1>1, <1>7, <2>1
    <3> QED BY <1>5, <3>1
  <2>2. CASE \E r \in UsedBy(b) : UsedBy(b) = {r}
    <3>1. PICK r \in UsedBy(b) : UsedBy(b) = {r}  BY <2>2
    <3>2. r \in DOMAIN b.tariffs  BY <1>1
    <3>3. Cardinality(UsedBy(b)) = 1  BY <3>1, FS_Singleton
    <3>4. \/ v \in below(t, r)
          \/ below(t, r) = {} /\ v \in above(t, r)
          \/ v = t /\ below(t, r) = {} /\ above(t, r) = {}
      BY <1>7, <3>1, <3>3
    <3>5. CASE UsedBy(a) = {}
      <4>1. u = s /\ s.before = 0  BY <1>4, <1>7, <3>5 DEF s
      <4>2. CASE v \in below(t, r)  BY <1>5, <1>8, <1>9, <3>2, <4>1, <4>2
      <4>3. CASE v \in above(t, r)  BY <1>9, <3>2, <4>1, <4>3
      <4>4. CASE v = t  BY <1>5, <4>1, <4>4
      <4> QED BY <3>4, <4>2, <4>3, <4>4
    <3>6. CASE UsedBy(a) # {}
      <4>1. UsedBy(a) = {r}  BY <1>1, <3>1, <3>6
      <4>2. Cardinality(UsedBy(a)) = 1  BY <4>1, FS_Singleton
      <4>3. \/ u \in below(s, r)
            \/ below(s, r) = {} /\ u \in above(s, r)
            \/ u = s /\ below(s, r) = {} /\ above(s, r) = {}
        BY <1>7, <4>1, <4>2
      <4>4. LeavesRoom(low(r), high(r))  BY <1>9, <3>2 DEF LeavesRoom
      <4>5. IsClamped(u, s, low(r), high(r))  BY <4>3 DEF IsClamped
      <4>6. IsClamped(v, t, low(r), high(r))  BY <3>4 DEF IsClamped
      <4> HIDE DEF low, high
      <4> QED BY <1>5, <1>8, <4>4, <4>5, <4>6, ClampIsMonotone
    <3> QED BY <3>5, <3>6
  <2>3. UsedBy(b) = {} \/ \E r \in UsedBy(b) : UsedBy(b) = {r}
    <3>1. Cardinality(UsedBy(b)) \in Nat  BY <1>6, FS_CardinalityType
    <3>2. Cardinality(UsedBy(b)) = 0 \/ Cardinality(UsedBy(b)) = 1  BY <3>1
    <3> QED BY <3>2, <1>6, FS_EmptySet, FS_Singleton
  <2> QED BY <2>1, <2>2, <2>3
<1>11. Calculate(a, o).total = RoundedTo(u, o) /\ Calculate(b, o).total = RoundedTo(v, o)
  <2>1. /\ ~ Refused(a, o) /\ ~ StepRefused(a, o) /\ ~ Refused(b, o) /\ ~ StepRefused(b, o)
    BY <1>1, PricedPoint
  <2> QED BY <2>1, CalculateFacts DEF u, v
<1>12. u.before \in Int /\ v.before \in Int  BY <1>1 DEF Moneys
<1>13. CASE o.precision = {}  BY <1>10, <1>11, <1>13 DEF RoundedTo
<1>14. CASE o.precision # {}
  <2> DEFINE unit == CHOOSE w \in o.precision : TRUE
  <2>1. unit \in Nat \ {0}
    <3>1. o.precision \in Opt(Nat \ {0})  BY DEF EngineOptions
    <3> QED BY <1>14, <3>1 DEF Opt
  <2>2. \A m : RoundedTo(m, o).before = RoundCurrency(m.before, unit)
    BY <1>14 DEF RoundedTo, RoundMoney
  <2> HIDE DEF unit
  <2>3. RoundCurrency(u.before, unit) <= RoundCurrency(v.before, unit)
    BY <1>10, <1>12, <2>1, RoundCurrencyIsMonotone
  <2> QED BY <1>11, <2>2, <2>3
<1> QED BY <1>13, <1>14

-----------------------------------------------------------------------------
(* The session at two ticks.                                                *)

\* A period of a session that is cut off at tick e of it, or at a later tick f.
IsShare(p, d, e, f, length) ==
    /\ p \in Periods /\ d \in Volumed /\ \A v \in p.volume[d] : v >= 0
    /\ e \in Int /\ f \in Int /\ length \in Int /\ e <= f
    /\ e \in Nat \/ e >= length

\* The later it is cut off the more of its volumes is metered.
LEMMA ScaledVolumes ==
    \A p, d, e, f, length : IsShare(p, d, e, f, length) =>
        /\ ScalePeriod(p, e, length).volume[d] = {} <=> p.volume[d] = {}
        /\ \A v \in ScalePeriod(p, e, length).volume[d] : v >= 0
        /\ Volume(ScalePeriod(p, e, length), d) >= 0
        /\ Volume(ScalePeriod(p, e, length), d) <= Volume(ScalePeriod(p, f, length), d)
<1> SUFFICES ASSUME NEW p, NEW d, NEW e, NEW f, NEW length, IsShare(p, d, e, f, length)
             PROVE  /\ ScalePeriod(p, e, length).volume[d] = {} <=> p.volume[d] = {}
                    /\ \A v \in ScalePeriod(p, e, length).volume[d] : v >= 0
                    /\ Volume(ScalePeriod(p, e, length), d) >= 0
                    /\ Volume(ScalePeriod(p, e, length), d) <= Volume(ScalePeriod(p, f, length), d)
  OBVIOUS
<1>0. /\ p \in Periods /\ d \in Volumed /\ \A v \in p.volume[d] : v >= 0
      /\ e \in Int /\ f \in Int /\ length \in Int /\ e <= f
      /\ e \in Nat \/ e >= length
  BY DEF IsShare
<1> USE <1>0
<1>1. \A x \in Int : ScalePeriod(p, x, length).volume[d] = {Scale(v, x, length) : v \in p.volume[d]}
  BY DEF ScalePeriod, Periods
<1>2. p.volume[d] \in Opt(Int)  BY DEF Periods
<1>3. ASSUME NEW v \in Nat
      PROVE  /\ Scale(v, e, length) \in Nat
             /\ Scale(v, e, length) <= Scale(v, f, length) /\ Scale(v, f, length) \in Nat
  <2>1. CASE e >= length
    <3>1. Scale(v, e, length) = v /\ Scale(v, f, length) = v  BY <2>1 DEF Scale
    <3> QED BY <3>1
  <2>2. CASE e \in Nat
    <3>1. f \in Nat  BY <2>2
    <3>2. f <= f  OBVIOUS
    <3> QED BY <2>2, <3>1, <3>2, ScaleIsMonotone
  <2> QED BY <2>1, <2>2
<1>4. CASE p.volume[d] = {}
  <2>1. \A x \in Int : ScalePeriod(p, x, length).volume[d] = {}  BY <1>1, <1>4
  <2> QED BY <1>4, <2>1 DEF Volume
<1>5. CASE p.volume[d] # {}
  <2>1. PICK v \in Nat : p.volume[d] = {v}
    <3>1. PICK v \in p.volume[d] : TRUE  BY <1>5
    <3>2. v \in Nat /\ p.volume[d] = {v}  BY <1>2 DEF Opt
    <3> QED BY <3>2
  <2>2. \A x \in Int : ScalePeriod(p, x, length).volume[d] = {Scale(v, x, length)}
    BY <1>1, <2>1
  <2>3. \A x \in Int : Volume(ScalePeriod(p, x, length), d) = Scale(v, x, length)
    BY <2>2 DEF Volume
  <2>4. /\ Scale(v, e, length) \in Nat /\ Scale(v, f, length) \in Nat
        /\ Scale(v, e, length) <= Scale(v, f, length)
    BY <1>3
  <2>5. \A w \in ScalePeriod(p, e, length).volume[d] : w = Scale(v, e, length)  BY <2>2
  <2>6. ScalePeriod(p, e, length).volume[d] # {}  BY <2>2
  <2>7. /\ Volume(ScalePeriod(p, e, length), d) = Scale(v, e, length)
        /\ Volume(ScalePeriod(p, f, length), d) = Scale(v, f, length)
    BY <2>3
  <2> QED BY <1>5, <2>4, <2>5, <2>6, <2>7
<1> QED BY <1>4, <1>5

\* How long a period has lasted at a tick, of how long it lasts.
LengthOf(in, i) == EndOfPeriod(PeriodsOf(in), i, in.end) - PeriodsOf(in)[i].start
ElapsedOf(in, tick, i) ==
    Least({tick, EndOfPeriod(PeriodsOf(in), i, in.end)}) - PeriodsOf(in)[i].start

\* truncateCdr gives each period its share.
LEMMA CutPeriods ==
    ASSUME NEW in \in Inputs, NEW tick \in Int, NEW i \in 1 .. Begun(in, tick)
    PROVE  /\ PeriodsOf(Truncate(in, tick))[i] =
                ScalePeriod(PeriodsOf(in)[i], ElapsedOf(in, tick, i), LengthOf(in, i))
           /\ PeriodsOf(in)[i] \in Periods /\ i \in DOMAIN PeriodsOf(in)
           /\ ElapsedOf(in, tick, i) \in Int /\ LengthOf(in, i) \in Int
           /\ ElapsedOf(in, tick, i) \in Nat \/ ElapsedOf(in, tick, i) >= LengthOf(in, i)
           /\ \A t \in Int : tick <= t => /\ ElapsedOf(in, t, i) \in Int
                                          /\ ElapsedOf(in, tick, i) <= ElapsedOf(in, t, i)
<1> DEFINE ps == PeriodsOf(in)
           n == Begun(in, tick)
           qs == [k \in 1 .. n |-> ScalePeriod(ps[k], ElapsedOf(in, tick, k), LengthOf(in, k))]
<1>1. Truncate(in, tick) = [in EXCEPT !.end = tick, !.periods = qs]
  BY Zenon DEF Truncate, PeriodsOf, Begun, EndOfPeriod, ElapsedOf, LengthOf
<1>2. /\ PeriodsOf(Truncate(in, tick)) = Truncate(in, tick).periods
      /\ ps \in Seq(Periods) /\ n \in 0 .. Len(ps)
      /\ {k \in DOMAIN ps : ps[k].start <= tick} = 1 .. n
  BY TruncateFacts
<1>3. Truncate(in, tick).periods = qs  BY <1>1 DEF Inputs
<1>4. PeriodsOf(Truncate(in, tick))[i]
        = ScalePeriod(ps[i], ElapsedOf(in, tick, i), LengthOf(in, i))
  BY <1>2, <1>3
<1> DEFINE s == ps[i].start
           e == EndOfPeriod(ps, i, in.end)
<1>5. \A t : ElapsedOf(in, t, i) = Least({t, e}) - s  BY DEF ElapsedOf
<1>6. LengthOf(in, i) = e - s  BY DEF LengthOf
<1>7. in.end \in Int  BY DEF Inputs
<1> HIDE DEF ps, n, qs
<1>8. /\ i \in DOMAIN ps /\ ps[i].start <= tick /\ ps[i] \in Periods
      /\ Len(ps) \in Nat /\ DOMAIN ps = 1 .. Len(ps)
  <2>1. i \in 1 .. n  BY DEF n
  <2>2. i \in DOMAIN ps /\ ps[i].start <= tick  BY <2>1, <1>2
  <2> QED BY <2>2, <1>2, PlacesAreFinite
<1>9. s \in Int /\ s <= tick  BY <1>8 DEF Periods
<1>10. e \in Int
  <2>1. CASE i < Len(ps)
    <3>1. i + 1 \in DOMAIN ps  BY <2>1, <1>8
    <3>2. ps[i + 1] \in Periods  BY <3>1, <1>2, PlacesAreFinite
    <3> QED BY <2>1, <3>2 DEF EndOfPeriod, Periods
  <2>2. CASE ~ (i < Len(ps))  BY <2>2, <1>7 DEF EndOfPeriod
  <2> QED BY <2>1, <2>2
<1> HIDE DEF s, e
<1>11. \A t \in Int : Least({t, e}) = IF t <= e THEN t ELSE e  BY <1>10, LeastOfTwo
<1>12. \A t \in Int : ElapsedOf(in, t, i) = (IF t <= e THEN t ELSE e) - s  BY <1>5, <1>11
<1>13. /\ ElapsedOf(in, tick, i) \in Int /\ LengthOf(in, i) \in Int
       /\ ElapsedOf(in, tick, i) \in Nat \/ ElapsedOf(in, tick, i) >= LengthOf(in, i)
  BY <1>6, <1>9, <1>10, <1>12
<1>14. \A t \in Int : tick <= t => /\ ElapsedOf(in, t, i) \in Int
                                   /\ ElapsedOf(in, tick, i) <= ElapsedOf(in, t, i)
  BY <1>9, <1>10, <1>12
<1> QED BY <1>4, <1>8, <1>13, <1>14 DEF ps

\* What is ordinary in the end was so at every tick.
LEMMA CutIsOrdinary ==
    ASSUME NEW in \in Inputs, Ordinary(in), NEW tick \in Int
    PROVE  /\ Ordinary(Truncate(in, tick))
           /\ \A i \in 1 .. Begun(in, tick) : \A d \in Volumed :
                \A v \in PeriodsOf(in)[i].volume[d] : v >= 0
           /\ \A i \in DOMAIN PeriodsOf(Truncate(in, tick)) : \A d \in Volumed :
                Volume(PeriodsOf(Truncate(in, tick))[i], d) >= 0
<1> DEFINE cut == Truncate(in, tick)
           ps == PeriodsOf(in)
           qs == PeriodsOf(cut)
<1>1. /\ cut.periods = qs /\ cut.tariffs = in.tariffs
      /\ qs \in Seq(Periods) /\ Len(qs) = Begun(in, tick)
  BY TruncateFacts
<1>2. \A i \in DOMAIN ps : \E j \in DOMAIN in.periods : ps[i] = in.periods[j]
  <2>1. in.periods \in Seq(Periods)  BY DEF Inputs
  <2>2. {ps[i] : i \in DOMAIN ps} = {in.periods[i] : i \in DOMAIN in.periods}
    BY <2>1, SortedPeriodsTyped DEF PeriodsOf
  <2> QED BY <2>2
<1>3. \A i \in DOMAIN ps : \A d \in Volumed : \A v \in ps[i].volume[d] : v >= 0
  BY <1>2 DEF Ordinary
<1>4. DOMAIN qs = 1 .. Begun(in, tick)  BY <1>1
<1> HIDE DEF cut, ps, qs
<1>5. ASSUME NEW i \in DOMAIN qs, NEW d \in Volumed
      PROVE  Volume(qs[i], d) >= 0 /\ \A v \in qs[i].volume[d] : v >= 0
  <2> DEFINE e == ElapsedOf(in, tick, i)
             l == LengthOf(in, i)
             p == ps[i]
  <2>1. /\ qs[i] = ScalePeriod(p, e, l) /\ p \in Periods /\ i \in DOMAIN ps
        /\ e \in Int /\ l \in Int /\ (e \in Nat \/ e >= l)
    BY <1>4, CutPeriods DEF qs, cut, ps
  <2>2. \A v \in p.volume[d] : v >= 0  BY <1>3, <2>1
  <2> HIDE DEF e, l, p
  <2>3. e <= e  BY <2>1
  <2>4. IsShare(p, d, e, e, l)  BY <2>1, <2>2, <2>3 DEF IsShare
  <2>5. /\ Volume(ScalePeriod(p, e, l), d) >= 0
        /\ \A v \in ScalePeriod(p, e, l).volume[d] : v >= 0
    BY <2>4, ScaledVolumes
  <2> QED BY <2>1, <2>5
<1>6. \A i \in DOMAIN cut.periods : \A d \in Volumed : \A v \in cut.periods[i].volume[d] : v >= 0
  BY <1>1, <1>5
<1>7. Ordinary(cut)  BY <1>1, <1>6 DEF Ordinary
<1>8. \A i \in 1 .. Begun(in, tick) : i \in DOMAIN ps  BY CutPeriods DEF ps
<1> QED BY <1>3, <1>5, <1>7, <1>8 DEF cut, ps, qs

\* Between two ticks a session goes on.
LEMMA CutOutgrows ==
    ASSUME NEW in \in Inputs, Ordinary(in), NEW x \in Int, NEW y \in Int, x <= y, NEW o,
           Valid(Truncate(in, x)), Valid(Truncate(in, y)),
           LET n == Len(PeriodsOf(Truncate(in, x)))
           IN  n > 0 /\ HasReadings(PeriodsOf(Truncate(in, x))[n]) =>
                 ActiveOf(Truncate(in, x), o)[n] = ActiveOf(Truncate(in, y), o)[n]
    PROVE  Outgrows(Truncate(in, x), Truncate(in, y), o)
<1> DEFINE a == Truncate(in, x)
           b == Truncate(in, y)
           ps == PeriodsOf(in)
           as == PeriodsOf(a)
           bs == PeriodsOf(b)
           n == Begun(in, x)
           m == Begun(in, y)
           f == ActiveOf(a, o)
           g == ActiveOf(b, o)
<1>1. /\ a \in Inputs /\ a.tariffs = in.tariffs
      /\ ps \in Seq(Periods) /\ n \in 0 .. Len(ps)
      /\ {i \in DOMAIN ps : ps[i].start <= x} = 1 .. n
      /\ as \in Seq(Periods) /\ Len(as) = n
      /\ \A i \in 1 .. n : /\ as[i].tariff = ps[i].tariff
                           /\ HasReadings(as[i]) <=> HasReadings(ps[i])
  BY TruncateFacts
<1>2. /\ b \in Inputs /\ b.tariffs = in.tariffs
      /\ m \in 0 .. Len(ps)
      /\ {i \in DOMAIN ps : ps[i].start <= y} = 1 .. m
      /\ bs \in Seq(Periods) /\ Len(bs) = m
      /\ \A i \in 1 .. m : /\ bs[i].tariff = ps[i].tariff
                           /\ HasReadings(bs[i]) <=> HasReadings(ps[i])
  BY TruncateFacts
<1>3. Ordinary(b) /\ \A i \in DOMAIN bs : \A d \in Volumed : Volume(bs[i], d) >= 0
  BY CutIsOrdinary
<1>4. \A i \in 1 .. n : \A d \in Volumed : \A v \in ps[i].volume[d] : v >= 0
  BY CutIsOrdinary
<1>5. Valid(a) /\ Valid(b)  OBVIOUS
<1>6. \A i \in DOMAIN f :
        i < Len(as) \/ ~ HasReadings(as[i]) => f[i] = ActiveOf(in, o)[i]
  BY PricedAtEveryTick
<1>7. \A i \in DOMAIN g :
        i < Len(bs) \/ ~ HasReadings(bs[i]) => g[i] = ActiveOf(in, o)[i]
  BY PricedAtEveryTick
<1>8. Len(as) > 0 /\ HasReadings(as[Len(as)]) => f[Len(as)] = g[Len(as)]
  OBVIOUS
<1>9. DOMAIN f = DOMAIN as /\ DOMAIN g = DOMAIN bs  BY DEF ActiveOf, Active
<1>10. ASSUME NEW i \in 1 .. n
       PROVE  \A d \in Volumed :
                /\ as[i].volume[d] = {} <=> bs[i].volume[d] = {}
                /\ Volume(as[i], d) <= Volume(bs[i], d)
  <2> SUFFICES ASSUME NEW d \in Volumed
               PROVE  /\ as[i].volume[d] = {} <=> bs[i].volume[d] = {}
                      /\ Volume(as[i], d) <= Volume(bs[i], d)
    OBVIOUS
  <2> DEFINE p == ps[i]
             e == ElapsedOf(in, x, i)
             h == ElapsedOf(in, y, i)
             l == LengthOf(in, i)
  <2>1. /\ as[i] = ScalePeriod(p, e, l) /\ p \in Periods
        /\ e \in Int /\ l \in Int /\ (e \in Nat \/ e >= l) /\ h \in Int /\ e <= h
    BY CutPeriods
  <2>2. bs[i] = ScalePeriod(p, h, l) /\ (h \in Nat \/ h >= l)
    <3>1. i \in 1 .. m
      <4> HIDE DEF ps, n, m
      <4>1. i \in DOMAIN ps /\ ps[i].start <= x  BY <1>1
      <4>2. ps[i].start \in Int
        <5>1. ps[i] \in Periods  BY <4>1, <1>1, PlacesAreFinite
        <5> QED BY <5>1 DEF Periods
      <4>3. ps[i].start <= y  BY <4>1, <4>2
      <4> QED BY <1>2, <4>1, <4>3
    <3> QED BY <3>1, CutPeriods
  <2>3. \A v \in p.volume[d] : v >= 0  BY <1>4
  <2>4. h <= h  BY <2>1
  <2> HIDE DEF p, e, h, l, as, bs
  <2>5. /\ as[i].volume[d] = {} <=> p.volume[d] = {}
        /\ Volume(as[i], d) <= Volume(bs[i], d)
    <3>1. IsShare(p, d, e, h, l)  BY <2>1, <2>3 DEF IsShare
    <3>2. /\ ScalePeriod(p, e, l).volume[d] = {} <=> p.volume[d] = {}
          /\ Volume(ScalePeriod(p, e, l), d) <= Volume(ScalePeriod(p, h, l), d)
      BY <3>1, ScaledVolumes
    <3> QED BY <2>1, <2>2, <3>2
  <2>6. bs[i].volume[d] = {} <=> p.volume[d] = {}
    <3>1. IsShare(p, d, h, h, l)  BY <2>1, <2>2, <2>3, <2>4 DEF IsShare
    <3>2. ScalePeriod(p, h, l).volume[d] = {} <=> p.volume[d] = {}  BY <3>1, ScaledVolumes
    <3> QED BY <2>2, <3>2
  <2> QED BY <2>5, <2>6
<1> HIDE DEF a, b, ps, as, bs, n, m, f, g
<1>11. n <= m /\ n \in Nat /\ m \in Nat /\ \A i \in 1 .. n : i \in 1 .. m
  <2>1. \A i \in DOMAIN ps : ps[i].start \in Int
    <3>1. \A i \in DOMAIN ps : ps[i] \in Periods  BY <1>1, PlacesAreFinite
    <3> QED BY <3>1 DEF Periods
  <2>2. \A i \in 1 .. n : i \in 1 .. m
    <3> SUFFICES ASSUME NEW i \in 1 .. n PROVE i \in 1 .. m  OBVIOUS
    <3>1. i \in DOMAIN ps /\ ps[i].start <= x  BY <1>1
    <3>2. ps[i].start <= y  BY <2>1, <3>1
    <3> QED BY <1>2, <3>1, <3>2
  <2>3. n \in Nat /\ m \in Nat  BY <1>1, <1>2
  <2>4. n <= m
    <3>1. CASE n = 0  BY <2>3, <3>1
    <3>2. CASE n # 0
      <4>1. n \in 1 .. n  BY <2>3, <3>2
      <4>2. n \in 1 .. m  BY <2>2, <4>1
      <4> QED BY <2>3, <4>2
    <3> QED BY <3>1, <3>2
  <2> QED BY <2>2, <2>3, <2>4
<1>12. DOMAIN as = 1 .. n /\ DOMAIN bs = 1 .. m  BY <1>1, <1>2
<1>13. ASSUME NEW i \in 1 .. n
       PROVE  f[i] = g[i]
  <2>1. i \in DOMAIN f /\ i \in DOMAIN g  BY <1>9, <1>11, <1>12
  <2>2. CASE i < n
    <3>1. i < Len(as) /\ i < Len(bs)  BY <1>1, <1>2, <1>11, <2>2
    <3> QED BY <1>6, <1>7, <2>1, <3>1
  <2>3. CASE i = n /\ HasReadings(as[i])
    <3>1. Len(as) = i /\ Len(as) > 0  BY <1>1, <1>11, <2>3
    <3> QED BY <1>8, <2>3, <3>1
  <2>4. CASE ~ HasReadings(as[i])
    <3>1. ~ HasReadings(bs[i])  BY <1>1, <1>2, <1>11, <2>4
    <3> QED BY <1>6, <1>7, <2>1, <2>4, <3>1
  <2>5. i < n \/ i = n  BY <1>11
  <2> QED BY <2>2, <2>3, <2>4, <2>5
<1>14. \A i \in 1 .. n : as[i].tariff = bs[i].tariff  BY <1>1, <1>2, <1>11
<1>15. Outgrows(a, b, o)
  <2>1. Len(as) <= Len(bs)  BY <1>1, <1>2, <1>11
  <2>2. /\ \A i \in DOMAIN bs : \A d \in Volumed : Volume(bs[i], d) >= 0
        /\ \A i \in DOMAIN as :
              /\ f[i] = g[i] /\ as[i].tariff = bs[i].tariff
              /\ \A d \in Volumed : /\ as[i].volume[d] = {} <=> bs[i].volume[d] = {}
                                    /\ Volume(as[i], d) <= Volume(bs[i], d)
    BY <1>3, <1>10, <1>12, <1>13, <1>14
  <2>3. a.tariffs = b.tariffs  BY <1>1, <1>2
  <2> QED BY <1>1, <1>2, <1>3, <1>5, <2>1, <2>2, <2>3 DEF Outgrows, as, bs, f, g
<1> QED BY <1>15 DEF a, b

\* A point is later than the one before (buildTicks).
LEMMA TicksIncrease ==
    ASSUME NEW from \in Int, NEW until \in Int, NEW k \in Nat \ {0},
           k + 1 <= Len(Ticks(from, until))
    PROVE  Ticks(from, until)[k] <= Ticks(from, until)[k + 1]
<1>1. CASE until <= from \/ MaxTicks = 1
  <2>1. Ticks(from, until) = <<until>>  BY <1>1 DEF Ticks
  <2> QED BY <2>1
<1>2. CASE from < until /\ MaxTicks # 1
  <2> DEFINE step == Stride(from, until)
             T == Ticks(from, until)
  <2>1. step \in Nat \ {0}  BY <1>2, StrideFacts
  <2>2. PICK n \in 1 .. MaxTicks :
          /\ T = [j \in 1 .. n |-> IF j < n THEN from + j * step ELSE until]
          /\ until - (from + (n - 1) * step) \in 1 .. step
    BY <1>2, TicksFacts
  <2> HIDE DEF step, T
  <2>3. n \in Nat /\ Len(T) = n  BY <2>2, TicksAssumption
  <2>4. k \in 1 .. n /\ k + 1 \in 1 .. n /\ k < n  BY <2>3 DEF T
  <2>5. T[k] = from + k * step  BY <2>2, <2>4
  <2>6. CASE k + 1 < n
    <3>1. T[k + 1] = from + (k + 1) * step  BY <2>2, <2>4, <2>6
    <3>2. (k + 1) * step = k * step + step /\ k * step \in Int  BY <2>1
    <3> QED BY <2>1, <2>5, <3>1, <3>2 DEF T
  <2>7. CASE k + 1 = n
    <3>1. T[k + 1] = until  BY <2>2, <2>4, <2>7
    <3>2. n - 1 = k  BY <2>3, <2>7
    <3>3. until - (from + k * step) \in 1 .. step  BY <2>2, <3>2
    <3>4. k * step \in Int  BY <2>1
    <3> QED BY <2>1, <2>5, <3>1, <3>3, <3>4 DEF T
  <2> QED BY <2>3, <2>4, <2>6, <2>7
<1> QED BY <1>1, <1>2

\* The curve of a session without negative prices or volumes falls for one of
\* four reasons only.  (computeCostSeries)
THEOREM CurveFallsWithReason == Spec => []CurveFallsForAReason
<1>1. IInv => CurveFallsForAReason
  <2> DEFINE k == Len(series)
             j == Len(series) - 1
             old == series[j].report
             f == Found(At(j))
             g == Found(now)
             n == Len(f.ps)
             reasons == \/ \E d \in Volumed : ~OneRate(g, d)
                        \/ HasIdleStep(g.ps, g.act) /\ ~HasIdleStep(f.ps, f.act)
                        \/ Cardinality(UsedTariffs(g.ps)) > 1
                        \/ n > 0 /\ HasReadings(f.ps[n]) /\ f.act[n] # g.act[n]
  <2> SUFFICES ASSUME IInv, k > 1, Ordinary(cdr), old.error = "none", rep.error = "none",
                      ~ reasons
               PROVE  ~ (rep.total.before < old.total.before)
    BY Zenon DEF CurveFallsForAReason
  <2>1. series \in Seq(Points) /\ cdr \in Sessions /\ k <= Len(AllTicks)
        /\ \A i \in 1 .. k : /\ series[i].tick = AllTicks[i]
                             /\ series[i].report = Calculate(Truncate(cdr, series[i].tick), opts)
    BY DEF IInv
  <2>2. k \in Nat /\ k \in 1 .. k /\ j \in 1 .. k /\ j \in Nat \ {0} /\ j + 1 = k  BY <2>1
  <2>3. Started  BY <2>2 DEF Started
  <2> DEFINE x == series[j].tick
             y == series[k].tick
             a == Truncate(cdr, x)
             b == Truncate(cdr, y)
  <2>4. /\ cdr \in Inputs /\ opts \in EngineOptions
        /\ x \in Int /\ y \in Int /\ At(j) = a /\ now = b /\ a \in Inputs /\ b \in Inputs
        /\ rep = Calculate(b, opts)
    <3>1. /\ cdr \in Inputs /\ opts \in EngineOptions
          /\ \A i \in 1 .. k : /\ series[i].tick \in Int
                               /\ At(i) = Truncate(cdr, series[i].tick) /\ At(i) \in Inputs
          /\ now = At(k) /\ rep = Calculate(now, opts)
      BY <2>3, LatestPoint
    <3> QED BY <2>2, <3>1
  <2>5. old = Calculate(a, opts)  BY <2>1, <2>2
  <2>6. x <= y
    <3>1. x = AllTicks[j] /\ y = AllTicks[j + 1]  BY <2>1, <2>2
    <3>2. cdr.start \in Int /\ cdr.end \in Int  BY <2>4 DEF Inputs
    <3>3. j + 1 <= Len(Ticks(cdr.start, cdr.end))  BY <2>1, <2>2 DEF AllTicks
    <3> HIDE DEF j, x, y
    <3>4. Ticks(cdr.start, cdr.end)[j] <= Ticks(cdr.start, cdr.end)[j + 1]
      BY <2>2, <3>2, <3>3, TicksIncrease
    <3> QED BY <3>1, <3>4 DEF AllTicks
  <2>7. f.ps = PeriodsOf(a) /\ f.act = ActiveOf(a, opts) /\ g.ps = PeriodsOf(b) /\ g.act = ActiveOf(b, opts)
    BY <2>4, FoundIsOf
  <2> HIDE DEF f, g, k, j, x, y, old
  <2>8. Calculate(a, opts).error = "none" /\ Calculate(b, opts).error = "none"
    BY <2>4, <2>5
  <2>9. Valid(a) /\ Valid(b)  BY <2>4, <2>8, PricedPoint
  <2>10. ~ (n > 0 /\ HasReadings(f.ps[n]) /\ f.act[n] # g.act[n])  OBVIOUS
  <2>11. Outgrows(a, b, opts)
    <3>1. LET l == Len(PeriodsOf(a))
          IN  l > 0 /\ HasReadings(PeriodsOf(a)[l]) => ActiveOf(a, opts)[l] = ActiveOf(b, opts)[l]
      BY <2>7, <2>10
    <3> QED BY <2>4, <2>6, <2>9, <3>1, CutOutgrows
  <2> HIDE DEF a, b
  <2>12. ASSUME NEW d \in Volumed PROVE FlatRate(b, opts, d)
    <3>1. OneRate(g, d)  BY <2>12
    <3>2. DOMAIN LedgerOf(b, opts, d) = PricedIn(g, d)
      BY <2>7 DEF LedgerOf, Ledger, PricedIn
    <3>3. \A i \in PricedIn(g, d) : LedgerOf(b, opts, d)[i].comp = CompOf(g, d, i)
      BY <2>7, Zenon DEF LedgerOf, Ledger, PricedIn, CompOf
    <3> QED BY <3>1, <3>2, <3>3 DEF FlatRate, OneRate
  <2>13. IdleOf(b, opts) => IdleOf(a, opts)
    <3>1. HasIdleStep(g.ps, g.act) => HasIdleStep(f.ps, f.act)  OBVIOUS
    <3> QED BY <2>7, <3>1 DEF IdleOf
  <2>14. ~ (Cardinality(UsedBy(b)) > 1)
    <3>1. ~ (Cardinality(UsedTariffs(g.ps)) > 1)  OBVIOUS
    <3> QED BY <2>7, <3>1 DEF UsedBy
  <2>15. Calculate(a, opts).total.before <= Calculate(b, opts).total.before
    BY <2>4, <2>8, <2>11, <2>12, <2>13, <2>14, OutgrownTotal
  <2>16. Calculate(a, opts).total.before \in Int /\ Calculate(b, opts).total.before \in Int
    BY <2>4, ReportsAreTyped DEF Moneys
  <2> QED BY <2>4, <2>5, <2>15, <2>16
<1> QED BY <1>1, Invariance, PTL
=============================================================================

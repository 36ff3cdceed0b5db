----------------------------- MODULE CostSeries -----------------------------
(***************************************************************************)
(* The simulator's cost-over-time chart (web/src/lib/timeseries.ts): the    *)
(* session cut off at one tick after the other, and priced at each of them  *)
(* by the engine of PricingEngine.  A tick is what the session has cost so  *)
(* far, so the series runs the engine over every prefix of a session.       *)
(***************************************************************************)
EXTENDS PricingVerify

CONSTANTS Sessions,   \* the finished sessions: inputs of Calculate
          Options,    \* the engine options
          Unit,       \* minutes between two points of the chart
          MaxTicks    \* the most points it may have

ASSUME TicksAssumption == Unit \in Nat \ {0} /\ MaxTicks \in Nat \ {0}
ASSUME SessionsAssumption == Sessions \subseteq Inputs
ASSUME OptionsAssumption == Options \subseteq EngineOptions

VARIABLES cdr,      \* the session
          opts,     \* the engine options
          series    \* the points so far: [tick, report]

vars == <<cdr, opts, series>>

-----------------------------------------------------------------------------
(* buildTicks.                                                              *)

CeilDiv(n, d) == (n + d - 1) \div d

\* Mutant of Stride: rounded down, the points do not reach the end.
StrideFloor(from, until) ==
    LET raw == CeilDiv(until - from, Unit)
    IN  Unit * (IF raw > MaxTicks THEN raw \div MaxTicks ELSE 1)

\* The distance of two points: a multiple of Unit that keeps them few enough.
Stride(from, until) ==
    LET raw == CeilDiv(until - from, Unit)
    IN  Unit * (IF raw > MaxTicks THEN CeilDiv(raw, MaxTicks) ELSE 1)

Ticks(from, until) ==
    IF until <= from \/ MaxTicks = 1 THEN <<until>>
    ELSE LET step  == Stride(from, until)
             inner == Least({CeilDiv(until - from, step), MaxTicks}) - 1
         IN  [k \in 1 .. inner + 1 |-> IF k <= inner THEN from + k * step ELSE until]

-----------------------------------------------------------------------------
(* truncateCdr.                                                             *)

\* volume * fraction, rounded half up to the smallest volume; exact when the
\* period is over.
Scale(v, elapsed, length) ==
    IF elapsed >= length THEN v ELSE (2 * v * elapsed + length) \div (2 * length)

\* All dimensions of a charging period are scaled, its readings included.
ScalePeriod(p, elapsed, length) ==
    LET S(opt) == {Scale(v, elapsed, length) : v \in opt}
    IN  [p EXCEPT !.volume = [d \in Volumed |-> S(@[d])],
                  !.minPower = S(@), !.maxPower = S(@),
                  !.minCurrent = S(@), !.maxCurrent = S(@)]

\* Mutant of Truncate: a period that starts at the tick is not there yet.
TruncateStrict(in, tick) ==
    LET ps == SortedPeriods(in.periods)
        EndOf(i) == IF i < Len(ps) THEN ps[i + 1].start ELSE in.end
        begun == Cardinality({i \in DOMAIN ps : ps[i].start < tick})
    IN  [in EXCEPT !.end = tick,
                   !.periods = [i \in 1 .. begun |->
                       ScalePeriod(ps[i], Least({tick, EndOf(i)}) - ps[i].start,
                                          EndOf(i) - ps[i].start)]]

\* The session as it stands at the tick: the periods begun, in order, the one
\* in progress with a share of its volume.
Truncate(in, tick) ==
    LET ps == SortedPeriods(in.periods)
        EndOf(i) == IF i < Len(ps) THEN ps[i + 1].start ELSE in.end
        begun == Cardinality({i \in DOMAIN ps : ps[i].start <= tick})
    IN  [in EXCEPT !.end = tick,
                   !.periods = [i \in 1 .. begun |->
                       ScalePeriod(ps[i], Least({tick, EndOf(i)}) - ps[i].start,
                                          EndOf(i) - ps[i].start)]]

-----------------------------------------------------------------------------
(* computeCostSeries: one iteration of its loop.  (A tick the engine refuses *)
(* has no point in the chart; here its report carries the error.)           *)

Init ==
    /\ cdr \in Sessions
    /\ opts \in Options
    /\ series = <<>>

Sample ==
    LET ticks == Ticks(cdr.start, cdr.end)
        k     == Len(series) + 1
    IN  /\ k <= Len(ticks)
        /\ series' = Append(series,
               [tick   |-> ticks[k],
                report |-> Calculate(Truncate(cdr, ticks[k]), opts)])
        /\ UNCHANGED <<cdr, opts>>

Next == Sample

Spec == Init /\ [][Next]_vars

Done == Len(series) = Len(Ticks(cdr.start, cdr.end))

-----------------------------------------------------------------------------
(* What the properties speak of: the latest point, what it was computed     *)
(* from, and what the engine found out about it.                            *)

Started == series # <<>>
rep == series[Len(series)].report
At(k) == Truncate(cdr, series[k].tick)
now == At(Len(series))

Zone(in) == CHOOSE z \in ResolveZone(in, opts) : TRUE
Found(in) ==
    LET ps == SortedPeriods(in.periods) IN [ps |-> ps, act |-> Active(in, ps, Zone(in))]

Priced == Started /\ rep.error = "none"

-----------------------------------------------------------------------------
(* Correctness.                                                             *)

\* The points are a whole number of units apart, equally far from each other
\* but for a shorter last step, at most MaxTicks, and the last one is the end
\* of the session: the cap thins the chart out, it never cuts it off.
\* (buildTicks)
PointsAreEven ==
    LET tick(k) == IF k = 0 THEN cdr.start ELSE series[k].tick
        gap(k) == tick(k) - tick(k - 1)
        n == Len(series)
    IN  /\ n <= MaxTicks
        /\ \A k \in 2 .. n : gap(k) <= gap(1) /\ (k < n => gap(k) = gap(1))
        /\ n > 1 => gap(1) % Unit = 0
        /\ Done => tick(n) = cdr.end

\* The last point is the full run's report, when no period starts after the
\* session's end.  (truncateCdr at the final tick)
StartsInTime == \A i \in DOMAIN cdr.periods : cdr.periods[i].start <= cdr.end
LastPointIsTheFullRun == Done /\ StartsInTime => rep = Calculate(cdr, opts)

\* At every tick a period is priced by the components that price it in the
\* full run: they depend on what came before it and never on its own progress;
\* but for the period in progress, whose power and current readings are scaled
\* like its volumes.  (matches is given the snapshot at the period's start)
HasReadings(p) == p.minPower \cup p.maxPower \cup p.minCurrent \cup p.maxCurrent # {}
PricedAsInTheMainRun ==
    Started =>
        LET f == Found(now)
            g == Found(cdr)
        IN  \A i \in DOMAIN f.act :
                i < Len(f.ps) \/ ~ HasReadings(f.ps[i]) => f.act[i] = g.act[i]

\* What decides which component prices a period, the session's energy and
\* duration so far, counts every period before it, priced or not: taking the
\* tariff from one period leaves the others priced as they were.
\* (README.md: periods without a tariff "still advance the cumulative
\* restriction snapshots")
UnpricedPeriodsStillCount ==
    Started =>
        LET act == Found(now).act
            Untariffed(i) == [now EXCEPT !.periods[i].tariff = {}]
        IN  \A i \in DOMAIN act : \A j \in DOMAIN act \ {i} :
                Found(Untariffed(i)).act[j] = act[j]

\* The periods of [ps, act] that volume of dimension d was priced in.
PricedIn(f, d) == {i \in DOMAIN f.ps : f.ps[i].volume[d] # {} /\ f.act[i][d] # {}}
CompOf(f, d, i) == (CHOOSE m \in f.act[i][d] : TRUE).comp

\* A step is applied once to the session and not once per period or tariff: a
\* dimension costs what its volumes cost, and less than one step more, at the
\* price of its last period, which may be negative.  (priceSessionDimension)
StepRoundsOnce ==
    Priced /\ opts.precision = {} =>
        LET f == Found(now)
        IN  \A d \in Volumed : PricedIn(f, d) # {} =>
                LET raw  == SumFunction([i \in PricedIn(f, d) |->
                                Volume(f.ps[i], d) * CompOf(f, d, i).price])
                    last == CompOf(f, d, Max(PricedIn(f, d)))
                    part == Max({last.step - 1, 0}) * last.price
                    cost == Base[d] * rep.cost[d].before
                IN  /\ 2 * (raw + Min({part, 0})) - Base[d] <= 2 * cost
                    /\ 2 * cost <= 2 * (raw + Max({part, 0})) + Base[d]

\* min_price and max_price: the total of a session that uses one tariff lies
\* between its bounds and is the sum of the dimensions when that does; that of
\* a session that uses none or several is always the sum.
BoundsOfTheOneTariff ==
    Priced /\ opts.precision = {} =>
        LET used == UsedTariffs(now.periods)
            sum  == SumFunction([d \in Dims |-> rep.cost[d].before])
            low(t)  == {m.before : m \in now.tariffs[t].minPrice}
            high(t) == {m.before : m \in now.tariffs[t].maxPrice}
        IN  \/ Cardinality(used) # 1 /\ rep.total.before = sum
            \/ \E t \in used :
                  /\ used = {t}
                  /\ (\A x \in low(t), y \in high(t) : x <= y) =>
                        /\ \A x \in low(t) : rep.total.before >= x
                        /\ \A y \in high(t) : rep.total.before <= y
                  /\ \/ rep.total.before \in low(t) \cup high(t)
                     \/ rep.total.before = sum

\* Reporting one period as two, at an instant and with volumes of the
\* reporter's choice, changes no cost, as long as the same components apply to
\* both parts.
Split(in, i, t) ==
    LET ps   == in.periods
        half(opt) == {v \div 2 : v \in opt}
        rest(opt) == {v - v \div 2 : v \in opt}
        one  == [ps[i] EXCEPT !.volume = [d \in Volumed |-> half(@[d])]]
        two  == [ps[i] EXCEPT !.start = t, !.volume = [d \in Volumed |-> rest(@[d])]]
    IN  [in EXCEPT !.periods = SubSeq(ps, 1, i - 1) \o <<one, two>> \o SubSeq(ps, i + 1, Len(ps))]
SplittingIsFree ==
    Priced =>
        LET act == Found(now).act
            n == Len(now.periods)
            EndOf(i) == IF i < n THEN now.periods[i + 1].start ELSE now.end
        IN  \A i \in 1 .. n : LET s == now.periods[i].start
                                  t == s + (EndOf(i) - s) \div 2
                                  in == Split(now, i, t)
                                  r == Calculate(in, opts)
                              IN  Found(in).act[i + 1] = act[i] =>
                                    /\ r.total.before = rep.total.before
                                    /\ \A d \in Dims : r.cost[d].before = rep.cost[d].before

\* Nothing negative is metered or charged, and a tariff's bounds leave room.
Ordinary(in) ==
    /\ \A i \in DOMAIN in.periods : \A d \in Volumed : \A v \in in.periods[i].volume[d] : v >= 0
    /\ \A t \in DOMAIN in.tariffs :
          /\ \A e \in DOMAIN in.tariffs[t].elements :
                \A j \in DOMAIN in.tariffs[t].elements[e].components :
                    in.tariffs[t].elements[e].components[j].price >= 0
          /\ \A y \in in.tariffs[t].maxPrice :
                y.before >= 0 /\ \A x \in in.tariffs[t].minPrice : x.before <= y.before

\* The curve of a session without negative prices or volumes falls only for one
\* of four reasons: two components of one dimension differ in price or step,
\* parking has begun to be billed by steps (which ends the rounding of charging
\* time), a second tariff has come into use (which ends the clamping), or the
\* readings of a period in progress, which the chart scales, had it priced by
\* other components than it is in the end.
OneRate(f, d) == \A i, j \in PricedIn(f, d) :
    /\ CompOf(f, d, i).price = CompOf(f, d, j).price
    /\ CompOf(f, d, i).step = CompOf(f, d, j).step
CurveFallsForAReason ==
    Len(series) > 1 /\ Ordinary(cdr) =>
        LET old == series[Len(series) - 1].report
            f == Found(At(Len(series) - 1))
            g == Found(now)
            n == Len(f.ps)
        IN  old.error = "none" /\ rep.error = "none" /\ rep.total.before < old.total.before =>
                \/ \E d \in Volumed : ~OneRate(g, d)
                \/ HasIdleStep(g.ps, g.act) /\ ~HasIdleStep(f.ps, f.act)
                \/ Cardinality(UsedTariffs(g.ps)) > 1
                \/ n > 0 /\ HasReadings(f.ps[n]) /\ f.act[n] # g.act[n]

-----------------------------------------------------------------------------
(* Verification (PricingVerify) of what was computed.                       *)

\* A CDR that reports the computed costs and the volumes it was metered.
Honest ==
    LET metered(d) == SumFunction([i \in DOMAIN now.periods |-> Volume(now.periods[i], d)])
    IN  [now EXCEPT !.embedded =
            [total |-> {rep.total}, cost |-> [d \in Dims |-> {rep.cost[d]}], reservation |-> {},
             volume |-> [d \in {"ENERGY", "TIME"} |-> {metered(d)}]]]

\* A CDR that reports what the engine computes is verified, unpriced periods
\* included; where the bounds of several tariffs meet, an operator that applied
\* any of them is not accused of a wrong total.
HonestCdrIsNotAccused ==
    IF MinMaxUndefined(rep)
    THEN \A m \in {rep.total} \cup UNION {now.tariffs[t].minPrice \cup now.tariffs[t].maxPrice :
                                         t \in DOMAIN now.tariffs} :
            Status([Honest EXCEPT !.embedded.total = {m}], rep, opts) = "NotVerifiable"
    ELSE Status(Honest, rep, opts) = "OK"

\* A cost that is off by more than the tolerance, in either direction, is
\* found, and so is a total unless it cannot be verified.
FalseCostIsFound ==
    \A off \in {-1 - opts.tolerance, 1 + opts.tolerance} :
        /\ \A d \in Dims : Status(
                [Honest EXCEPT !.embedded.cost[d] = {[rep.cost[d] EXCEPT !.before = @ + off]}],
                rep, opts) = "Mismatch"
        /\ ~MinMaxUndefined(rep) => Status(
                [Honest EXCEPT !.embedded.total = {[rep.total EXCEPT !.before = @ + off]}],
                rep, opts) = "Mismatch"

\* Verification accuses exactly those who deserve it.  (Verify)
VerdictsAreJust == Priced => HonestCdrIsNotAccused /\ FalseCostIsFound

-----------------------------------------------------------------------------
(* What the repository says and the code does not do.                       *)

\* timeseries.test.ts:248: computeCostSeries "makes the final tick equal the
\* full CDR cost".
FinalTickIsTheFullCost == Done => rep.total = Calculate(cdr, opts).total
=============================================================================

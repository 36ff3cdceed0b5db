---------------------------- MODULE PricingEngine ----------------------------
(***************************************************************************)
(* Calculate (core/pricing/engine.go): what a charging session costs, given *)
(* its charging periods and the tariffs they refer to.                      *)
(*                                                                          *)
(* Volumes are integers in base units (Wh, seconds); a price is the amount, *)
(* in 1/10000 of the currency, of one unit (kWh, hour) of Base[d] base      *)
(* units; before-tax amounts are in 1/10000, tax and after-tax amounts in   *)
(* 1/1000000, so that a percentage of an amount is an integer too.          *)
(***************************************************************************)
EXTENDS PricingTariff, SequencesExt

CONSTANT Base   \* base units per unit: 1000 for ENERGY, 3600 for TIME, PARKING_TIME

ASSUME BaseAssumption == Base \in [Volumed -> Nat \ {0}]

-----------------------------------------------------------------------------
(* The values the engine is given (model.go).                               *)

TaxAmounts == [kind : {"amount", "percent", "unknown"}, value : Int]
Moneys == [before : Int, taxes : Seq(TaxAmounts), after : Opt(Int)]

PriceComponents == [type : Dims, price : Int, step : Int, taxes : Seq(TaxAmounts)]
Elements == [components : Seq(PriceComponents), restrictions : Restrictions]
Tariffs ==
    [elements : Seq(Elements), currency : STRING, minPrice : Opt(Moneys), maxPrice : Opt(Moneys),
     validFrom : Opt(Int), validUntil : Opt(Int)]

EmbeddedTotals ==
    [total : Opt(Moneys), cost : [Dims -> Opt(Moneys)], reservation : Opt(Moneys),
     volume : [{"ENERGY", "TIME"} -> Opt(Int)]]

Inputs ==
    [start : Int, end : Int, currency : STRING, countryZone : Opt(Int), periods : Seq(Periods),
     tariffs : Seq(Tariffs), embedded : EmbeddedTotals,
     warnings : SUBSET [code : {"UnknownDimension"}, subject : STRING]]

EngineOptions ==
    [zone : Opt(Int), strict : BOOLEAN, precision : Opt(Nat \ {0}), tolerance : Nat]

-----------------------------------------------------------------------------
(* Rounding (rounding.go).                                                  *)

\* n/d to the nearest integer, halves to the even one.
RoundBank(n, d) ==
    LET q == n \div d
        r == n % d
    IN  IF 2 * r < d \/ (2 * r = d /\ q % 2 = 0) THEN q ELSE q + 1

\* x to the nearest multiple of unit, halves away from zero.
RoundCurrency(x, unit) ==
    IF x >= 0 THEN ((2 * x + unit) \div (2 * unit)) * unit
    ELSE -(((unit - 2 * x) \div (2 * unit)) * unit)

\* The least multiple of step that is not below volume.
StepBill(volume, step) == -((-volume) \div step) * step

-----------------------------------------------------------------------------
(* Money (money.go).                                                        *)

NoMoney == [before |-> 0, taxes |-> <<>>, after |-> {}]

TaxLine(before, tax) ==
    IF tax.kind = "amount" THEN tax.value ELSE before * tax.value

TaxesKnown(taxes) == taxes # <<>> /\ \A i \in DOMAIN taxes : taxes[i].kind # "unknown"
SumTaxes(before, taxes) == SumFunction([i \in DOMAIN taxes |-> TaxLine(before, taxes[i])])

AfterTax(m) ==
    IF m.after # {} THEN m.after
    ELSE IF TaxesKnown(m.taxes) THEN {100 * m.before + SumTaxes(m.before, m.taxes)}
    ELSE {}

\* The money of a dimension made of entries [before, taxes]: the common tax
\* list if there is one, else the taxes added up if all are known, else none.
DimensionMoney(before, entries) ==
    LET lists == {entries[i].taxes : i \in DOMAIN entries}
        known == \A taxes \in lists : TaxesKnown(taxes)
        total == SumFunction([i \in DOMAIN entries |->
                                 SumTaxes(entries[i].before, entries[i].taxes)])
    IN  [before |-> before,
         taxes  |-> IF Cardinality(lists) = 1 THEN CHOOSE taxes \in lists : TRUE
                    ELSE IF lists # {} /\ known THEN <<[kind |-> "amount", value |-> total]>>
                    ELSE <<>>,
         after  |-> {}]

RoundMoney(m, unit) ==
    [before |-> RoundCurrency(m.before, unit),
     after  |-> {RoundCurrency(x, 100 * unit) : x \in m.after},
     taxes  |-> [i \in DOMAIN m.taxes |->
                    IF m.taxes[i].kind = "amount"
                    THEN [m.taxes[i] EXCEPT !.value = RoundCurrency(@, 100 * unit)]
                    ELSE m.taxes[i]]]

-----------------------------------------------------------------------------
(* The input: order, validity, time zone.                                   *)

\* sort.SliceStable by start.
SortedPeriods(ps) ==
    LET Before(i, j) == ps[i].start < ps[j].start \/ (ps[i].start = ps[j].start /\ i < j)
        Rank(j) == Cardinality({i \in DOMAIN ps : Before(i, j)}) + 1
    IN  [k \in DOMAIN ps |-> ps[CHOOSE j \in DOMAIN ps : Rank(j) = k]]

Valid(in) ==
    /\ in.tariffs # <<>>
    /\ \A t \in DOMAIN in.tariffs :
          /\ in.tariffs[t].elements # <<>>
          /\ in.tariffs[t].currency = in.currency
          /\ \A e \in DOMAIN in.tariffs[t].elements :
                LET cs == in.tariffs[t].elements[e].components
                IN  \A j \in DOMAIN cs :
                       /\ cs[j].type = "ENERGY" => cs[j].step >= 0
                       /\ cs[j].type \in {"TIME", "PARKING_TIME"} => cs[j].step > 0
    /\ \A i \in DOMAIN in.periods :
          /\ in.periods[i].tariff \subseteq DOMAIN in.tariffs
          /\ \A v \in in.periods[i].volume["ENERGY"] : v >= 0

\* resolveZone: the caller's zone, else the country's, else UTC; {} when strict
\* mode refuses to guess.
ResolveZone(in, opts) ==
    IF opts.zone # {} THEN opts.zone
    ELSE IF opts.strict /\ \E t \in DOMAIN in.tariffs : \E e \in DOMAIN in.tariffs[t].elements :
                               IsLocal(in.tariffs[t].elements[e].restrictions)
         THEN {}
    ELSE IF in.countryZone # {} THEN in.countryZone
    ELSE {0}

-----------------------------------------------------------------------------
(* The periods.                                                             *)

\* Snapshots(..)[i - 1] is the snapshot at which period i is matched.
Snapshots(start, end, ps, zone) ==
    LET n == Len(ps)
        snap[i \in 0 .. n] ==
            IF i = 0 THEN NewSnapshot(start, zone)
            ELSE Advance(snap[i - 1], ps[i], IF i < n THEN ps[i + 1].start ELSE end)
    IN  snap

\* Mutant of Active: restrictions are evaluated at the end of the period.
ActiveAtEnd(in, ps, zone) ==
    LET snap == Snapshots(in.start, in.end, ps, zone)
    IN  [i \in DOMAIN ps |->
            IF ps[i].tariff = {} THEN [d \in Dims |-> {}]
            ELSE ActiveComponents(in.tariffs, CHOOSE t \in ps[i].tariff : TRUE, snap[i], ps[i])]

\* What each period is priced by; nothing when it has no tariff.
Active(in, ps, zone) ==
    LET snap == Snapshots(in.start, in.end, ps, zone)
    IN  [i \in DOMAIN ps |->
            IF ps[i].tariff = {} THEN [d \in Dims |-> {}]
            ELSE ActiveComponents(in.tariffs, CHOOSE t \in ps[i].tariff : TRUE, snap[i - 1], ps[i])]

\* The ledger of dimension d: an entry for each period that has a volume and a
\* component.
Ledger(ps, act, d) ==
    [i \in {j \in DOMAIN ps : ps[j].volume[d] # {} /\ act[j][d] # {}} |->
        [volume |-> Volume(ps[i], d), comp |-> (CHOOSE m \in act[i][d] : TRUE).comp]]

\* Mutant of Flats: only the latest period's fee is remembered.
FlatsOfLast(act) == IF act = <<>> THEN {} ELSE act[Len(act)]["FLAT"]

\* The flat fees: one per tariff element that applied at all.
Flats(act) == UNION {act[i]["FLAT"] : i \in DOMAIN act}

\* hasIdleStep: parking was billed by steps, so charging time is not.
HasIdleStep(ps, act) ==
    \E i \in DOMAIN ps : ps[i].volume["PARKING_TIME"] # {}
                         /\ \E m \in act[i]["PARKING_TIME"] : m.comp.step > 0

UsedTariffs(ps) == UNION {ps[i].tariff : i \in DOMAIN ps}

-----------------------------------------------------------------------------
(* The dimensions.                                                          *)

TotalVolume(ledger) == SumFunction([i \in DOMAIN ledger |-> ledger[i].volume])

\* The step of the last priced period.
LastStep(ledger) == ledger[Max(DOMAIN ledger)].comp.step

\* Whether the session's volume is rounded by a step.
Stepped(d, step, idle) ==
    \/ d = "ENERGY" /\ step # 0
    \/ d = "TIME" /\ ~idle
    \/ d = "PARKING_TIME"

\* stepBill's error, which ValidateInput should have excluded.
StepFails(d, ledger, idle) ==
    /\ DOMAIN ledger # {}
    /\ Stepped(d, LastStep(ledger), idle) /\ LastStep(ledger) <= 0

BilledVolume(d, ledger, idle) ==
    LET total == TotalVolume(ledger)
    IN  IF DOMAIN ledger # {} /\ Stepped(d, LastStep(ledger), idle)
        THEN StepBill(total, LastStep(ledger)) ELSE total

\* The rounding goes to the last priced period, at its price.
WithStep(d, ledger, idle) ==
    LET delta == BilledVolume(d, ledger, idle) - TotalVolume(ledger)
    IN  IF delta > 0 THEN [ledger EXCEPT ![Max(DOMAIN ledger)].volume = @ + delta] ELSE ledger

\* Mutant of SessionCost: every period rounds its own volume up.
SessionCostPerPeriod(d, ledger, idle) ==
    LET cost(i) == WithStep(d, [j \in {i} |-> ledger[j]], idle)[i].volume * ledger[i].comp.price
    IN  DimensionMoney(
            RoundBank(SumFunction([i \in DOMAIN ledger |-> cost(i)]), Base[d]),
            [i \in DOMAIN ledger |-> [before |-> RoundBank(cost(i), Base[d]),
                                      taxes  |-> ledger[i].comp.taxes]])

\* priceSessionDimension: rounded once over the session, to 4 decimals.
SessionCost(d, ledger, idle) ==
    LET billed == WithStep(d, ledger, idle)
        cost(i) == billed[i].volume * billed[i].comp.price
    IN  DimensionMoney(
            RoundBank(SumFunction([i \in DOMAIN billed |-> cost(i)]), Base[d]),
            [i \in DOMAIN billed |-> [before |-> RoundBank(cost(i), Base[d]),
                                      taxes  |-> billed[i].comp.taxes]])

\* priceFlatDimension.
FlatCost(flats) ==
    DimensionMoney(
        SumFunction([fee \in flats |-> fee.comp.price]),
        [fee \in flats |-> [before |-> fee.comp.price, taxes |-> fee.comp.taxes]])

-----------------------------------------------------------------------------
(* The total.                                                               *)

Unclamped(cost) ==
    LET counted == {d \in Dims : cost[d] # NoMoney}
    IN  [before |-> SumFunction([d \in Dims |-> cost[d].before]),
         taxes  |-> <<>>,
         after  |-> IF \E d \in counted : AfterTax(cost[d]) = {} THEN {}
                    ELSE {SumFunction([d \in counted |-> CHOOSE x \in AfterTax(cost[d]) : TRUE])}]

\* Mutant of TotalCost: the bounds of every used tariff are looked at.
TotalCostAnyTariff(in, used, cost) ==
    LET sum == Unclamped(cost)
        below == UNION {{m \in in.tariffs[t].minPrice : sum.before < m.before} : t \in used}
        above == UNION {{m \in in.tariffs[t].maxPrice : sum.before > m.before} : t \in used}
    IN  IF below # {} THEN CHOOSE m \in below : TRUE
        ELSE IF above # {} THEN CHOOSE m \in above : TRUE
        ELSE sum

\* min_price and max_price bound the total of a session that uses one tariff.
TotalCost(in, used, cost) ==
    LET sum == Unclamped(cost)
        below == UNION {{m \in in.tariffs[t].minPrice : sum.before < m.before} : t \in used}
        above == UNION {{m \in in.tariffs[t].maxPrice : sum.before > m.before} : t \in used}
    IN  IF Cardinality(used) # 1 THEN sum
        ELSE IF below # {} THEN CHOOSE m \in below : TRUE
        ELSE IF above # {} THEN CHOOSE m \in above : TRUE
        ELSE sum

-----------------------------------------------------------------------------
(* The warnings, as a set: what is warned of, and of which period, tariff   *)
(* or dimension.                                                            *)

Warn(code, subject) == [code |-> code, subject |-> subject]

NoElementWarnings(ps, act) ==
    UNION {LET has == {d \in Volumed : ps[i].volume[d] # {}}
               any == \E d \in Dims : act[i][d] # {}
           IN  IF ps[i].tariff = {} \/ has = {} THEN {}
               ELSE IF ~any THEN {Warn("NoElement", "period")}
               ELSE {Warn("NoElement", d) : d \in {x \in has : act[i][x] = {}}}
           : i \in DOMAIN ps}

MixedStep(ledger) == \E i, j \in DOMAIN ledger : ledger[i].comp.step # ledger[j].comp.step

TariffWindowWarnings(in, used) ==
    {Warn("TariffWindow", t) : t \in
        {u \in used : \/ \E x \in in.tariffs[u].validFrom : in.start < x
                      \/ \E x \in in.tariffs[u].validUntil : in.end > x}}

Warnings(in, opts, ps, act, ledger, used) ==
    UNION {
        in.warnings,
        {Warn("Zone", "inferred") : x \in IF opts.zone = {} THEN in.countryZone ELSE {}},
        IF opts.zone = {} /\ in.countryZone = {} THEN {Warn("Zone", "UTC")} ELSE {},
        {Warn("PeriodOutsideBounds", "session") : i \in
            {j \in DOMAIN ps : ps[j].start < in.start \/ ps[j].start > in.end}},
        TariffWindowWarnings(in, used),
        {Warn("PeriodNoTariff", i) : i \in {j \in DOMAIN ps : ps[j].tariff = {}}},
        {Warn("UnsupportedRestriction", t) : t \in
            {u \in used : \E i \in DOMAIN ps :
                ps[i].tariff = {u} /\ SkippedUnsupported(in.tariffs, u, act.snap[i - 1], ps[i])}},
        NoElementWarnings(ps, act.by),
        {Warn("MixedStepSize", d) : d \in {x \in Volumed : MixedStep(ledger[x])}},
        {Warn("UnusedTariff", t) : t \in DOMAIN in.tariffs \ used},
        IF Cardinality(used) > 1
           /\ \E t \in used : in.tariffs[t].minPrice \cup in.tariffs[t].maxPrice # {}
        THEN {Warn("MinMaxUndefinedMultiTariff", "session")} ELSE {} }

-----------------------------------------------------------------------------
\* The report.  error: "none", "invalid" (validation or the time zone) or "step".
NoReport(e) == [error |-> e, cost |-> [d \in Dims |-> NoMoney], total |-> NoMoney,
                volume |-> [d \in Dims |-> 0], warnings |-> {}]

Calculate(in, opts) ==
    LET ps   == SortedPeriods(in.periods)
        zone == ResolveZone(in, opts)
        z    == CHOOSE x \in zone : TRUE
        act  == Active(in, ps, z)
        idle == HasIdleStep(ps, act)
        used == UsedTariffs(ps)
        ledger == [d \in Volumed |-> Ledger(ps, act, d)]
        cost == [d \in Dims |-> IF d = "FLAT" THEN FlatCost(Flats(act))
                                ELSE SessionCost(d, ledger[d], idle)]
        total == TotalCost(in, used, cost)
        Rounded(m) == IF opts.precision = {} THEN m
                      ELSE RoundMoney(m, CHOOSE u \in opts.precision : TRUE)
    IN  IF ~Valid(in) \/ zone = {} THEN NoReport("invalid")
        ELSE IF \E d \in Volumed : StepFails(d, ledger[d], idle) THEN NoReport("step")
        ELSE [error  |-> "none",
              cost   |-> [d \in Dims |-> Rounded(cost[d])],
              total  |-> Rounded(total),
              volume |-> [d \in Dims |-> IF d = "FLAT" THEN Cardinality(Flats(act))
                                         ELSE TotalVolume(ledger[d])],
              warnings |-> Warnings(in, opts, ps,
                               [by |-> act, snap |-> Snapshots(in.start, in.end, ps, z)],
                               ledger, used)]
=============================================================================

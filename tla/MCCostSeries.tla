---------------------------- MODULE MCCostSeries ----------------------------
(* Instances of CostSeries for TLC: a day has 8 minutes, a unit of energy or *)
(* time has 4 base units, an amount is a few hundredths of a cent.          *)
EXTENDS CostSeries

MCBase == [d \in Volumed |-> 4]

-----------------------------------------------------------------------------
(* The tariffs.                                                             *)

Vat(n) == <<[kind |-> "percent", value |-> n]>>
Comp(type, price, step, taxes) ==
    [type |-> type, price |-> price, step |-> step, taxes |-> taxes]
Elem(components, restrictions) == [components |-> components, restrictions |-> restrictions]
Free == NoRestrictions
Amount(x) == {[before |-> x, taxes |-> Vat(20), after |-> {}]}
Tariff(elements, min, max) ==
    [elements |-> elements, currency |-> "EUR", minPrice |-> min, maxPrice |-> max,
     validFrom |-> {}, validUntil |-> {}]

\* Dear energy up to 5 units, then cheap energy with another step; charging
\* time at night (the window wraps around midnight); parking, and two fees.
NightTariff(min, max) == Tariff(
    <<Elem(<<Comp("ENERGY", 30, 3, Vat(20))>>, [Free EXCEPT !.maxKwh = {5}]),
      Elem(<<Comp("ENERGY", 10, 2, <<>>), Comp("TIME", 6, 3, Vat(20)), Comp("FLAT", 7, 1, Vat(20))>>,
           [Free EXCEPT !.from = {6}, !.until = {2}]),
      Elem(<<Comp("PARKING_TIME", 13, 4, Vat(10)), Comp("FLAT", 5, 1, Vat(20))>>, Free)>>,
    min, max)

\* Charging time from the fourth minute on, parking, energy without steps, a fee.
LateTariff(min, max) == Tariff(
    <<Elem(<<Comp("TIME", 9, 2, Vat(20))>>, [Free EXCEPT !.minDuration = {4}]),
      Elem(<<Comp("PARKING_TIME", 3, 1, Vat(20)), Comp("ENERGY", 21, 0, Vat(20)),
             Comp("FLAT", 3, 1, Vat(20))>>, Free)>>,
    min, max)

\* One rate for each dimension.
PlainTariff == Tariff(
    <<Elem(<<Comp("ENERGY", 11, 3, Vat(20)), Comp("TIME", 5, 3, Vat(20)),
             Comp("PARKING_TIME", 1, 1, Vat(20)), Comp("FLAT", 2, 1, Vat(20))>>, Free)>>, {}, {})

PlainList == <<PlainTariff, NightTariff({}, {})>>
TariffLists ==
    {<<NightTariff({}, Amount(40)), LateTariff(Amount(25), {})>>,
     <<LateTariff(Amount(20), Amount(30)), NightTariff({}, {})>>, PlainList}

-----------------------------------------------------------------------------
(* The charging periods.                                                    *)

Period(start, e, t, p, tariff) ==
    [start |-> start, volume |-> [d \in Volumed |-> CASE d = "ENERGY" -> e [] d = "TIME" -> t
                                                      [] d = "PARKING_TIME" -> p],
     minPower |-> {}, maxPower |-> {}, minCurrent |-> {}, maxCurrent |-> {}, tariff |-> tariff]

Shapes ==
    {Period(0, {3}, {2}, {}, {1}), Period(0, {4}, {}, {}, {2}), Period(0, {}, {}, {3}, {1}),
     Period(0, {2}, {1}, {}, {}), Period(0, {}, {3}, {0}, {2})}

Shift(shape, start) == [shape EXCEPT !.start = start]

NothingEmbedded ==
    [total |-> {}, cost |-> [d \in Dims |-> {}], reservation |-> {},
     volume |-> [d \in {"ENERGY", "TIME"} |-> {}]]

Session(from, until, periods, tariffs) ==
    [start |-> from, end |-> until, periods |-> periods, tariffs |-> tariffs, currency |-> "EUR",
     countryZone |-> {}, warnings |-> {}, embedded |-> NothingEmbedded]

\* In order; out of order; late, and two at once.
Starts == {<<0, 2, 4>>, <<4, 0, 2>>, <<1, 3, 3>>}

TwoPeriods(until, start, lists) ==
    {Session(0, until, <<Shift(x, 0), Shift(y, start)>>, ts) :
        x \in Shapes, y \in Shapes, ts \in lists}

\* Power readings: an element for fast charging, and one for slow charging.
PowerTariff(price, restrictions) == Tariff(
    <<Elem(<<Comp("ENERGY", price, 1, Vat(20))>>, restrictions),
      Elem(<<Comp("ENERGY", 10, 1, Vat(20))>>, Free)>>, {}, {})
MeteredSessions ==
    {Session(0, 6, <<[Period(0, {e}, {}, {}, {1}) EXCEPT !.minPower = {w}, !.maxPower = {w}],
                     [Period(3, {e}, {}, {}, {1}) EXCEPT !.minPower = {w}, !.maxPower = {w}]>>,
             <<PowerTariff(40, r)>>) :
        e \in {2, 5}, w \in 5 .. 7,
        r \in {[Free EXCEPT !.minPower = {6}], [Free EXCEPT !.maxPower = {6}]}}

\* The plain tariff with periods in order only; the second half: sessions
\* whose last period starts as they end.
MCSessions ==
    {Session(0, 6, <<Shift(x, c[1][1]), Shift(y, c[1][2]), Shift(z, c[1][3])>>, c[2]) :
        x \in Shapes, y \in Shapes, z \in Shapes,
        c \in {d \in Starts \X TariffLists : d[2] = PlainList => d[1] = <<0, 2, 4>>}}
    \cup TwoPeriods(5, 5, TariffLists) \cup MeteredSessions

\* A period starts after the session's end.
OverlongSessions == TwoPeriods(5, 7, TariffLists)

\* The session starts three minutes before midnight; totals are exact, or
\* rounded to ten of the smallest amounts.
MCOptions ==
    {[zone |-> {5}, strict |-> FALSE, precision |-> q, tolerance |-> 1] : q \in {{}, {10}}}
=============================================================================

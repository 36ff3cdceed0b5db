---------------------------- MODULE MCCdrAdapter ----------------------------
(* Instances of CdrAdapter and of the simulator's form for TLC.             *)
EXTENDS SimForm

MCBase == [d \in Volumed |-> 4]

Comp(type, price, step, vat) == [type |-> type, price |-> price, step |-> step, vat |-> vat]
Elem(components, restrictions) == [components |-> components, restrictions |-> restrictions]
Restr(fields) == {[fields |-> fields, booking |-> FALSE, unknownDay |-> FALSE]}
Limit(x) == {[before |-> x, after |-> {120 * x}, taxes |-> <<>>]}
Tariff(id, elements, min, max) ==
    [id |-> id, elements |-> elements, currency |-> "EUR", minPrice |-> min, maxPrice |-> max,
     validFrom |-> {}, validUntil |-> {}, taxIncluded |-> "unset"]

\* Fast charging costs more; energy after the fourth unit less, and for booked
\* sessions nothing of it is known.
Power == Tariff("A",
    <<Elem(<<Comp("ENERGY", 30, 3, {20})>>, Restr([NoRestrictions EXCEPT !.minPower = {6}])),
      Elem(<<Comp("ENERGY", 20, 1, {}), Comp("FLAT", 10, 1, {10})>>, {})>>, {}, Limit(40))
Hours == Tariff("B",
    <<Elem(<<Comp("ENERGY", 10, 2, {20})>>, Restr([NoRestrictions EXCEPT !.maxKwh = {4}])),
      Elem(<<Comp("TIME", 20, 1, {10}), Comp("PARKING_TIME", 10, 2, {20})>>, {})>>, {Money(15)}, {})
Plain == Tariff("A", <<Elem(<<Comp("ENERGY", 20, 2, {}), Comp("FLAT", 10, 1, {10})>>, {})>>, {}, {})
Booked == Tariff("C",
    <<Elem(<<Comp("ENERGY", 50, 1, {20})>>,
           {[fields |-> NoRestrictions, booking |-> TRUE, unknownDay |-> FALSE]}),
      Elem(<<Comp("ENERGY", 10, 1, {20})>>, {})>>, {}, {})
OddDay == [Hours EXCEPT !.elements[1].restrictions =
              {[fields |-> NoRestrictions, booking |-> FALSE, unknownDay |-> TRUE]}]
FullTax == [Hours EXCEPT !.elements[2].components[1].vat = {-100}]
Nameless(t) == [t EXCEPT !.id = ""]

TariffLists ==
    {<<Power>>, <<Nameless(Hours)>>, <<Power, Hours>>, <<Plain, Hours>>, <<Booked, Power>>,
     <<Power, [Hours EXCEPT !.id = "A"]>>, <<Hours, Nameless(Power)>>, <<OddDay>>, <<FullTax>>, <<>>}

Dim(type, volume) == [type |-> type, volume |-> volume]
DimLists ==
    {<<Dim("POWER", 7), Dim("STATE_OF_CHARGE", 5), Dim("ENERGY", 3)>>,
     <<Dim("POWER", 4), Dim("TIME", 2), Dim("MAX_POWER", 8), Dim("ENERGY", 4)>>,
     <<Dim("PARKING_TIME", 3), Dim("CARBON", 1)>>}
Repeated == <<Dim("ENERGY", 1), Dim("ENERGY", 1)>>

Cdr(version, tariffs, first, second) ==
    [version |-> version, currency |-> "EUR", start |-> 0, end |-> 6, countryZone |-> {},
     tariffs |-> tariffs, totals |-> NothingStated,
     periods |-> << [start |-> 0, tariffId |-> first.id, dims |-> first.dims],
                    [start |-> 3, tariffId |-> second.id, dims |-> second.dims] >>]

Ids == {{}, {"A"}, {"B"}, {"C"}}
Reports == [id : Ids, dims : DimLists]
Firsts == Reports \cup [id : Ids, dims : {Repeated}]

Taxed(tariffs, tax) == [t \in DOMAIN tariffs |-> [tariffs[t] EXCEPT !.taxIncluded = tax]]

MCCdrs ==
    {Cdr("2.2.1", ts, r, s) : ts \in TariffLists, r \in Firsts, s \in Reports} \cup
    {Cdr("2.3.0", Taxed(ts, tax), r, s) :
        ts \in TariffLists, tax \in {"unset", "YES", "NA"}, r \in Firsts, s \in Reports}

MCOptions == {[zone |-> {0}, strict |-> FALSE, precision |-> {}, tolerance |-> 0]}
=============================================================================

------------------------------ MODULE SimForm ------------------------------
(***************************************************************************)
(* The form of the simulator (web/src/lib/serialize.ts): deserialize reads  *)
(* a CDR that was pasted or edited as JSON into it, serialize writes it as  *)
(* the CDR the engine is given.                                             *)
(*                                                                          *)
(* The form has fields for less than a CDR says: for two kinds of           *)
(* restriction, three dimensions, limits and totals before tax.  What it    *)
(* has no field for is gone when the user edits it.                         *)
(***************************************************************************)
EXTENDS CdrAdapter

\* The restrictions with a field: times of day and energies.
RestrictionForm == {"from", "until", "minKwh", "maxKwh"}

\* The dimensions with a row.
DimensionForm == Volumed

Nonzero(S) == S \ {0}   \* decimalIsZero

\* money: an amount before tax.
Money(x) == [before |-> x, after |-> {}, taxes |-> <<>>]

\* moneyValue: its amount before tax.
MoneyValue(price) == {p.before : p \in price}

-----------------------------------------------------------------------------
(* From JSON to the form.                                                   *)

\* Mutant of DeserializeRestriction: a restriction without a time is none.
DeserializeTimes(restrictions) ==
    {[f \in DOMAIN NoRestrictions |->
         IF f \in RestrictionForm THEN r.fields[f] ELSE NoRestrictions[f]] :
            r \in {x \in restrictions : x.fields.from \cup x.fields.until # {}}}

DeserializeRestriction(restrictions) ==
    {[f \in DOMAIN NoRestrictions |->
         IF f \in RestrictionForm THEN r.fields[f] ELSE NoRestrictions[f]] : r \in restrictions}
    \ {NoRestrictions}

\* A tariff that says nothing of tax_included has NO.
DeserializeTariff(t) ==
    [id |-> t.id, currency |-> t.currency,
     taxIncluded |-> IF t.taxIncluded = "unset" THEN "NO" ELSE t.taxIncluded,
     minPrice |-> MoneyValue(t.minPrice), maxPrice |-> MoneyValue(t.maxPrice),
     elements |-> [e \in DOMAIN t.elements |->
        [components  |-> t.elements[e].components,
         restriction |-> DeserializeRestriction(t.elements[e].restrictions)]]]

\* The dimensions that have a row, in their order.
Rows(dims) ==
    LET rows[k \in 0 .. Len(dims)] ==
            IF k = 0 THEN <<>>
            ELSE IF dims[k].type \in DimensionForm THEN Append(rows[k - 1], dims[k])
            ELSE rows[k - 1]
    IN  rows[Len(dims)]

DeserializePeriod(cp) ==
    [start |-> cp.start, tariffId |-> cp.tariffId, dimensions |-> Rows(cp.dims)]

\* A total_cost, total_energy or total_time of zero counts as not given.
DeserializeTotals(totals) ==
    [total |-> Nonzero(MoneyValue(totals.total)),
     cost  |-> [d \in Dims |-> MoneyValue(totals.cost[d])],
     volume |-> [d \in {"ENERGY", "TIME"} |-> Nonzero(totals.volume[d])]]

Deserialize(c) ==
    [currency |-> c.currency, countryZone |-> c.countryZone, start |-> c.start, end |-> c.end,
     tariffs  |-> [t \in DOMAIN c.tariffs |-> DeserializeTariff(c.tariffs[t])],
     periods  |-> [i \in DOMAIN c.periods |-> DeserializePeriod(c.periods[i])],
     embedded |-> DeserializeTotals(c.totals)]

-----------------------------------------------------------------------------
(* From the form to a CDR.                                                  *)

\* Only v2.3.0 has tax_included.
SerializeTariff(t, version) ==
    [id |-> t.id, currency |-> t.currency, validFrom |-> {}, validUntil |-> {},
     taxIncluded |-> IF version = "2.3.0" THEN t.taxIncluded ELSE "unset",
     minPrice |-> {Money(x) : x \in t.minPrice}, maxPrice |-> {Money(x) : x \in t.maxPrice},
     elements |-> [e \in DOMAIN t.elements |->
        [components   |-> t.elements[e].components,
         restrictions |-> {[fields |-> r, booking |-> FALSE, unknownDay |-> FALSE] :
                              r \in t.elements[e].restriction}]]]

\* sumDecimals over the rows of a dimension.
SumOf(form, d) ==
    SumFunction([i \in DOMAIN form.periods |->
        SumFunction([k \in DOMAIN form.periods[i].dimensions |->
            IF form.periods[i].dimensions[k].type = d
            THEN form.periods[i].dimensions[k].volume ELSE 0])])

SerializeTotals(form) ==
    [total |-> {Money(x) : x \in IF form.embedded.total = {} THEN {0} ELSE form.embedded.total},
     cost  |-> [d \in Dims |-> {Money(x) : x \in form.embedded.cost[d]}],
     reservation |-> {},
     volume |-> [d \in {"ENERGY", "TIME"} |->
        IF form.embedded.volume[d] = {} THEN {SumOf(form, d)} ELSE form.embedded.volume[d]]]

Serialize(form, version) ==
    [version |-> version, currency |-> form.currency, countryZone |-> form.countryZone,
     start |-> form.start, end |-> form.end,
     tariffs |-> [t \in DOMAIN form.tariffs |-> SerializeTariff(form.tariffs[t], version)],
     periods |-> [i \in DOMAIN form.periods |->
        [start |-> form.periods[i].start, tariffId |-> form.periods[i].tariffId \ {""},
         dims  |-> form.periods[i].dimensions]],
     totals |-> SerializeTotals(form)]

\* reportMoneyToCdr: with the tax of a report, unless it is zero (v2.3.0).
ReportMoneyToCdr(m, version) ==
    IF version = "2.2.1" THEN [before |-> m.before, after |-> AfterTax(m), taxes |-> <<>>]
    ELSE [before |-> m.before, after |-> {},
          taxes  |-> SetToSeq(Nonzero({x - 100 * m.before : x \in AfterTax(m)}))]

\* What the app verifies: a form without a total is given that of its report.
Verifiable(form, version, report) ==
    LET c == Serialize(form, version)
    IN  IF form.embedded.total # {} THEN c
        ELSE [c EXCEPT !.totals.total = {ReportMoneyToCdr(report.total, version)}]

-----------------------------------------------------------------------------
(* Correctness.                                                             *)

\* The form has a field for all that decides the price.  (A tariff_id "" names
\* no tariff, for which the engine refuses the CDR; the form takes it for none.)
Expressible(c) ==
    /\ \A t \in DOMAIN c.tariffs :
          /\ c.tariffs[t].validFrom \cup c.tariffs[t].validUntil = {}
          /\ \A p \in c.tariffs[t].minPrice \cup c.tariffs[t].maxPrice : p = Money(p.before)
          /\ \A e \in DOMAIN c.tariffs[t].elements : \A r \in c.tariffs[t].elements[e].restrictions :
                /\ ~ r.booking /\ ~ r.unknownDay
                /\ \A f \in DOMAIN NoRestrictions \ RestrictionForm : r.fields[f] = NoRestrictions[f]
    /\ \A i \in DOMAIN c.periods :
          /\ "" \notin c.periods[i].tariffId
          /\ DuplicateDimension(c.periods[i]) =>
                DuplicateDimension([dims |-> Rows(c.periods[i].dims)])

\* Totals that say nothing.
NothingStated == [total |-> {Money(0)}, cost |-> [d \in Dims |-> {}],
                  reservation |-> {}, volume |-> [d \in {"ENERGY", "TIME"} |-> {0}]]

\* Editing a CDR in the form does not change its price when the form can
\* express its tariffs: the dimensions it drops, and the way it writes what it
\* keeps, decide nothing.  And a session whose totals nobody stated is not
\* accused of false ones: those the simulator fills in are found right.
\* (deserialize, serialize, reportMoneyToCdr; App.tsx verifies the form's CDR)
FormKeepsTheBill ==
    Answered("CalculateCDR") /\ Expressible(cdr) =>
        \A form \in {Deserialize(cdr)} : \A report \in {Priced(Serialize(form, cdr.version))} :
            /\ SameBill(report)
            /\ report.error = "none" /\ form.embedded = DeserializeTotals(NothingStated) =>
                  Verdict(FromCDRMultiTariff(Verifiable(form, cdr.version, report)), opts)
                      # "Mismatch"
=============================================================================

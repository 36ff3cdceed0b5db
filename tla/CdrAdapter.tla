------------------------------ MODULE CdrAdapter ------------------------------
(***************************************************************************)
(* The entry points of the pricing engine: CalculateCDR, VerifyCDR and      *)
(* their WithTariff forms in v221/pricing.go and v230/pricing.go, which     *)
(* turn an OCPI CDR into the engine's input.  The two files are the same    *)
(* but for taxes, price limits, bookings and two dimensions, so the version *)
(* is a field of the CDR here.                                              *)
(*                                                                          *)
(* A price is [before, after, taxes]: v2.2.1 has excl_vat and perhaps       *)
(* incl_vat (after), v2.3.0 before_taxes and the amounts of its taxes, and  *)
(* a price limit of v2.3.0 the former two.  As in PricingTariff a field     *)
(* that may be nil is a set with at most one element; so is the result of a *)
(* conversion that may be refused.                                          *)
(***************************************************************************)
EXTENDS PricingVerify

CONSTANTS Cdrs,      \* the CDRs an application prices
          Options    \* the engine options it uses

\* What is sent.  A component type and a dimension type may be any string; no
\* tax takes more off a price than the price.
Prices == [before : Int, after : Opt(Int), taxes : Seq(Int)]
CdrTariffs ==
    [id : STRING, currency : STRING, validFrom : Opt(Int), validUntil : Opt(Int),
     taxIncluded : {"YES", "NO", "NA", "unset"},
     minPrice : Opt(Prices), maxPrice : Opt(Prices),
     elements : Seq(
        [components : Seq([type : STRING, price : Int, step : Int,
                           vat : Opt({v \in Int : v >= -100})]),
         restrictions : Opt([fields : Restrictions, booking : BOOLEAN, unknownDay : BOOLEAN])])]
ChargingPeriods ==
    [start : Int, tariffId : Opt(STRING), dims : Seq([type : STRING, volume : Int])]
CdrTotals ==
    [total : Opt(Prices), cost : [Dims -> Opt(Prices)], reservation : Opt(Prices),
     volume : [{"ENERGY", "TIME"} -> Opt(Int)]]
CDRs ==
    [version : {"2.2.1", "2.3.0"}, currency : STRING, countryZone : Opt(Int), start : Int,
     end : Int, tariffs : Seq(CdrTariffs), periods : Seq(ChargingPeriods), totals : CdrTotals]

ASSUME CdrsAssumption == \A c \in Cdrs : c \in CDRs
ASSUME OptionsAssumption == \A o \in Options : o \in EngineOptions

VARIABLES cdr,      \* the CDR at hand
          opts,     \* the engine options
          reply     \* the last answer: [op, report, verdict]

vars == <<cdr, opts, reply>>

-----------------------------------------------------------------------------
(* Money.                                                                   *)

MoneyFromPrice221(price) == [before |-> price.before, taxes |-> <<>>, after |-> price.after]

\* Mutant of MoneyFromPrice230: the taxes are not read.
MoneyFromPriceUntaxed(price) == [before |-> price.before, taxes |-> <<>>, after |-> {}]

\* mapTaxes: the engine is given every tax by its amount.
MoneyFromPrice230(price) ==
    [before |-> price.before, after |-> {},
     taxes  |-> [i \in DOMAIN price.taxes |-> [kind |-> "amount", value |-> price.taxes[i]]]]

MoneyFromPrice(version, price) ==
    {IF version = "2.2.1" THEN MoneyFromPrice221(p) ELSE MoneyFromPrice230(p) : p \in price}

MoneyFromPriceLimit(limit) == {MoneyFromPrice221(p) : p \in limit}

-----------------------------------------------------------------------------
(* Tariffs.                                                                 *)

ParseDimensionType == Dims   \* the component types there are

\* Price / (1 + vat/100), to a unit of money; the code keeps 16 digits of it,
\* which a price like 10 at 10% has not in units.
NetPrice(price, vat) == RoundBank(100 * price, 100 + vat)

PercentTaxes(vat) == SetToSeq({[kind |-> "percent", value |-> v] : v \in vat})

\* Mutant of PriceComponent230: the tax comes on top of a price that has it.
PriceComponent230Twice(c, taxIncluded) ==
    [type |-> c.type, price |-> c.price, step |-> c.step, taxes |-> PercentTaxes(c.vat)]

\* Mutant of PriceComponent230: only tax_included NO has a tax.
PriceComponent230Unset(c, taxIncluded) ==
    [type |-> c.type, price |-> c.price, step |-> c.step,
     taxes |-> IF taxIncluded = "NO" THEN PercentTaxes(c.vat) ELSE <<>>]

\* tax_included: YES, the price is after tax; NA, there is none; NO or unset.
PriceComponent230(c, taxIncluded) ==
    [type  |-> c.type,
     price |-> IF taxIncluded = "YES" /\ c.vat # {}
               THEN NetPrice(c.price, CHOOSE v \in c.vat : TRUE) ELSE c.price,
     step  |-> c.step,
     taxes |-> IF taxIncluded = "NA" THEN <<>> ELSE PercentTaxes(c.vat)]

PriceComponent221(c) ==
    [type |-> c.type, price |-> c.price, step |-> c.step, taxes |-> PercentTaxes(c.vat)]

\* restrictionsToInput: field by field; a booking, which only v2.3.0 has, is
\* not supported.
RestrictionsToInput(version, restrictions) ==
    IF restrictions = {} THEN NoRestrictions
    ELSE LET r == CHOOSE x \in restrictions : TRUE
         IN  [r.fields EXCEPT !.unsupported = version = "2.3.0" /\ r.booking]

TariffToInput(version, t) ==
    [currency   |-> t.currency,
     validFrom  |-> t.validFrom,
     validUntil |-> t.validUntil,
     minPrice   |-> MoneyFromPriceLimit(t.minPrice),
     maxPrice   |-> MoneyFromPriceLimit(t.maxPrice),
     elements   |-> [e \in DOMAIN t.elements |->
        [components   |-> [j \in DOMAIN t.elements[e].components |->
             IF version = "2.2.1" THEN PriceComponent221(t.elements[e].components[j])
             ELSE PriceComponent230(t.elements[e].components[j], t.taxIncluded)],
         restrictions |-> RestrictionsToInput(version, t.elements[e].restrictions)]]]

\* An unknown component type or day, or a price that cannot be made net.
TariffRefused(version, t) ==
    \E e \in DOMAIN t.elements :
        \/ \E j \in DOMAIN t.elements[e].components :
              LET c == t.elements[e].components[j]
              IN  \/ c.type \notin ParseDimensionType
                  \/ version = "2.3.0" /\ t.taxIncluded = "YES" /\ c.vat = {-100}
        \/ \E r \in t.elements[e].restrictions : r.unknownDay

-----------------------------------------------------------------------------
(* Charging periods.                                                        *)

\* The readings a dimension sets.
ReadingFields ==
    [MAX_POWER |-> {"maxPower"}, MIN_POWER |-> {"minPower"}, POWER |-> {"minPower", "maxPower"},
     MAX_CURRENT |-> {"maxCurrent"}, MIN_CURRENT |-> {"minCurrent"},
     CURRENT |-> {"minCurrent", "maxCurrent"}]

\* Dimensions without a price, and the two v2.3.0 adds.
Unpriced(version) ==
    {"ENERGY_IMPORT", "ENERGY_EXPORT", "RESERVATION_TIME", "STATE_OF_CHARGE"} \cup
    (IF version = "2.3.0" THEN {"RESERVATION_EXPIRES", "RESERVATION_OVERTIME"} ELSE {})

DuplicateDimension(cp) ==
    \E j, k \in DOMAIN cp.dims : j # k /\ cp.dims[j].type = cp.dims[k].type

\* A later dimension that sets the same field replaces an earlier one.
Reading(cp, field) ==
    LET ks == {k \in DOMAIN cp.dims : cp.dims[k].type \in DOMAIN ReadingFields
                                      /\ field \in ReadingFields[cp.dims[k].type]}
    IN  IF ks = {} THEN {} ELSE {cp.dims[Max(ks)].volume}

\* Mutant of PeriodToInput: nothing after a dimension without a price is read.
PeriodToInputStopping(cp, tariff) ==
    LET stops == {k \in DOMAIN cp.dims : cp.dims[k].type \in Unpriced("2.3.0")}
        read  == {k \in DOMAIN cp.dims : \A s \in stops : k < s}
    IN  [start      |-> cp.start,
         volume     |-> [d \in Volumed |-> {cp.dims[k].volume :
                            k \in {x \in read : cp.dims[x].type = d}}],
         minPower   |-> Reading(cp, "minPower"),   maxPower   |-> Reading(cp, "maxPower"),
         minCurrent |-> Reading(cp, "minCurrent"), maxCurrent |-> Reading(cp, "maxCurrent"),
         tariff     |-> tariff]

PeriodToInput(cp, tariff) ==
    [start      |-> cp.start,
     volume     |-> [d \in Volumed |-> {cp.dims[k].volume :
                        k \in {x \in DOMAIN cp.dims : cp.dims[x].type = d}}],
     minPower   |-> Reading(cp, "minPower"),   maxPower   |-> Reading(cp, "maxPower"),
     minCurrent |-> Reading(cp, "minCurrent"), maxCurrent |-> Reading(cp, "maxCurrent"),
     tariff     |-> tariff]

UnknownDimensions(version, cp) ==
    {Warn("UnknownDimension", cp.dims[k].type) : k \in {x \in DOMAIN cp.dims :
        cp.dims[x].type \notin Volumed \cup DOMAIN ReadingFields \cup Unpriced(version)}}

-----------------------------------------------------------------------------
(* The input.                                                               *)

NewNeutralInput(c, tariffs) ==
    [start |-> c.start, end |-> c.end, currency |-> c.currency, countryZone |-> c.countryZone,
     tariffs |-> [t \in DOMAIN tariffs |-> TariffToInput(c.version, tariffs[t])],
     embedded |-> [total       |-> MoneyFromPrice(c.version, c.totals.total),
                   cost        |-> [d \in Dims |-> MoneyFromPrice(c.version, c.totals.cost[d])],
                   reservation |-> MoneyFromPrice(c.version, c.totals.reservation),
                   volume      |-> c.totals.volume],
     periods |-> <<>>, warnings |-> {}]

\* FromCDR and fromCDRMultiTariff, given the tariff index of each period.
ToInput(c, tariffs, index) ==
    [NewNeutralInput(c, tariffs) EXCEPT
        !.periods  = [i \in DOMAIN c.periods |-> PeriodToInput(c.periods[i], index[i])],
        !.warnings = UNION {UnknownDimensions(c.version, c.periods[i]) : i \in DOMAIN c.periods}]

FromCDR(c, tariff) ==
    IF \/ TariffRefused(c.version, tariff)
       \/ \E i \in DOMAIN c.periods : DuplicateDimension(c.periods[i])
    THEN {}
    ELSE {in \in {ToInput(c, <<tariff>>, [i \in DOMAIN c.periods |-> {1}])} : Valid(in)}

\* Several tariffs are told apart by their ids.
AmbiguousTariffs(tariffs) ==
    Len(tariffs) > 1 /\ \/ \E t \in DOMAIN tariffs : tariffs[t].id = ""
                        \/ \E t, u \in DOMAIN tariffs : t # u /\ tariffs[t].id = tariffs[u].id

\* indexByID
Named(tariffs, id) == {t \in DOMAIN tariffs : tariffs[t].id # "" /\ id = {tariffs[t].id}}

\* Mutant of ResolveTariffIndex: a period without a tariff_id takes the first.
ResolveToFirst(tariffs, id) == IF id = {} THEN {1} ELSE Named(tariffs, id)

\* Mutant of ResolveTariffIndex: a period without a tariff_id has no tariff.
ResolveNever(tariffs, id) == Named(tariffs, id)

\* A nil tariff_id means the only tariff, or none.
ResolveTariffIndex(tariffs, id) ==
    IF id # {} THEN Named(tariffs, id) ELSE IF Len(tariffs) = 1 THEN {1} ELSE {}

UnknownTariff(tariffs, id) == id # {} /\ Named(tariffs, id) = {}

FromCDRMultiTariff(c) ==
    IF \/ c.tariffs = <<>>
       \/ AmbiguousTariffs(c.tariffs)
       \/ \E t \in DOMAIN c.tariffs : TariffRefused(c.version, c.tariffs[t])
       \/ \E i \in DOMAIN c.periods : \/ DuplicateDimension(c.periods[i])
                                      \/ UnknownTariff(c.tariffs, c.periods[i].tariffId)
    THEN {}
    ELSE {in \in {ToInput(c, c.tariffs, [i \in DOMAIN c.periods |->
                              ResolveTariffIndex(c.tariffs, c.periods[i].tariffId)])} : Valid(in)}

-----------------------------------------------------------------------------
(* The entry points, on a conversion's result.                              *)

\* The one value of a conversion that was not refused.
The(S) == CHOOSE x \in S : TRUE

Report(inputs, o) ==
    IF inputs = {} THEN NoReport("invalid") ELSE The({Calculate(in, o) : in \in inputs})

Verdict(inputs, o) ==
    IF inputs = {} THEN "InvalidInput"
    ELSE The({IF report.error # "none" THEN "InvalidInput" ELSE Status(in, report, o) :
                 in \in inputs, report \in {Report(inputs, o)}})

Priced(c) == Report(FromCDRMultiTariff(c), opts)
PricedWith(c, tariff) == Report(FromCDR(c, tariff), opts)

Answer(op, report, verdict) ==
    /\ reply' = [op |-> op, report |-> report, verdict |-> verdict]
    /\ UNCHANGED <<cdr, opts>>

NoVerdict == "none"

Init ==
    /\ cdr \in Cdrs
    /\ opts \in Options
    /\ reply = [op |-> "none", report |-> NoReport("none"), verdict |-> NoVerdict]

CalculateCDR == Answer("CalculateCDR", Priced(cdr), NoVerdict)
VerifyCDR    == Answer("VerifyCDR", NoReport("none"), Verdict(FromCDRMultiTariff(cdr), opts))

CalculateWithTariff(tariff) == Answer("CalculateWithTariff", PricedWith(cdr, tariff), NoVerdict)
VerifyWithTariff(tariff) ==
    Answer("VerifyWithTariff", NoReport("none"), Verdict(FromCDR(cdr, tariff), opts))

Next ==
    \/ CalculateCDR \/ VerifyCDR
    \/ \E t \in DOMAIN cdr.tariffs :
          CalculateWithTariff(cdr.tariffs[t]) \/ VerifyWithTariff(cdr.tariffs[t])

Spec == Init /\ [][Next]_vars

-----------------------------------------------------------------------------
(* Correctness.                                                             *)

\* A report that bills what was answered, before and after tax, or refuses alike.
\* (The quantifier has TLC evaluate the report once.)
SameBill(report) ==
    \A s \in {report} :
        /\ reply.report.error = s.error
        /\ reply.report.total.before = s.total.before
        /\ AfterTax(reply.report.total) = AfterTax(s.total)
        /\ \A d \in Dims : /\ reply.report.cost[d].before = s.cost[d].before
                           /\ AfterTax(reply.report.cost[d]) = AfterTax(s.cost[d])

Answered(op) == reply.op = op
AnsweredOK(op) == reply.op = op /\ reply.report.error = "none"

\* Periods find their tariffs by id: the order in which a CDR embeds its
\* tariffs changes neither the bill nor whether it is accepted.
\* (indexByID and resolveTariffIndex)
TariffsGoByTheirIds ==
    Answered("CalculateCDR") =>
        SameBill(Priced([cdr EXCEPT !.tariffs = Reverse(@)]))

\* A session all of which refers to one of the embedded tariffs costs what it
\* costs under that tariff given explicitly, whatever else is embedded.
\* (fromCDRMultiTariff against FromCDR)
OneTariffIsTheOverride ==
    AnsweredOK("CalculateCDR") =>
        \A t \in DOMAIN cdr.tariffs :
            (\A i \in DOMAIN cdr.periods :
                LET id == cdr.periods[i].tariffId
                IN  id = {cdr.tariffs[t].id} \/ (id = {} /\ Len(cdr.tariffs) = 1))
            => SameBill(PricedWith(cdr, cdr.tariffs[t]))

\* A session reported in OCPI 2.2.1 and in 2.3.0 costs the same, unless the
\* latter says something of taxes or bookings the former cannot.
\* (v221/pricing.go against v230/pricing.go)
Common(t) ==
    /\ t.taxIncluded \in {"NO", "unset"}
    /\ \A e \in DOMAIN t.elements : \A r \in t.elements[e].restrictions : ~ r.booking
VersionsAgree ==
    Answered("CalculateCDR") /\ (\A t \in DOMAIN cdr.tariffs : Common(cdr.tariffs[t])) =>
        \A v \in {"2.2.1", "2.3.0"} :
            SameBill(Priced([cdr EXCEPT !.version = v]))

\* The order of a period's dimensions matters only where an average reading
\* (POWER, CURRENT) stands beside one of its bounds: then the later replaces
\* the earlier, and may decide which tariff element applies.  (periodToInput)
MixedReadings(cp) ==
    \E j, k \in DOMAIN cp.dims :
        /\ j # k /\ {cp.dims[j].type, cp.dims[k].type} \subseteq DOMAIN ReadingFields
        /\ ReadingFields[cp.dims[j].type] \cap ReadingFields[cp.dims[k].type] # {}
Turned(cp) == [cp EXCEPT !.dims = Reverse(@)]
DimensionsAreUnordered ==
    Answered("CalculateCDR") /\ (\A i \in DOMAIN cdr.periods : ~ MixedReadings(cdr.periods[i])) =>
        SameBill(Priced([cdr EXCEPT !.periods = [i \in DOMAIN @ |-> Turned(@[i])]]))

\* A price quoted with its tax is the same price: a 2.3.0 tariff rewritten to
\* tax_included YES bills what it did, unless it has a tax of -100%, which
\* leaves nothing to compute the price from, or a price that with its tax is
\* none in whole units of money.  (priceComponentToInput)
GrossComponent(c) ==
    [c EXCEPT !.price = IF c.vat = {} THEN @ ELSE (@ * (100 + CHOOSE v \in c.vat : TRUE)) \div 100]
GrossElement(e) ==
    [e EXCEPT !.components = [j \in DOMAIN @ |-> GrossComponent(@[j])]]
Gross(t) ==
    [t EXCEPT !.taxIncluded = "YES", !.elements = [e \in DOMAIN @ |-> GrossElement(@[e])]]
HasGross(t) ==
    /\ t.taxIncluded \in {"NO", "unset"}
    /\ \A e \in DOMAIN t.elements : \A j \in DOMAIN t.elements[e].components :
          LET c == t.elements[e].components[j]
          IN  \A v \in c.vat : v # -100 /\ (c.price * (100 + v)) % 100 = 0
TaxIncludedIsOnlyNotation ==
    /\ Answered("CalculateCDR") /\ cdr.version = "2.3.0"
    /\ \A t \in DOMAIN cdr.tariffs : HasGross(cdr.tariffs[t])
    => SameBill(Priced([cdr EXCEPT !.tariffs = [t \in DOMAIN @ |-> Gross(@[t])]]))

\* A CDR that carries the totals of its own report, in the price type of its
\* version, verifies; it is at most not verifiable, where several tariffs have
\* bounds.  (newNeutralInput, VerifyCDR)
Totals(r) ==
    LET price(m) == [before |-> m.before, after |-> AfterTax(m),
                     taxes  |-> SetToSeq({x - 100 * m.before : x \in AfterTax(m)})]
        metered(d) == SumFunction([i \in DOMAIN cdr.periods |->
                          Volume(PeriodToInput(cdr.periods[i], {}), d)])
    IN  [total |-> {price(r.total)}, cost |-> [d \in Dims |-> {price(r.cost[d])}],
         reservation |-> {}, volume |-> [d \in {"ENERGY", "TIME"} |-> {metered(d)}]]
OwnTotalsVerify ==
    AnsweredOK("CalculateCDR") =>
        Verdict(FromCDRMultiTariff([cdr EXCEPT !.totals = Totals(reply.report)]), opts) =
            IF MinMaxUndefined(reply.report) THEN "NotVerifiable" ELSE "OK"
=============================================================================

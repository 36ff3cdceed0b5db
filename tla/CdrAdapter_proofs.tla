------------------------- MODULE CdrAdapter_proofs -------------------------
(***************************************************************************)
(* What the two readings of a charging record promise, for records of any   *)
(* length: how charging periods find their tariffs (indexByID,              *)
(* resolveTariffIndex and their checks in v221/pricing.go and               *)
(* v230/pricing.go); when two readings are priced alike, and so when two     *)
(* records, or one record under two protocol versions, have the same bill;   *)
(* what the comparison of a record with its own totals finds; and what the   *)
(* simulator's form keeps of a record (web/src/lib/serialize.ts).            *)
(***************************************************************************)
EXTENDS SimForm, Pricing_proofs, TLAPS

\* us has the tariffs of ts, the one at place i of us being at place p[i] of ts.
Reordered(ts, us, p) ==
    /\ p \in [DOMAIN ts -> DOMAIN ts]
    /\ \A i \in DOMAIN ts : \E j \in DOMAIN ts : p[j] = i
    /\ \A i, j \in DOMAIN ts : p[i] = p[j] => i = j
    /\ us = [i \in DOMAIN ts |-> ts[p[i]]]

\* A period's tariff_id: none, or one.
IsTariffId(id) == \A x, y \in id : x = y

\* In a list that is not refused as ambiguous, a period has at most one tariff,
\* and it is the one the period names, or the only one there is.  (The engine
\* takes whatever tariff the index says.)
THEOREM ResolutionIsUnique ==
    ASSUME NEW S, NEW ts \in Seq(S), NEW id, IsTariffId(id), ~ AmbiguousTariffs(ts),
           NEW i \in ResolveTariffIndex(ts, id)
    PROVE  /\ i \in DOMAIN ts
           /\ \A j \in ResolveTariffIndex(ts, id) : j = i
           /\ id = {ts[i].id} \/ (id = {} /\ Len(ts) = 1)
<1>1. Len(ts) \in Nat /\ DOMAIN ts = 1 .. Len(ts)  OBVIOUS
<1>2. CASE id = {}
  <2>1. ResolveTariffIndex(ts, id) = IF Len(ts) = 1 THEN {1} ELSE {}
    BY <1>2 DEF ResolveTariffIndex
  <2> QED BY <2>1, <1>1, <1>2
<1>3. CASE id # {}
  <2>1. ResolveTariffIndex(ts, id) = Named(ts, id)  BY <1>3 DEF ResolveTariffIndex
  <2>2. \A j \in Named(ts, id) : j \in DOMAIN ts /\ id = {ts[j].id}  BY DEF Named
  <2>3. ASSUME NEW j \in Named(ts, id), j # i PROVE FALSE
    <3>1. i \in DOMAIN ts /\ j \in DOMAIN ts /\ ts[i].id = ts[j].id
      BY <2>1, <2>2
    <3>2. Len(ts) > 1  BY <3>1, <2>3, <1>1
    <3> QED BY <3>1, <3>2, <2>3 DEF AmbiguousTariffs
  <2> QED BY <2>1, <2>2, <2>3
<1> QED BY <1>2, <1>3

\* The length of a list does not change when it is reordered.
LEMMA ReorderedIsSequence ==
    ASSUME NEW S, NEW ts \in Seq(S), NEW us, NEW p, Reordered(ts, us, p)
    PROVE  /\ us \in Seq(S) /\ Len(us) = Len(ts) /\ DOMAIN us = DOMAIN ts
           /\ \A i \in DOMAIN us : p[i] \in DOMAIN ts /\ us[i] = ts[p[i]]
<1>1. Len(ts) \in Nat /\ DOMAIN ts = 1 .. Len(ts) /\ \A i \in DOMAIN ts : ts[i] \in S
  OBVIOUS
<1>2. DOMAIN us = DOMAIN ts /\ \A i \in DOMAIN us : p[i] \in DOMAIN ts /\ us[i] = ts[p[i]]
  BY DEF Reordered
<1>3. us \in [1 .. Len(ts) -> S]  BY <1>1 DEF Reordered
<1>4. us \in Seq(S) /\ Len(us) = Len(ts)  BY <1>1, <1>3
<1> QED BY <1>2, <1>4

\* What a period is priced with does not depend on the order in which a CDR
\* embeds its tariffs: a list is ambiguous in every order or in none, an id is
\* unknown in every order or in none, and the tariff it resolves to is the same.
THEOREM ResolutionIgnoresOrder ==
    ASSUME NEW S, NEW ts \in Seq(S), NEW us, NEW p, Reordered(ts, us, p), NEW id
    PROVE  /\ AmbiguousTariffs(us) <=> AmbiguousTariffs(ts)
           /\ UnknownTariff(us, id) <=> UnknownTariff(ts, id)
           /\ {us[i] : i \in ResolveTariffIndex(us, id)}
                = {ts[i] : i \in ResolveTariffIndex(ts, id)}
<1>1. /\ Len(us) = Len(ts) /\ DOMAIN us = DOMAIN ts
      /\ \A i \in DOMAIN us : p[i] \in DOMAIN ts /\ us[i] = ts[p[i]]
  BY ReorderedIsSequence
<1>2. /\ \A i \in DOMAIN ts : \E j \in DOMAIN ts : p[j] = i
      /\ \A i, j \in DOMAIN ts : p[i] = p[j] => i = j
  BY DEF Reordered
<1>3. ASSUME AmbiguousTariffs(us) PROVE AmbiguousTariffs(ts)
  <2>1. Len(ts) > 1  BY <1>1, <1>3 DEF AmbiguousTariffs
  <2>2. CASE \E i \in DOMAIN us : us[i].id = ""
    <3>1. PICK i \in DOMAIN us : us[i].id = ""  BY <2>2
    <3>2. p[i] \in DOMAIN ts /\ ts[p[i]].id = ""  BY <3>1, <1>1
    <3> QED BY <2>1, <3>2 DEF AmbiguousTariffs
  <2>3. CASE \E i, j \in DOMAIN us : i # j /\ us[i].id = us[j].id
    <3>1. PICK i \in DOMAIN us, j \in DOMAIN us : i # j /\ us[i].id = us[j].id  BY <2>3
    <3>2. /\ p[i] \in DOMAIN ts /\ p[j] \in DOMAIN ts /\ p[i] # p[j]
          /\ ts[p[i]].id = ts[p[j]].id
      BY <3>1, <1>1, <1>2
    <3> QED BY <2>1, <3>2 DEF AmbiguousTariffs
  <2> QED BY <1>3, <2>2, <2>3 DEF AmbiguousTariffs
<1>4. ASSUME AmbiguousTariffs(ts) PROVE AmbiguousTariffs(us)
  <2>1. Len(us) > 1  BY <1>1, <1>4 DEF AmbiguousTariffs
  <2>2. CASE \E t \in DOMAIN ts : ts[t].id = ""
    <3>1. PICK t \in DOMAIN ts : ts[t].id = ""  BY <2>2
    <3>2. PICK i \in DOMAIN us : p[i] = t  BY <1>1, <1>2
    <3>3. us[i].id = ""  BY <3>1, <3>2, <1>1
    <3> QED BY <2>1, <3>3 DEF AmbiguousTariffs
  <2>3. CASE \E t, u \in DOMAIN ts : t # u /\ ts[t].id = ts[u].id
    <3>1. PICK t \in DOMAIN ts, u \in DOMAIN ts : t # u /\ ts[t].id = ts[u].id  BY <2>3
    <3>2. PICK i \in DOMAIN us : p[i] = t  BY <1>1, <1>2
    <3>3. PICK j \in DOMAIN us : p[j] = u  BY <1>1, <1>2
    <3>4. i # j /\ us[i].id = us[j].id  BY <3>1, <3>2, <3>3, <1>1
    <3> QED BY <2>1, <3>4 DEF AmbiguousTariffs
  <2> QED BY <1>4, <2>2, <2>3 DEF AmbiguousTariffs
<1>5. {us[i] : i \in Named(us, id)} = {ts[i] : i \in Named(ts, id)}
  <2>1. \A i \in Named(us, id) : p[i] \in Named(ts, id) /\ us[i] = ts[p[i]]
    BY <1>1 DEF Named
  <2>2. ASSUME NEW i \in Named(ts, id)
        PROVE  \E j \in Named(us, id) : us[j] = ts[i]
    <3>1. i \in DOMAIN ts /\ ts[i].id # "" /\ id = {ts[i].id}  BY DEF Named
    <3>2. PICK j \in DOMAIN us : p[j] = i  BY <3>1, <1>1, <1>2
    <3>3. us[j] = ts[i]  BY <3>2, <1>1
    <3>4. j \in Named(us, id)  BY <3>1, <3>3 DEF Named
    <3> QED BY <3>3, <3>4
  <2> QED BY <2>1, <2>2
<1>6. UnknownTariff(us, id) <=> UnknownTariff(ts, id)
  BY <1>5 DEF UnknownTariff
<1>7. {us[i] : i \in ResolveTariffIndex(us, id)} = {ts[i] : i \in ResolveTariffIndex(ts, id)}
  <2>1. CASE id # {}  BY <2>1, <1>5 DEF ResolveTariffIndex
  <2>2. CASE id = {} /\ Len(ts) = 1
    <3>1. DOMAIN ts = {1}  BY <2>2
    <3>2. p[1] = 1 /\ us[1] = ts[1]  BY <3>1, <1>1
    <3> QED BY <3>2, <2>2, <1>1 DEF ResolveTariffIndex
  <2>3. CASE id = {} /\ Len(ts) # 1
    BY <2>3, <1>1 DEF ResolveTariffIndex
  <2> QED BY <2>1, <2>2, <2>3
<1> QED BY <1>3, <1>4, <1>6, <1>7

-----------------------------------------------------------------------------
(* What the entry points compute.                                           *)

IndexOf(c) == [i \in DOMAIN c.periods |-> ResolveTariffIndex(c.tariffs, c.periods[i].tariffId)]
EmbeddedInput(c) == ToInput(c, c.tariffs, IndexOf(c))
EmbeddedRefused(c) ==
    \/ c.tariffs = <<>>
    \/ AmbiguousTariffs(c.tariffs)
    \/ \E t \in DOMAIN c.tariffs : TariffRefused(c.version, c.tariffs[t])
    \/ \E i \in DOMAIN c.periods : \/ DuplicateDimension(c.periods[i])
                                   \/ UnknownTariff(c.tariffs, c.periods[i].tariffId)

ExplicitInput(c, tariff) == ToInput(c, <<tariff>>, [i \in DOMAIN c.periods |-> {1}])
ExplicitRefused(c, tariff) ==
    \/ TariffRefused(c.version, tariff)
    \/ \E i \in DOMAIN c.periods : DuplicateDimension(c.periods[i])

\* An invalid input is refused by Calculate as it is by the conversion.
LEMMA ReportOf ==
    ASSUME NEW in, NEW o
    PROVE  Report({x \in {in} : Valid(x)}, o) = Calculate(in, o)
<1>1. CASE Valid(in)
  <2>1. {x \in {in} : Valid(x)} = {in}  BY <1>1
  <2>2. Report({in}, o) = The({Calculate(x, o) : x \in {in}})  BY DEF Report
  <2>3. {Calculate(x, o) : x \in {in}} = {Calculate(in, o)}  OBVIOUS
  <2>4. \A x : The({x}) = x  BY DEF The
  <2> QED BY <2>1, <2>2, <2>3, <2>4
<1>2. CASE ~ Valid(in)
  <2>1. {x \in {in} : Valid(x)} = {}  BY <1>2
  <2>2. Report({}, o) = NoReport("invalid")  BY DEF Report
  <2>3. Calculate(in, o) = NoReport("invalid")  BY <1>2, CalculateFacts DEF Refused
  <2> QED BY <2>1, <2>2, <2>3
<1> QED BY <1>1, <1>2

\* CalculateCDR refuses a CDR, or prices the input it is turned into.
LEMMA EmbeddedFacts ==
    ASSUME NEW c, NEW o
    PROVE  /\ FromCDRMultiTariff(c) =
                IF EmbeddedRefused(c) THEN {} ELSE {in \in {EmbeddedInput(c)} : Valid(in)}
           /\ Report(FromCDRMultiTariff(c), o) =
                IF EmbeddedRefused(c) THEN NoReport("invalid") ELSE Calculate(EmbeddedInput(c), o)
<1>1. FromCDRMultiTariff(c) =
        IF EmbeddedRefused(c) THEN {} ELSE {in \in {EmbeddedInput(c)} : Valid(in)}
  BY Zenon DEF FromCDRMultiTariff, EmbeddedRefused, EmbeddedInput, IndexOf
<1>2. Report({}, o) = NoReport("invalid")  BY DEF Report
<1> QED BY <1>1, <1>2, ReportOf

\* CalculateWithTariff likewise.
LEMMA ExplicitFacts ==
    ASSUME NEW c, NEW tariff, NEW o
    PROVE  Report(FromCDR(c, tariff), o) =
                IF ExplicitRefused(c, tariff) THEN NoReport("invalid")
                ELSE Calculate(ExplicitInput(c, tariff), o)
<1>1. FromCDR(c, tariff) =
        IF ExplicitRefused(c, tariff) THEN {} ELSE {in \in {ExplicitInput(c, tariff)} : Valid(in)}
  BY Zenon DEF FromCDR, ExplicitRefused, ExplicitInput
<1>2. Report({}, o) = NoReport("invalid")  BY DEF Report
<1> QED BY <1>1, <1>2, ReportOf

\* VerifyCDR compares the input of a CDR with the report it gets.
LEMMA VerdictOf ==
    ASSUME NEW b, NEW o, ~ EmbeddedRefused(b), Calculate(EmbeddedInput(b), o).error = "none"
    PROVE  Verdict(FromCDRMultiTariff(b), o)
             = Status(EmbeddedInput(b), Calculate(EmbeddedInput(b), o), o)
<1> DEFINE x == EmbeddedInput(b)
           r == Calculate(x, o)
<1>1. FromCDRMultiTariff(b) = {in \in {x} : Valid(in)}  BY EmbeddedFacts
<1>2. r.error = "none"  OBVIOUS
<1>3. Refused(x, o) => r = NoReport("invalid")  BY CalculateFacts
<1>4. NoReport("invalid").error # "none"  BY DEF NoReport
<1> HIDE DEF x, r
<1>5. Valid(x)  BY <1>2, <1>3, <1>4 DEF Refused
<1>6. FromCDRMultiTariff(b) = {x}  BY <1>1, <1>5
<1>7. Report({x}, o) = r
  <2>1. {in \in {x} : Valid(in)} = {x}  BY <1>5
  <2> QED BY <2>1, ReportOf DEF r
<1> DEFINE T == {IF report.error # "none" THEN "InvalidInput" ELSE Status(in, report, o) :
                   in \in {x}, report \in {Report({x}, o)}}
<1>8. T = {Status(x, r, o)}  BY <1>2, <1>7
<1>9. \A z : The({z}) = z  BY DEF The
<1>10. Verdict({x}, o) = IF {x} = {} THEN "InvalidInput" ELSE The(T)  BY DEF Verdict
<1> HIDE DEF T
<1>11. Verdict({x}, o) = Status(x, r, o)  BY <1>8, <1>9, <1>10
<1> QED BY <1>6, <1>11 DEF x, r

\* The fields of the input a CDR is turned into.
LEMMA InputFields ==
    ASSUME NEW c, NEW tariffs, NEW index
    PROVE  ToInput(c, tariffs, index) =
             [start |-> c.start, end |-> c.end, currency |-> c.currency,
              countryZone |-> c.countryZone,
              tariffs |-> [t \in DOMAIN tariffs |-> TariffToInput(c.version, tariffs[t])],
              embedded |-> NewNeutralInput(c, tariffs).embedded,
              periods |-> [i \in DOMAIN c.periods |-> PeriodToInput(c.periods[i], index[i])],
              warnings |-> UNION {UnknownDimensions(c.version, c.periods[i]) : i \in DOMAIN c.periods}]
<1> DEFINE ts == [t \in DOMAIN tariffs |-> TariffToInput(c.version, tariffs[t])]
           em == [total       |-> MoneyFromPrice(c.version, c.totals.total),
                  cost        |-> [d \in Dims |-> MoneyFromPrice(c.version, c.totals.cost[d])],
                  reservation |-> MoneyFromPrice(c.version, c.totals.reservation),
                  volume      |-> c.totals.volume]
           ps == [i \in DOMAIN c.periods |-> PeriodToInput(c.periods[i], index[i])]
           ws == UNION {UnknownDimensions(c.version, c.periods[i]) : i \in DOMAIN c.periods}
           z == NewNeutralInput(c, tariffs)
<1>1. z = [start |-> c.start, end |-> c.end, currency |-> c.currency,
           countryZone |-> c.countryZone, tariffs |-> ts, embedded |-> em,
           periods |-> <<>>, warnings |-> {}]
  BY Zenon DEF NewNeutralInput
<1>2. ToInput(c, tariffs, index) = [z EXCEPT !.periods = ps, !.warnings = ws]
  BY Zenon DEF ToInput
<1> HIDE DEF z, ts, em, ps, ws
<1>3. z.embedded = em  BY <1>1
<1> DEFINE st == c.start  en == c.end  cu == c.currency  co == c.countryZone
<1>4. z = [start |-> st, end |-> en, currency |-> cu, countryZone |-> co,
           tariffs |-> ts, embedded |-> em, periods |-> <<>>, warnings |-> {}]
  BY <1>1
<1> HIDE DEF st, en, cu, co
<1>5. [z EXCEPT !.periods = ps, !.warnings = ws] =
        [start |-> st, end |-> en, currency |-> cu, countryZone |-> co,
         tariffs |-> ts, embedded |-> em, periods |-> ps, warnings |-> ws]
  <2> DEFINE y == [start |-> st, end |-> en, currency |-> cu, countryZone |-> co,
                   tariffs |-> ts, embedded |-> em, periods |-> ps, warnings |-> {}]
             x == [start |-> st, end |-> en, currency |-> cu, countryZone |-> co,
                   tariffs |-> ts, embedded |-> em, periods |-> <<>>, warnings |-> {}]
             w == [start |-> st, end |-> en, currency |-> cu, countryZone |-> co,
                   tariffs |-> ts, embedded |-> em, periods |-> ps, warnings |-> ws]
  <2>1. [x EXCEPT !.periods = ps] = y  BY ONLY TRUE
  <2>2. [y EXCEPT !.warnings = ws] = w  BY ONLY TRUE
  <2>3. z = x  BY <1>4
  <2> HIDE DEF x, y, w
  <2>4. [x EXCEPT !.periods = ps, !.warnings = ws] = [[x EXCEPT !.periods = ps] EXCEPT !.warnings = ws]
    OBVIOUS
  <2>5. [z EXCEPT !.periods = ps, !.warnings = ws] = w  BY <2>1, <2>2, <2>3, <2>4
  <2> QED BY <2>5 DEF w
<1>6. [z EXCEPT !.periods = ps, !.warnings = ws] =
        [start |-> c.start, end |-> c.end, currency |-> c.currency,
         countryZone |-> c.countryZone, tariffs |-> ts, embedded |-> em,
         periods |-> ps, warnings |-> ws]
  BY <1>5 DEF st, en, cu, co
<1> QED BY <1>2, <1>3, <1>6 DEF z, ts, ps, ws

-----------------------------------------------------------------------------
(* CDRs that are turned into the same input.                                *)

\* The same but for the totals and what was noticed when the CDR was read.
SameInput(a, b) ==
    /\ a.start = b.start /\ a.end = b.end /\ a.currency = b.currency
    /\ a.countryZone = b.countryZone /\ a.tariffs = b.tariffs /\ a.periods = b.periods

\* Two CDRs are accepted alike, as the same input.
ReadAlike(b, c) ==
    /\ EmbeddedRefused(b) <=> EmbeddedRefused(c)
    /\ ~ EmbeddedRefused(c) => SameInput(EmbeddedInput(b), EmbeddedInput(c))

\* The same input means the same refusals and the same amounts (Calculate).
LEMMA SameInputSamePricing ==
    ASSUME NEW a, NEW b, SameInput(a, b)
    PROVE  SamePricing(a, b)
<1>1. {a.periods[i] : i \in DOMAIN a.periods} = {b.periods[i] : i \in DOMAIN b.periods}
  BY DEF SameInput
<1>2. Valid(a) <=> Valid(b)  BY <1>1, ValidInAnyOrder DEF SameInput
<1> QED BY <1>2 DEF SameInput, SamePricing, PeriodsOf

\* Two CDRs that fromCDRMultiTariff reads alike, or refuses alike, get the same
\* answer from CalculateCDR.
LEMMA ReadAlikePricedAlike ==
    ASSUME NEW b, NEW c, ReadAlike(b, c), NEW o
    PROVE  /\ Report(FromCDRMultiTariff(b), o).error = Report(FromCDRMultiTariff(c), o).error
           /\ Report(FromCDRMultiTariff(b), o).cost = Report(FromCDRMultiTariff(c), o).cost
           /\ Report(FromCDRMultiTariff(b), o).total = Report(FromCDRMultiTariff(c), o).total
           /\ EmbeddedInput(b).warnings = EmbeddedInput(c).warnings =>
                Report(FromCDRMultiTariff(b), o) = Report(FromCDRMultiTariff(c), o)
<1> DEFINE x == EmbeddedInput(b)
           y == EmbeddedInput(c)
           r == Report(FromCDRMultiTariff(b), o)
           s == Report(FromCDRMultiTariff(c), o)
<1>1. /\ r = IF EmbeddedRefused(b) THEN NoReport("invalid") ELSE Calculate(x, o)
      /\ s = IF EmbeddedRefused(c) THEN NoReport("invalid") ELSE Calculate(y, o)
  BY EmbeddedFacts
<1>2. /\ EmbeddedRefused(b) <=> EmbeddedRefused(c)
      /\ ~ EmbeddedRefused(c) => SameInput(x, y)
  BY DEF ReadAlike
<1> HIDE DEF x, y, r, s
<1>3. CASE EmbeddedRefused(c)  BY <1>1, <1>2, <1>3 DEF r, s
<1>4. CASE ~ EmbeddedRefused(c)
  <2>1. SamePricing(x, y)  BY <1>2, <1>4, SameInputSamePricing
  <2>2. /\ Calculate(x, o).error = Calculate(y, o).error
        /\ Calculate(x, o).cost = Calculate(y, o).cost
        /\ Calculate(x, o).total = Calculate(y, o).total
        /\ x.warnings = y.warnings => Calculate(x, o) = Calculate(y, o)
    BY <2>1, PricingDependsOn
  <2>3. r = Calculate(x, o) /\ s = Calculate(y, o)  BY <1>1, <1>2, <1>4
  <2>4. /\ r.error = s.error /\ r.cost = s.cost /\ r.total = s.total
        /\ x.warnings = y.warnings => r = s
    BY <2>2, <2>3
  <2> QED BY <2>4 DEF r, s, x, y
<1> QED BY <1>3, <1>4

-----------------------------------------------------------------------------
(* The same session in both versions.                                       *)

\* A CDR reported in another version is otherwise the same.
LEMMA VersionFields ==
    ASSUME NEW c \in CDRs, NEW v
    PROVE  LET b == [c EXCEPT !.version = v] IN
           /\ b.version = v /\ b.currency = c.currency /\ b.countryZone = c.countryZone
           /\ b.start = c.start /\ b.end = c.end /\ b.tariffs = c.tariffs
           /\ b.periods = c.periods /\ b.totals = c.totals
BY DEF CDRs

\* A tariff without v2.3.0's own features means the same to both adapters.
LEMMA CommonTariffs ==
    ASSUME NEW t, Common(t), NEW v \in {"2.2.1", "2.3.0"}, NEW w \in {"2.2.1", "2.3.0"}
    PROVE  /\ TariffToInput(v, t) = TariffToInput(w, t)
           /\ TariffRefused(v, t) <=> TariffRefused(w, t)
<1>1. /\ t.taxIncluded \in {"NO", "unset"}
      /\ \A e \in DOMAIN t.elements : \A r \in t.elements[e].restrictions : ~ r.booking
  BY DEF Common
<1> DEFINE comp(ver, c) == IF ver = "2.2.1" THEN PriceComponent221(c)
                           ELSE PriceComponent230(c, t.taxIncluded)
           restr(ver, e) == RestrictionsToInput(ver, t.elements[e].restrictions)
           els(ver) == [e \in DOMAIN t.elements |->
               [components |-> [j \in DOMAIN t.elements[e].components |->
                                  comp(ver, t.elements[e].components[j])],
                restrictions |-> restr(ver, e)]]
<1>2. \A c : comp(v, c) = comp(w, c)
  <2>1. \A c : PriceComponent230(c, t.taxIncluded) = PriceComponent221(c)
    BY <1>1 DEF PriceComponent230, PriceComponent221
  <2> QED BY <2>1
<1>3. \A e \in DOMAIN t.elements : restr(v, e) = restr(w, e)
  <2> SUFFICES ASSUME NEW e \in DOMAIN t.elements PROVE restr(v, e) = restr(w, e)  OBVIOUS
  <2> DEFINE rs == t.elements[e].restrictions
             r == CHOOSE x \in rs : TRUE
  <2>1. rs # {} => ~ r.booking  BY <1>1
  <2>2. \A ver : RestrictionsToInput(ver, rs) =
                   IF rs = {} THEN NoRestrictions
                   ELSE [r.fields EXCEPT !.unsupported = ver = "2.3.0" /\ r.booking]
    BY Zenon DEF RestrictionsToInput
  <2> HIDE DEF r, rs
  <2>3. rs # {} => (v = "2.3.0" /\ r.booking) = (w = "2.3.0" /\ r.booking)  BY <2>1
  <2>4. RestrictionsToInput(v, rs) = RestrictionsToInput(w, rs)  BY <2>2, <2>3
  <2> QED BY <2>4 DEF rs
<1>4. els(v) = els(w)
  <2> HIDE DEF comp, restr
  <2> QED BY <1>2, <1>3
<1>5. \A ver : TariffToInput(ver, t) =
        [currency |-> t.currency, validFrom |-> t.validFrom, validUntil |-> t.validUntil,
         minPrice |-> MoneyFromPriceLimit(t.minPrice), maxPrice |-> MoneyFromPriceLimit(t.maxPrice),
         elements |-> els(ver)]
  BY Zenon DEF TariffToInput
<1> HIDE DEF els
<1>6. TariffToInput(v, t) = TariffToInput(w, t)  BY <1>4, <1>5
<1>7. TariffRefused(v, t) <=> TariffRefused(w, t)  BY <1>1, Zenon DEF TariffRefused
<1> QED BY <1>6, <1>7

\* Both versions read a session alike that says nothing of taxes or bookings
\* v2.2.1 cannot say (v221/pricing.go, v230/pricing.go).
LEMMA VersionsReadAlike ==
    ASSUME NEW c \in CDRs, \A t \in DOMAIN c.tariffs : Common(c.tariffs[t]),
           NEW v \in {"2.2.1", "2.3.0"}
    PROVE  ReadAlike([c EXCEPT !.version = v], c)
<1> DEFINE b == [c EXCEPT !.version = v]
<1>1. /\ b.version = v /\ b.currency = c.currency /\ b.countryZone = c.countryZone
      /\ b.start = c.start /\ b.end = c.end /\ b.tariffs = c.tariffs /\ b.periods = c.periods
  BY VersionFields
<1>2. c.version \in {"2.2.1", "2.3.0"}  BY DEF CDRs
<1> HIDE DEF b
<1>3. \A t \in DOMAIN c.tariffs :
        /\ TariffToInput(v, c.tariffs[t]) = TariffToInput(c.version, c.tariffs[t])
        /\ TariffRefused(v, c.tariffs[t]) <=> TariffRefused(c.version, c.tariffs[t])
  BY <1>2, CommonTariffs
<1>4. EmbeddedRefused(b) <=> EmbeddedRefused(c)
  BY <1>1, <1>3, Zenon DEF EmbeddedRefused
<1>5. IndexOf(b) = IndexOf(c)  BY <1>1 DEF IndexOf
<1> DEFINE x == EmbeddedInput(b)
           y == EmbeddedInput(c)
           ts(z) == [t \in DOMAIN z.tariffs |-> TariffToInput(z.version, z.tariffs[t])]
           ps(z) == [i \in DOMAIN z.periods |-> PeriodToInput(z.periods[i], IndexOf(z)[i])]
<1>6. /\ x.start = b.start /\ x.end = b.end /\ x.currency = b.currency
      /\ x.countryZone = b.countryZone /\ x.tariffs = ts(b) /\ x.periods = ps(b)
  BY InputFields DEF EmbeddedInput
<1>7. /\ y.start = c.start /\ y.end = c.end /\ y.currency = c.currency
      /\ y.countryZone = c.countryZone /\ y.tariffs = ts(c) /\ y.periods = ps(c)
  BY InputFields DEF EmbeddedInput
<1>8. ts(b) = ts(c)  BY <1>1, <1>3
<1>9. ps(b) = ps(c)  BY <1>1, <1>5
<1> HIDE DEF x, y, ts, ps
<1>10. SameInput(x, y)  BY <1>1, <1>6, <1>7, <1>8, <1>9 DEF SameInput
<1> QED BY <1>4, <1>10 DEF ReadAlike, x, y, b

-----------------------------------------------------------------------------
(* The order of a period's dimensions.                                      *)

\* Where an element of a sequence is after reversing it.
LEMMA ReversedPlaces ==
    ASSUME NEW S, NEW s \in Seq(S)
    PROVE  /\ DOMAIN Reverse(s) = DOMAIN s /\ Reverse(s) \in Seq(S) /\ Len(Reverse(s)) = Len(s)
           /\ \A k \in DOMAIN s : /\ Len(s) - k + 1 \in DOMAIN s
                                  /\ Reverse(s)[k] = s[Len(s) - k + 1]
                                  /\ Reverse(s)[Len(s) - k + 1] = s[k]
                                  /\ Len(s) - (Len(s) - k + 1) + 1 = k
<1>1. Len(s) \in Nat /\ DOMAIN s = 1 .. Len(s)  OBVIOUS
<1>2. \A k \in 1 .. Len(s) : /\ Len(s) - k + 1 \in 1 .. Len(s)
                             /\ Len(s) - (Len(s) - k + 1) + 1 = k
  BY <1>1
<1>3. Reverse(s) = [i \in 1 .. Len(s) |-> s[Len(s) - i + 1]]  BY DEF Reverse
<1>4. \A k \in 1 .. Len(s) : s[Len(s) - k + 1] \in S  BY <1>1, <1>2
<1>5. Reverse(s) \in Seq(S)  BY <1>1, <1>3, <1>4
<1>6. DOMAIN Reverse(s) = 1 .. Len(s) /\ Len(Reverse(s)) = Len(s)  BY <1>1, <1>3, <1>5
<1>7. \A k \in 1 .. Len(s) : Reverse(s)[k] = s[Len(s) - k + 1]  BY <1>3
<1>8. \A k \in 1 .. Len(s) : Reverse(s)[Len(s) - k + 1] = s[k]  BY <1>2, <1>7
<1> QED BY <1>1, <1>2, <1>5, <1>6, <1>7, <1>8

Dimensions == [type : STRING, volume : Int]

\* The last place of the two is the only one.
LEMMA MaxOfOne ==
    ASSUME NEW k \in Int
    PROVE  Max({k}) = k
<1>1. k >= k  OBVIOUS
<1> QED BY <1>1 DEF Max

\* A period with its dimensions in the opposite order is otherwise the same.
LEMMA TurnedFields ==
    ASSUME NEW cp \in ChargingPeriods
    PROVE  /\ Turned(cp).start = cp.start /\ Turned(cp).tariffId = cp.tariffId
           /\ Turned(cp).dims = Reverse(cp.dims) /\ cp.dims \in Seq(Dimensions)
BY DEF ChargingPeriods, Turned, Dimensions

\* Turning a period around neither makes nor removes a duplicate dimension.
LEMMA TurnedDuplicates ==
    ASSUME NEW cp \in ChargingPeriods
    PROVE  DuplicateDimension(Turned(cp)) <=> DuplicateDimension(cp)
<1> DEFINE s == cp.dims
           n == Len(s)
<1>1. s \in Seq(Dimensions) /\ Turned(cp).dims = Reverse(s)  BY TurnedFields
<1> HIDE DEF s
<1>2. /\ DOMAIN Reverse(s) = DOMAIN s /\ DOMAIN s \subseteq Int /\ n \in Int
      /\ \A k \in DOMAIN s : /\ n - k + 1 \in DOMAIN s /\ Reverse(s)[k] = s[n - k + 1]
                             /\ Reverse(s)[n - k + 1] = s[k]
  BY <1>1, ReversedPlaces, PlacesAreFinite
<1> DEFINE D(q) == \E j, k \in DOMAIN q : j # k /\ q[j].type = q[k].type
<1>3. DuplicateDimension(cp) <=> D(s)  BY DEF DuplicateDimension, s
<1>4. DuplicateDimension(Turned(cp)) <=> D(Reverse(s))  BY <1>1 DEF DuplicateDimension
<1>5. ASSUME D(s) PROVE D(Reverse(s))
  <2>1. PICK j \in DOMAIN s, k \in DOMAIN s : j # k /\ s[j].type = s[k].type  BY <1>5
  <2>2. n - j + 1 # n - k + 1  BY <1>2, <2>1
  <2> QED BY <1>2, <2>1, <2>2
<1>6. ASSUME D(Reverse(s)) PROVE D(s)
  <2>1. PICK j \in DOMAIN s, k \in DOMAIN s : j # k /\ Reverse(s)[j].type = Reverse(s)[k].type
    BY <1>2, <1>6
  <2>2. n - j + 1 # n - k + 1  BY <1>2, <2>1
  <2> QED BY <1>2, <2>1, <2>2
<1> QED BY <1>3, <1>4, <1>5, <1>6

\* A reading that only one dimension sets is the same in both orders.
LEMMA TurnedReading ==
    ASSUME NEW cp \in ChargingPeriods, ~ MixedReadings(cp), NEW field
    PROVE  Reading(Turned(cp), field) = Reading(cp, field)
<1> DEFINE s == cp.dims
           n == Len(s)
           Sets(d) == d.type \in DOMAIN ReadingFields /\ field \in ReadingFields[d.type]
           K(q) == {k \in DOMAIN q : Sets(q[k])}
<1>1. s \in Seq(Dimensions) /\ Turned(cp).dims = Reverse(s)  BY TurnedFields
<1>2. ASSUME NEW j \in K(s), NEW k \in K(s) PROVE j = k
  <2>1. /\ j \in DOMAIN s /\ k \in DOMAIN s /\ {s[j].type, s[k].type} \subseteq DOMAIN ReadingFields
        /\ ReadingFields[s[j].type] \cap ReadingFields[s[k].type] # {}
    OBVIOUS
  <2> QED BY <2>1 DEF MixedReadings
<1>3. Reading(cp, field) = IF K(s) = {} THEN {} ELSE {s[Max(K(s))].volume}
  BY DEF Reading
<1>4. Reading(Turned(cp), field) =
        IF K(Reverse(s)) = {} THEN {} ELSE {Reverse(s)[Max(K(Reverse(s)))].volume}
  BY <1>1 DEF Reading
<1> HIDE DEF s
<1>5. /\ DOMAIN Reverse(s) = DOMAIN s /\ DOMAIN s \subseteq Int /\ n \in Int
      /\ \A k \in DOMAIN s : /\ n - k + 1 \in DOMAIN s /\ Reverse(s)[k] = s[n - k + 1]
                             /\ Reverse(s)[n - k + 1] = s[k]
                             /\ n - (n - k + 1) + 1 = k
  BY <1>1, ReversedPlaces, PlacesAreFinite
<1> HIDE DEF Sets
<1>6. \A k \in K(s) : n - k + 1 \in K(Reverse(s))  BY <1>5
<1>7. \A k \in K(Reverse(s)) : n - k + 1 \in K(s)  BY <1>5
<1>8. CASE K(s) = {}  BY <1>3, <1>4, <1>7, <1>8
<1>9. CASE K(s) # {}
  <2>1. PICK k \in K(s) : TRUE  BY <1>9
  <2>2. K(s) = {k} /\ k \in DOMAIN s  BY <1>2, <2>1
  <2>3. K(Reverse(s)) = {n - k + 1}
    <3>1. \A j \in K(Reverse(s)) : j = n - k + 1
      <4> SUFFICES ASSUME NEW j \in K(Reverse(s)) PROVE j = n - k + 1  OBVIOUS
      <4>1. n - j + 1 = k /\ j \in Int /\ k \in Int  BY <1>5, <1>7, <2>2
      <4> QED BY <1>5, <4>1
    <3> QED BY <1>6, <2>1, <3>1
  <2>4. Max({k}) = k /\ Max({n - k + 1}) = n - k + 1
    <3>1. k \in Int /\ n - k + 1 \in Int  BY <1>5, <2>2
    <3> QED BY <3>1, MaxOfOne
  <2>5. Reverse(s)[n - k + 1] = s[k]  BY <1>5, <2>2
  <2> HIDE DEF K
  <2> QED BY <1>3, <1>4, <1>9, <2>2, <2>3, <2>4, <2>5
<1> QED BY <1>8, <1>9

\* So the period and what is warned of are.
LEMMA TurnedPeriod ==
    ASSUME NEW cp \in ChargingPeriods, ~ MixedReadings(cp)
    PROVE  /\ \A tariff : PeriodToInput(Turned(cp), tariff) = PeriodToInput(cp, tariff)
           /\ \A version : UnknownDimensions(version, Turned(cp)) = UnknownDimensions(version, cp)
<1> DEFINE s == cp.dims
           n == Len(s)
           V(q, d) == {q[k].volume : k \in {x \in DOMAIN q : q[x].type = d}}
           Odd(version, d) == d.type \notin Volumed \cup DOMAIN ReadingFields \cup Unpriced(version)
           U(version, q) == {Warn("UnknownDimension", q[k].type) :
                               k \in {x \in DOMAIN q : Odd(version, q[x])}}
<1>1. s \in Seq(Dimensions) /\ Turned(cp).dims = Reverse(s) /\ Turned(cp).start = cp.start
  BY TurnedFields
<1>2. \A version : /\ UnknownDimensions(version, cp) = U(version, s)
                   /\ UnknownDimensions(version, Turned(cp)) = U(version, Turned(cp).dims)
  BY Zenon DEF UnknownDimensions
<1>3. \A q, tariff : PeriodToInput(q, tariff) =
        [start |-> q.start, volume |-> [d \in Volumed |-> V(q.dims, d)],
         minPower |-> Reading(q, "minPower"), maxPower |-> Reading(q, "maxPower"),
         minCurrent |-> Reading(q, "minCurrent"), maxCurrent |-> Reading(q, "maxCurrent"),
         tariff |-> tariff]
  BY Zenon DEF PeriodToInput
<1>4. /\ Reading(Turned(cp), "minPower") = Reading(cp, "minPower")
      /\ Reading(Turned(cp), "maxPower") = Reading(cp, "maxPower")
      /\ Reading(Turned(cp), "minCurrent") = Reading(cp, "minCurrent")
      /\ Reading(Turned(cp), "maxCurrent") = Reading(cp, "maxCurrent")
  BY TurnedReading
<1> HIDE DEF s, Odd
<1>5. /\ DOMAIN Reverse(s) = DOMAIN s
      /\ \A k \in DOMAIN s : /\ n - k + 1 \in DOMAIN s /\ Reverse(s)[k] = s[n - k + 1]
                             /\ Reverse(s)[n - k + 1] = s[k]
  BY <1>1, ReversedPlaces
<1> HIDE DEF n
<1>6. \A d : V(Reverse(s), d) = V(s, d)
  <2> SUFFICES ASSUME NEW d PROVE V(Reverse(s), d) = V(s, d)  OBVIOUS
  <2>1. V(Reverse(s), d) \subseteq V(s, d)
    <3> SUFFICES ASSUME NEW x \in V(Reverse(s), d) PROVE x \in V(s, d)  OBVIOUS
    <3>1. PICK k \in DOMAIN s : Reverse(s)[k].type = d /\ x = Reverse(s)[k].volume  BY <1>5
    <3>2. n - k + 1 \in DOMAIN s /\ Reverse(s)[k] = s[n - k + 1]  BY <1>5
    <3> QED BY <3>1, <3>2
  <2>2. V(s, d) \subseteq V(Reverse(s), d)
    <3> SUFFICES ASSUME NEW x \in V(s, d) PROVE x \in V(Reverse(s), d)  OBVIOUS
    <3>1. PICK k \in DOMAIN s : s[k].type = d /\ x = s[k].volume  OBVIOUS
    <3>2. n - k + 1 \in DOMAIN Reverse(s) /\ Reverse(s)[n - k + 1] = s[k]  BY <1>5
    <3> QED BY <3>1, <3>2
  <2> QED BY <2>1, <2>2
<1>7. \A version : U(version, Reverse(s)) = U(version, s)
  <2> SUFFICES ASSUME NEW version PROVE U(version, Reverse(s)) = U(version, s)  OBVIOUS
  <2>1. U(version, Reverse(s)) \subseteq U(version, s)
    <3> SUFFICES ASSUME NEW x \in U(version, Reverse(s)) PROVE x \in U(version, s)  OBVIOUS
    <3>1. PICK k \in DOMAIN s : /\ Odd(version, Reverse(s)[k])
                                /\ x = Warn("UnknownDimension", Reverse(s)[k].type)
      BY <1>5
    <3>2. n - k + 1 \in DOMAIN s /\ Reverse(s)[k] = s[n - k + 1]  BY <1>5
    <3> QED BY <3>1, <3>2
  <2>2. U(version, s) \subseteq U(version, Reverse(s))
    <3> SUFFICES ASSUME NEW x \in U(version, s) PROVE x \in U(version, Reverse(s))  OBVIOUS
    <3>1. PICK k \in DOMAIN s : Odd(version, s[k]) /\ x = Warn("UnknownDimension", s[k].type)
      OBVIOUS
    <3>2. n - k + 1 \in DOMAIN Reverse(s) /\ Reverse(s)[n - k + 1] = s[k]  BY <1>5
    <3> QED BY <3>1, <3>2
  <2> QED BY <2>1, <2>2
<1> DEFINE W(q) == [d \in Volumed |-> V(q.dims, d)]
<1>8. W(Turned(cp)) = W(cp)
  <2>1. cp.dims = s  BY DEF s
  <2> HIDE DEF V
  <2>2. \A d : V(Turned(cp).dims, d) = V(cp.dims, d)  BY <1>1, <1>6, <2>1
  <2> QED BY <2>2
<1> HIDE DEF V, U, W
<1>9. \A tariff : PeriodToInput(Turned(cp), tariff) = PeriodToInput(cp, tariff)
  BY <1>1, <1>3, <1>4, <1>8 DEF W
<1>10. \A version : UnknownDimensions(version, Turned(cp)) = UnknownDimensions(version, cp)
  BY <1>1, <1>2, <1>7
<1> QED BY <1>9, <1>10

\* fromCDRMultiTariff reads a CDR alike whose periods are turned around, when no
\* average reading stands beside one of its bounds (periodToInput).
LEMMA TurnedReadAlike ==
    ASSUME NEW c \in CDRs, \A i \in DOMAIN c.periods : ~ MixedReadings(c.periods[i])
    PROVE  LET b == [c EXCEPT !.periods = [i \in DOMAIN @ |-> Turned(@[i])]]
           IN  /\ ReadAlike(b, c)
               /\ EmbeddedInput(b).warnings = EmbeddedInput(c).warnings
<1> DEFINE cps == c.periods
           qs == [i \in DOMAIN cps |-> Turned(cps[i])]
           b == [c EXCEPT !.periods = [i \in DOMAIN @ |-> Turned(@[i])]]
<1>1. b = [c EXCEPT !.periods = qs]  OBVIOUS
<1>2. cps \in Seq(ChargingPeriods)  BY DEF CDRs
<1>3. /\ b.version = c.version /\ b.currency = c.currency /\ b.countryZone = c.countryZone
      /\ b.start = c.start /\ b.end = c.end /\ b.tariffs = c.tariffs /\ b.periods = qs
  <2> HIDE DEF qs, b
  <2> QED BY <1>1 DEF CDRs
<1>4. \A i \in DOMAIN cps :
        /\ Turned(cps[i]).tariffId = cps[i].tariffId
        /\ DuplicateDimension(Turned(cps[i])) <=> DuplicateDimension(cps[i])
        /\ \A tariff : PeriodToInput(Turned(cps[i]), tariff) = PeriodToInput(cps[i], tariff)
        /\ \A version : UnknownDimensions(version, Turned(cps[i]))
                           = UnknownDimensions(version, cps[i])
  <2> SUFFICES ASSUME NEW i \in DOMAIN cps
               PROVE  /\ Turned(cps[i]).tariffId = cps[i].tariffId
                      /\ DuplicateDimension(Turned(cps[i])) <=> DuplicateDimension(cps[i])
                      /\ \A tariff : PeriodToInput(Turned(cps[i]), tariff)
                                        = PeriodToInput(cps[i], tariff)
                      /\ \A version : UnknownDimensions(version, Turned(cps[i]))
                                         = UnknownDimensions(version, cps[i])
    OBVIOUS
  <2>1. cps[i] \in ChargingPeriods  BY <1>2
  <2>2. ~ MixedReadings(cps[i])  OBVIOUS
  <2> QED BY <2>1, <2>2, TurnedFields, TurnedDuplicates, TurnedPeriod
<1>5. DOMAIN qs = DOMAIN cps /\ \A i \in DOMAIN cps : qs[i] = Turned(cps[i])  OBVIOUS
<1> HIDE DEF b, qs
<1>6. EmbeddedRefused(b) <=> EmbeddedRefused(c)
  <2>1. (\E i \in DOMAIN qs : DuplicateDimension(qs[i]) \/ UnknownTariff(c.tariffs, qs[i].tariffId))
        <=> \E i \in DOMAIN cps : \/ DuplicateDimension(cps[i])
                                 \/ UnknownTariff(c.tariffs, cps[i].tariffId)
    <3> HIDE DEF cps
    <3> QED BY <1>4, <1>5
  <2> QED BY <1>3, <2>1, Zenon DEF EmbeddedRefused
<1>7. IndexOf(b) = IndexOf(c)
  <2> DEFINE I(rs) == [i \in DOMAIN rs |-> ResolveTariffIndex(c.tariffs, rs[i].tariffId)]
  <2>1. I(qs) = I(cps)  BY <1>4, <1>5
  <2>2. IndexOf(b) = I(qs) /\ IndexOf(c) = I(cps)  BY <1>3 DEF IndexOf
  <2> QED BY <2>1, <2>2
<1> DEFINE x == EmbeddedInput(b)
           y == EmbeddedInput(c)
           ts(z) == [t \in DOMAIN z.tariffs |-> TariffToInput(z.version, z.tariffs[t])]
           ps(z) == [i \in DOMAIN z.periods |-> PeriodToInput(z.periods[i], IndexOf(z)[i])]
           ws(z) == UNION {UnknownDimensions(z.version, z.periods[i]) : i \in DOMAIN z.periods}
<1>8. /\ x.start = b.start /\ x.end = b.end /\ x.currency = b.currency
      /\ x.countryZone = b.countryZone /\ x.tariffs = ts(b) /\ x.periods = ps(b)
      /\ x.warnings = ws(b)
  BY InputFields DEF EmbeddedInput
<1>9. /\ y.start = c.start /\ y.end = c.end /\ y.currency = c.currency
      /\ y.countryZone = c.countryZone /\ y.tariffs = ts(c) /\ y.periods = ps(c)
      /\ y.warnings = ws(c)
  BY InputFields DEF EmbeddedInput
<1>10. ts(b) = ts(c)  BY <1>3
<1>11. ps(b) = ps(c)  BY <1>3, <1>4, <1>5, <1>7
<1>12. ws(b) = ws(c)
  <2>1. \A i \in DOMAIN cps : UnknownDimensions(c.version, qs[i]) = UnknownDimensions(c.version, cps[i])
    BY <1>4, <1>5
  <2>2. {UnknownDimensions(c.version, qs[i]) : i \in DOMAIN qs}
          = {UnknownDimensions(c.version, cps[i]) : i \in DOMAIN cps}
    <3> HIDE DEF cps
    <3> QED BY <2>1, <1>5
  <2> QED BY <1>3, <2>2
<1> HIDE DEF x, y, ts, ps, ws
<1>13. SameInput(x, y) /\ x.warnings = y.warnings
  BY <1>3, <1>8, <1>9, <1>10, <1>11, <1>12 DEF SameInput
<1> QED BY <1>6, <1>13 DEF ReadAlike, x, y, b

-----------------------------------------------------------------------------
(* Prices quoted with their tax.                                            *)

CdrComponents ==
    [type : STRING, price : Int, step : Int, vat : Opt({v \in Int : v >= -100})]
CdrElements ==
    [components : Seq(CdrComponents),
     restrictions : Opt([fields : Restrictions, booking : BOOLEAN, unknownDay : BOOLEAN])]

\* The elements of a tariff and their components.
LEMMA CdrTariffFields ==
    ASSUME NEW t \in CdrTariffs
    PROVE  /\ t.elements \in Seq(CdrElements)
           /\ \A e \in DOMAIN t.elements :
                /\ t.elements[e] \in CdrElements
                /\ t.elements[e].components \in Seq(CdrComponents)
                /\ \A j \in DOMAIN t.elements[e].components :
                     t.elements[e].components[j] \in CdrComponents
<1>1. t.elements \in Seq(CdrElements)  BY DEF CdrTariffs, CdrElements, CdrComponents
<1>2. \A e \in DOMAIN t.elements : t.elements[e] \in CdrElements  BY <1>1
<1>3. \A e \in DOMAIN t.elements : t.elements[e].components \in Seq(CdrComponents)
  BY <1>2 DEF CdrElements
<1>4. ASSUME NEW e \in DOMAIN t.elements, NEW j \in DOMAIN t.elements[e].components
      PROVE  t.elements[e].components[j] \in CdrComponents
  BY <1>3
<1> QED BY <1>1, <1>2, <1>3, <1>4

\* The net price of a gross price in whole units is the price.
LEMMA NetOfGross ==
    ASSUME NEW price \in Int, NEW v \in Int, v > -100, (price * (100 + v)) % 100 = 0
    PROVE  NetPrice((price * (100 + v)) \div 100, v) = price
<1> DEFINE d == 100 + v
           n == price * d
           q == n \div d
           r == n % d
<1>1. d \in Nat \ {0} /\ n \in Int  OBVIOUS
<1>2. 100 * (n \div 100) = n
  <2> HIDE DEF n
  <2>1. n \div 100 \in Int /\ n = 100 * (n \div 100) + (n % 100)
    BY <1>1, DivisionFacts, 100 \in Nat \ {0}
  <2>2. n % 100 = 0  BY DEF n
  <2> QED BY <2>1, <2>2
<1>3. q = price /\ r = 0
  <2>1. q \in Int /\ r \in 0 .. d - 1 /\ n = d * q + r
    <3> HIDE DEF d, n
    <3> QED BY <1>1, DivisionFacts
  <2> HIDE DEF q, r
  <2>2. n = d * price  OBVIOUS
  <2> HIDE DEF n
  <2>3. d * (price - q) = r
    <3>1. d * (price - q) = d * price - d * q  BY <1>1, <2>1
    <3> QED BY <1>1, <2>1, <2>2, <3>1
  <2>4. CASE price - q >= 1
    <3>1. d * (price - q) >= d  BY <1>1, <2>1, <2>4
    <3> QED BY <1>1, <2>1, <2>3, <3>1
  <2>5. CASE price - q <= -1
    <3>1. d * (price - q) <= -d  BY <1>1, <2>1, <2>5
    <3> QED BY <1>1, <2>1, <2>3, <3>1
  <2>6. CASE price = q  BY <1>1, <2>1, <2>3, <2>6
  <2> QED BY <2>1, <2>4, <2>5, <2>6
<1>4. RoundBank(n, d) = price
  <2>1. RoundBank(n, d) = IF 2 * r < d \/ (2 * r = d /\ q % 2 = 0) THEN q ELSE q + 1
    BY DEF RoundBank
  <2> HIDE DEF q, r, n, d
  <2> QED BY <1>1, <1>3, <2>1
<1>5. NetPrice(n \div 100, v) = RoundBank(100 * (n \div 100), d)  BY DEF NetPrice
<1> HIDE DEF n
<1>6. NetPrice(n \div 100, v) = price  BY <1>2, <1>4, <1>5
<1> QED BY <1>6 DEF n

\* priceComponentToInput takes back off a gross price the tax it was quoted with.
LEMMA GrossComponentIsTheSame ==
    ASSUME NEW c \in CdrComponents, \A v \in c.vat : v # -100 /\ (c.price * (100 + v)) % 100 = 0,
           NEW tax \in {"NO", "unset"}
    PROVE  /\ PriceComponent230(GrossComponent(c), "YES") = PriceComponent230(c, tax)
           /\ GrossComponent(c).type = c.type /\ GrossComponent(c).vat = c.vat
<1> DEFINE g == GrossComponent(c)
           v == CHOOSE x \in c.vat : TRUE
           gp == IF c.vat = {} THEN c.price ELSE (c.price * (100 + v)) \div 100
           vat == c.vat
           price == c.price
<1>1. vat \in Opt({x \in Int : x >= -100}) /\ price \in Int  BY DEF CdrComponents
<1>2. g.type = c.type /\ g.vat = c.vat /\ g.step = c.step /\ g.price = gp
  <2>1. g = [c EXCEPT !.price = gp]  BY Zenon DEF GrossComponent
  <2> HIDE DEF g, gp
  <2> QED BY <2>1 DEF CdrComponents
<1>3. vat # {} => v \in vat /\ v \in Int /\ v > -100 /\ (price * (100 + v)) % 100 = 0
  <2>1. vat # {} => v \in vat  OBVIOUS
  <2> HIDE DEF v
  <2>2. \A x \in vat : x \in Int /\ x >= -100  BY <1>1 DEF Opt
  <2>3. \A x \in vat : x # -100 /\ (price * (100 + x)) % 100 = 0  OBVIOUS
  <2>4. \A x \in Int : x >= -100 /\ x # -100 => x > -100  OBVIOUS
  <2> HIDE DEF vat, price
  <2> QED BY <2>1, <2>2, <2>3, <2>4
<1>4. vat # {} => NetPrice(gp, v) = price
  <2> SUFFICES ASSUME vat # {} PROVE NetPrice(gp, v) = price  OBVIOUS
  <2>1. gp = (price * (100 + v)) \div 100  OBVIOUS
  <2> HIDE DEF gp, v, vat, price
  <2>2. v \in Int /\ v > -100 /\ (price * (100 + v)) % 100 = 0 /\ price \in Int  BY <1>1, <1>3
  <2>3. NetPrice((price * (100 + v)) \div 100, v) = price  BY <2>2, NetOfGross
  <2> QED BY <2>1, <2>3
<1>5. PriceComponent230(g, "YES") =
        [type |-> g.type,
         price |-> IF g.vat # {} THEN NetPrice(g.price, CHOOSE x \in g.vat : TRUE) ELSE g.price,
         step |-> g.step, taxes |-> PercentTaxes(g.vat)]
  <2> HIDE DEF g
  <2> QED BY DEF PriceComponent230
<1>6. PriceComponent230(c, tax) =
        [type |-> c.type, price |-> c.price, step |-> c.step, taxes |-> PercentTaxes(c.vat)]
  BY DEF PriceComponent230
<1> DEFINE netted == IF vat # {} THEN NetPrice(gp, v) ELSE gp
<1>7. netted = price  BY <1>4
<1>8. PriceComponent230(g, "YES") =
        [type |-> c.type, price |-> netted, step |-> c.step, taxes |-> PercentTaxes(c.vat)]
  <2> HIDE DEF g, gp
  <2> QED BY <1>2, <1>5
<1> HIDE DEF g, netted
<1> QED BY <1>2, <1>6, <1>7, <1>8 DEF g

\* So a tariff rewritten with its taxes is converted to the same input.
LEMMA GrossTariffIsTheSame ==
    ASSUME NEW t \in CdrTariffs, HasGross(t)
    PROVE  /\ TariffToInput("2.3.0", Gross(t)) = TariffToInput("2.3.0", t)
           /\ TariffRefused("2.3.0", Gross(t)) <=> TariffRefused("2.3.0", t)
           /\ Gross(t).id = t.id
<1> DEFINE g == Gross(t)
           els == [e \in DOMAIN t.elements |-> GrossElement(t.elements[e])]
           cs(e) == t.elements[e].components
<1>1. /\ t.taxIncluded \in {"NO", "unset"}
      /\ \A e \in DOMAIN t.elements : \A j \in DOMAIN cs(e) :
            \A v \in cs(e)[j].vat : v # -100 /\ (cs(e)[j].price * (100 + v)) % 100 = 0
  BY DEF HasGross
<1>2. /\ g.id = t.id /\ g.currency = t.currency /\ g.validFrom = t.validFrom
      /\ g.validUntil = t.validUntil /\ g.minPrice = t.minPrice /\ g.maxPrice = t.maxPrice
      /\ g.taxIncluded = "YES" /\ g.elements = els
  <2>1. g = [t EXCEPT !.taxIncluded = "YES", !.elements = els]  BY Zenon DEF Gross
  <2> HIDE DEF g, els
  <2> QED BY <2>1 DEF CdrTariffs
<1>3. /\ DOMAIN els = DOMAIN t.elements
      /\ \A e \in DOMAIN t.elements :
           /\ els[e].restrictions = t.elements[e].restrictions
           /\ els[e].components = [j \in DOMAIN cs(e) |-> GrossComponent(cs(e)[j])]
  <2>1. \A x \in CdrElements :
          /\ GrossElement(x).restrictions = x.restrictions
          /\ GrossElement(x).components = [j \in DOMAIN x.components |-> GrossComponent(x.components[j])]
    BY DEF GrossElement, CdrElements
  <2>2. \A e \in DOMAIN t.elements : t.elements[e] \in CdrElements  BY CdrTariffFields
  <2>3. \A e \in DOMAIN t.elements : els[e] = GrossElement(t.elements[e])  OBVIOUS
  <2>4. DOMAIN els = DOMAIN t.elements  OBVIOUS
  <2> HIDE DEF els
  <2> QED BY <2>1, <2>2, <2>3, <2>4
<1>4. \A e \in DOMAIN t.elements : \A j \in DOMAIN cs(e) :
        /\ PriceComponent230(GrossComponent(cs(e)[j]), "YES") = PriceComponent230(cs(e)[j], t.taxIncluded)
        /\ GrossComponent(cs(e)[j]).type = cs(e)[j].type
        /\ GrossComponent(cs(e)[j]).vat = cs(e)[j].vat
  <2> SUFFICES ASSUME NEW e \in DOMAIN t.elements, NEW j \in DOMAIN cs(e)
               PROVE  /\ PriceComponent230(GrossComponent(cs(e)[j]), "YES")
                           = PriceComponent230(cs(e)[j], t.taxIncluded)
                      /\ GrossComponent(cs(e)[j]).type = cs(e)[j].type
                      /\ GrossComponent(cs(e)[j]).vat = cs(e)[j].vat
    OBVIOUS
  <2> DEFINE c == cs(e)[j]
             tax == t.taxIncluded
  <2>1. c \in CdrComponents  BY CdrTariffFields
  <2>2. \A v \in c.vat : v # -100 /\ (c.price * (100 + v)) % 100 = 0  BY <1>1
  <2>3. tax \in {"NO", "unset"}  BY <1>1
  <2> HIDE DEF c, tax
  <2>4. /\ PriceComponent230(GrossComponent(c), "YES") = PriceComponent230(c, tax)
        /\ GrossComponent(c).type = c.type /\ GrossComponent(c).vat = c.vat
    BY <2>1, <2>2, <2>3, GrossComponentIsTheSame
  <2> QED BY <2>4 DEF c, tax
<1> HIDE DEF g, els
<1> DEFINE comps(x, tax) == [j \in DOMAIN x.components |-> PriceComponent230(x.components[j], tax)]
           E(x) == [e \in DOMAIN x.elements |->
                      [components |-> comps(x.elements[e], x.taxIncluded),
                       restrictions |-> RestrictionsToInput("2.3.0", x.elements[e].restrictions)]]
<1>5. \A x : TariffToInput("2.3.0", x) =
        [currency |-> x.currency, validFrom |-> x.validFrom, validUntil |-> x.validUntil,
         minPrice |-> MoneyFromPriceLimit(x.minPrice), maxPrice |-> MoneyFromPriceLimit(x.maxPrice),
         elements |-> E(x)]
  <2>1. "2.3.0" # "2.2.1"  OBVIOUS
  <2> QED BY <2>1 DEF TariffToInput
<1>6. E(g) = E(t)
  <2>1. ASSUME NEW e \in DOMAIN t.elements
        PROVE  comps(els[e], "YES") = comps(t.elements[e], t.taxIncluded)
    <3> DEFINE ds == [j \in DOMAIN cs(e) |-> GrossComponent(cs(e)[j])]
    <3>1. els[e].components = ds /\ t.elements[e].components = cs(e)  BY <1>3
    <3>2. DOMAIN ds = DOMAIN cs(e) /\ \A j \in DOMAIN cs(e) : ds[j] = GrossComponent(cs(e)[j])
      OBVIOUS
    <3> HIDE DEF ds, cs
    <3>3. \A j \in DOMAIN cs(e) : PriceComponent230(ds[j], "YES")
                                    = PriceComponent230(cs(e)[j], t.taxIncluded)
      BY <1>4, <3>2
    <3> QED BY <3>1, <3>2, <3>3
  <2> HIDE DEF comps
  <2> QED BY <1>2, <1>3, <2>1
<1> HIDE DEF E
<1>7. TariffToInput("2.3.0", g) = TariffToInput("2.3.0", t)  BY <1>2, <1>5, <1>6
<1> DEFINE bad(c, tax) == \/ c.type \notin ParseDimensionType
                          \/ tax = "YES" /\ c.vat = {-100}
           odd(x) == \E r \in x.restrictions : r.unknownDay
<1>8. \A x : TariffRefused("2.3.0", x) <=>
        \E e \in DOMAIN x.elements :
            \/ \E j \in DOMAIN x.elements[e].components : bad(x.elements[e].components[j], x.taxIncluded)
            \/ odd(x.elements[e])
  BY DEF TariffRefused
<1>9. \A e \in DOMAIN t.elements : \A j \in DOMAIN cs(e) :
        bad(GrossComponent(cs(e)[j]), "YES") <=> bad(cs(e)[j], t.taxIncluded)
  <2> SUFFICES ASSUME NEW e \in DOMAIN t.elements, NEW j \in DOMAIN cs(e)
               PROVE  bad(GrossComponent(cs(e)[j]), "YES") <=> bad(cs(e)[j], t.taxIncluded)
    OBVIOUS
  <2>1. \A v \in cs(e)[j].vat : v # -100  BY <1>1
  <2>2. cs(e)[j].vat # {-100}  BY <2>1
  <2>3. t.taxIncluded # "YES"  BY <1>1
  <2> QED BY <1>4, <2>2, <2>3
<1>10. TariffRefused("2.3.0", g) <=> TariffRefused("2.3.0", t)
  <2>1. \A e \in DOMAIN t.elements :
          (\E j \in DOMAIN els[e].components : bad(els[e].components[j], "YES")) <=>
          \E j \in DOMAIN cs(e) : bad(cs(e)[j], t.taxIncluded)
    <3> SUFFICES ASSUME NEW e \in DOMAIN t.elements
                 PROVE  (\E j \in DOMAIN els[e].components : bad(els[e].components[j], "YES")) <=>
                        \E j \in DOMAIN cs(e) : bad(cs(e)[j], t.taxIncluded)
      OBVIOUS
    <3> DEFINE ds == [j \in DOMAIN cs(e) |-> GrossComponent(cs(e)[j])]
    <3>1. els[e].components = ds  BY <1>3
    <3>2. DOMAIN ds = DOMAIN cs(e) /\ \A j \in DOMAIN cs(e) : ds[j] = GrossComponent(cs(e)[j])
      OBVIOUS
    <3> HIDE DEF ds, cs, bad
    <3>3. \A j \in DOMAIN cs(e) : bad(ds[j], "YES") <=> bad(cs(e)[j], t.taxIncluded)
      BY <1>9, <3>2
    <3> QED BY <3>1, <3>2, <3>3
  <2>2. \A e \in DOMAIN t.elements : odd(els[e]) <=> odd(t.elements[e])  BY <1>3
  <2> HIDE DEF bad, odd
  <2> QED BY <1>2, <1>3, <1>8, <2>1, <2>2
<1> QED BY <1>2, <1>7, <1>10 DEF g

\* Lists of tariffs with the same ids, in the same places.
SameIds(ts, us) ==
    DOMAIN ts = DOMAIN us /\ Len(ts) = Len(us) /\ \A t \in DOMAIN ts : ts[t].id = us[t].id

\* Resolution looks at nothing of a tariff but its id (resolveTariffIndex).
LEMMA SameIdsResolveAlike ==
    ASSUME NEW ts, NEW us, SameIds(ts, us)
    PROVE  /\ AmbiguousTariffs(ts) <=> AmbiguousTariffs(us)
           /\ \A id : UnknownTariff(ts, id) <=> UnknownTariff(us, id)
           /\ \A id : ResolveTariffIndex(ts, id) = ResolveTariffIndex(us, id)
<1>1. \A id : Named(ts, id) = Named(us, id)
  <2>1. \A id : Named(ts, id) \subseteq Named(us, id)  BY DEF SameIds, Named
  <2>2. \A id : Named(us, id) \subseteq Named(ts, id)  BY DEF SameIds, Named
  <2> QED BY <2>1, <2>2
<1>2. AmbiguousTariffs(ts) <=> AmbiguousTariffs(us)  BY DEF SameIds, AmbiguousTariffs
<1> QED BY <1>1, <1>2 DEF SameIds, UnknownTariff, ResolveTariffIndex

\* A CDR whose tariffs are rewritten with their taxes is read alike.
LEMMA GrossReadAlike ==
    ASSUME NEW c \in CDRs, c.version = "2.3.0", \A t \in DOMAIN c.tariffs : HasGross(c.tariffs[t])
    PROVE  ReadAlike([c EXCEPT !.tariffs = [t \in DOMAIN @ |-> Gross(@[t])]], c)
<1> DEFINE ts == c.tariffs
           us == [t \in DOMAIN ts |-> Gross(ts[t])]
           b == [c EXCEPT !.tariffs = [t \in DOMAIN @ |-> Gross(@[t])]]
<1>1. b = [c EXCEPT !.tariffs = us]  OBVIOUS
<1>2. ts \in Seq(CdrTariffs)  BY DEF CDRs
<1>3. /\ b.version = c.version /\ b.currency = c.currency /\ b.countryZone = c.countryZone
      /\ b.start = c.start /\ b.end = c.end /\ b.tariffs = us /\ b.periods = c.periods
  <2> HIDE DEF us, b
  <2> QED BY <1>1 DEF CDRs
<1>4. \A t \in DOMAIN ts :
        /\ TariffToInput("2.3.0", Gross(ts[t])) = TariffToInput("2.3.0", ts[t])
        /\ TariffRefused("2.3.0", Gross(ts[t])) <=> TariffRefused("2.3.0", ts[t])
        /\ Gross(ts[t]).id = ts[t].id
  <2> SUFFICES ASSUME NEW t \in DOMAIN ts
               PROVE  /\ TariffToInput("2.3.0", Gross(ts[t])) = TariffToInput("2.3.0", ts[t])
                      /\ TariffRefused("2.3.0", Gross(ts[t])) <=> TariffRefused("2.3.0", ts[t])
                      /\ Gross(ts[t]).id = ts[t].id
    OBVIOUS
  <2>1. ts[t] \in CdrTariffs  BY <1>2
  <2>2. HasGross(ts[t])  OBVIOUS
  <2> QED BY <2>1, <2>2, GrossTariffIsTheSame
<1>5. DOMAIN us = DOMAIN ts /\ \A t \in DOMAIN ts : us[t] = Gross(ts[t])  OBVIOUS
<1>6. Len(us) = Len(ts)
  <2>1. Len(ts) \in Nat /\ DOMAIN ts = 1 .. Len(ts)  BY <1>2, PlacesAreFinite
  <2>2. us = [t \in 1 .. Len(ts) |-> Gross(ts[t])]  BY <2>1
  <2> HIDE DEF ts
  <2> QED BY <2>1, <2>2
<1> HIDE DEF b, us
<1>7. SameIds(us, ts)
  <2> HIDE DEF ts
  <2> QED BY <1>4, <1>5, <1>6 DEF SameIds
<1>8. /\ AmbiguousTariffs(us) <=> AmbiguousTariffs(ts)
      /\ \A id : UnknownTariff(us, id) <=> UnknownTariff(ts, id)
      /\ \A id : ResolveTariffIndex(us, id) = ResolveTariffIndex(ts, id)
  <2> HIDE DEF ts
  <2> QED BY <1>7, SameIdsResolveAlike
<1>9. EmbeddedRefused(b) <=> EmbeddedRefused(c)
  <2>1. us = <<>> <=> ts = <<>>
    <3>1. \A s : s = <<>> => DOMAIN s = {}  OBVIOUS
    <3>2. us = [t \in DOMAIN ts |-> Gross(ts[t])]  BY DEF us
    <3>3. ts = <<>> => us = <<>>  BY <3>2, <3>1
    <3>4. DOMAIN ts = {} => ts = <<>>
      <4> HIDE DEF ts
      <4>1. DOMAIN ts = 1 .. Len(ts) /\ Len(ts) \in Nat  BY <1>2, PlacesAreFinite
      <4>2. DOMAIN ts = {} => Len(ts) = 0
        <5> SUFFICES ASSUME Len(ts) # 0, DOMAIN ts = {} PROVE FALSE  OBVIOUS
        <5>1. 1 \in DOMAIN ts  BY <4>1
        <5> QED BY <5>1
      <4> QED BY <1>2, <4>2
    <3> QED BY <3>1, <3>3, <3>4, <1>5
  <2>2. (\E t \in DOMAIN us : TariffRefused("2.3.0", us[t])) <=>
          \E t \in DOMAIN ts : TariffRefused("2.3.0", ts[t])
    <3> HIDE DEF ts
    <3> QED BY <1>4, <1>5
  <2>3. \A z : EmbeddedRefused(z) <=>
          \/ z.tariffs = <<>>
          \/ AmbiguousTariffs(z.tariffs)
          \/ \E t \in DOMAIN z.tariffs : TariffRefused(z.version, z.tariffs[t])
          \/ \E i \in DOMAIN z.periods : \/ DuplicateDimension(z.periods[i])
                                         \/ UnknownTariff(z.tariffs, z.periods[i].tariffId)
    BY Zenon DEF EmbeddedRefused
  <2>4. c.tariffs = ts  OBVIOUS
  <2> HIDE DEF ts
  <2> QED BY <1>3, <1>8, <2>1, <2>2, <2>3, <2>4
<1>10. IndexOf(b) = IndexOf(c)
  <2>1. c.tariffs = ts  OBVIOUS
  <2> HIDE DEF ts
  <2>2. \A id : ResolveTariffIndex(b.tariffs, id) = ResolveTariffIndex(c.tariffs, id)
    BY <1>3, <1>8, <2>1
  <2> QED BY <1>3, <2>2 DEF IndexOf
<1> DEFINE x == EmbeddedInput(b)
           y == EmbeddedInput(c)
           in(z) == [t \in DOMAIN z.tariffs |-> TariffToInput(z.version, z.tariffs[t])]
           ps(z) == [i \in DOMAIN z.periods |-> PeriodToInput(z.periods[i], IndexOf(z)[i])]
<1>11. /\ x.start = b.start /\ x.end = b.end /\ x.currency = b.currency
       /\ x.countryZone = b.countryZone /\ x.tariffs = in(b) /\ x.periods = ps(b)
  BY InputFields DEF EmbeddedInput
<1>12. /\ y.start = c.start /\ y.end = c.end /\ y.currency = c.currency
       /\ y.countryZone = c.countryZone /\ y.tariffs = in(c) /\ y.periods = ps(c)
  BY InputFields DEF EmbeddedInput
<1>13. in(b) = in(c)
  <2>1. c.tariffs = ts  OBVIOUS
  <2> HIDE DEF ts
  <2> QED BY <1>3, <1>4, <1>5, <2>1
<1>14. ps(b) = ps(c)  BY <1>3, <1>10
<1> HIDE DEF x, y, in, ps
<1>15. SameInput(x, y)  BY <1>3, <1>11, <1>12, <1>13, <1>14 DEF SameInput
<1> QED BY <1>9, <1>15 DEF ReadAlike, x, y, b

-----------------------------------------------------------------------------
(* The entry points.                                                        *)

\* What was answered is what the CDR at hand is priced at.
AnswersTheCdr == Answered("CalculateCDR") => reply.report = Priced(cdr)
AdapterInv == cdr \in CDRs /\ opts \in EngineOptions /\ AnswersTheCdr

\* An application prices any CDR, as often as it likes, in any of the four ways.
THEOREM AdapterInvariance == Spec => []AdapterInv
<1>1. Init => AdapterInv
  BY CdrsAssumption, OptionsAssumption DEF Init, AdapterInv, AnswersTheCdr, Answered
<1>2. AdapterInv /\ [Next]_vars => AdapterInv'
  <2> SUFFICES ASSUME AdapterInv, [Next]_vars PROVE AdapterInv'  OBVIOUS
  <2> USE DEF AdapterInv
  <2>1. ASSUME NEW op, NEW report, NEW verdict, Answer(op, report, verdict),
               op = "CalculateCDR" => report = Priced(cdr)
        PROVE  AdapterInv'
    <3>1. cdr' = cdr /\ opts' = opts /\ reply'.op = op /\ reply'.report = report
      BY <2>1 DEF Answer
    <3>2. Priced(cdr)' = Priced(cdr)  BY <3>1 DEF Priced
    <3> QED BY <2>1, <3>1, <3>2 DEF AnswersTheCdr, Answered
  <2>2. CASE CalculateCDR  BY <2>1, <2>2 DEF CalculateCDR
  <2>3. CASE VerifyCDR  BY <2>1, <2>3 DEF VerifyCDR
  <2>4. ASSUME NEW t \in DOMAIN cdr.tariffs, CalculateWithTariff(cdr.tariffs[t])
        PROVE  AdapterInv'
    BY <2>1, <2>4 DEF CalculateWithTariff
  <2>5. ASSUME NEW t \in DOMAIN cdr.tariffs, VerifyWithTariff(cdr.tariffs[t])
        PROVE  AdapterInv'
    BY <2>1, <2>5 DEF VerifyWithTariff
  <2>6. CASE UNCHANGED vars
    <3>1. cdr' = cdr /\ opts' = opts /\ reply' = reply  BY <2>6 DEF vars
    <3>2. Priced(cdr)' = Priced(cdr)  BY <3>1 DEF Priced
    <3> QED BY <3>1, <3>2 DEF AnswersTheCdr, Answered
  <2> QED BY <2>2, <2>3, <2>4, <2>5, <2>6 DEF Next
<1> QED BY <1>1, <1>2, PTL DEF Spec

\* A report with the amounts of the CDR's own is the bill that was answered.
LEMMA SameAmountsSameBill ==
    ASSUME NEW r, AnswersTheCdr, Answered("CalculateCDR"),
           r.error = Priced(cdr).error, r.cost = Priced(cdr).cost, r.total = Priced(cdr).total
    PROVE  SameBill(r)
<1>1. reply.report = Priced(cdr)  BY DEF AnswersTheCdr
<1> DEFINE s == Priced(cdr)
<1> HIDE DEF s
<1>2. reply.report = s /\ r.error = s.error /\ r.cost = s.cost /\ r.total = s.total
  BY <1>1 DEF s
<1> QED BY <1>2 DEF SameBill

\* A CDR that is read like the one at hand gets its bill.
LEMMA ReadAlikeSameBill ==
    ASSUME NEW b, ReadAlike(b, cdr), AnswersTheCdr, Answered("CalculateCDR")
    PROVE  SameBill(Priced(b))
<1>1. /\ Priced(b).error = Priced(cdr).error
      /\ Priced(b).cost = Priced(cdr).cost
      /\ Priced(b).total = Priced(cdr).total
  BY ReadAlikePricedAlike DEF Priced
<1> QED BY <1>1, SameAmountsSameBill

\* A session without v2.3.0's own features costs the same in both versions,
\* whatever its tariffs and periods.  (v221/pricing.go against v230/pricing.go)
THEOREM VersionsBillAlike == Spec => []VersionsAgree
<1>1. AdapterInv => VersionsAgree
  <2> SUFFICES ASSUME AdapterInv, Answered("CalculateCDR"),
                      \A t \in DOMAIN cdr.tariffs : Common(cdr.tariffs[t]),
                      NEW v \in {"2.2.1", "2.3.0"}
               PROVE  SameBill(Priced([cdr EXCEPT !.version = v]))
    BY DEF VersionsAgree
  <2>1. cdr \in CDRs /\ AnswersTheCdr  BY DEF AdapterInv
  <2>2. ReadAlike([cdr EXCEPT !.version = v], cdr)  BY <2>1, VersionsReadAlike
  <2> QED BY <2>1, <2>2, ReadAlikeSameBill
<1> QED BY <1>1, AdapterInvariance, PTL

\* The order of a period's dimensions decides nothing while no two of them set
\* the same reading.  (periodToInput)
THEOREM DimensionsBillAlike == Spec => []DimensionsAreUnordered
<1>1. AdapterInv => DimensionsAreUnordered
  <2> DEFINE b == [cdr EXCEPT !.periods = [i \in DOMAIN @ |-> Turned(@[i])]]
  <2> SUFFICES ASSUME AdapterInv, Answered("CalculateCDR"),
                      \A i \in DOMAIN cdr.periods : ~ MixedReadings(cdr.periods[i])
               PROVE  SameBill(Priced(b))
    BY DEF DimensionsAreUnordered
  <2>1. cdr \in CDRs /\ AnswersTheCdr  BY DEF AdapterInv
  <2>2. ReadAlike(b, cdr)  BY <2>1, TurnedReadAlike
  <2> HIDE DEF b
  <2> QED BY <2>1, <2>2, ReadAlikeSameBill
<1> QED BY <1>1, AdapterInvariance, PTL

\* A price quoted with its tax is the same price.  (priceComponentToInput)
THEOREM GrossPricesBillAlike == Spec => []TaxIncludedIsOnlyNotation
<1>1. AdapterInv => TaxIncludedIsOnlyNotation
  <2> DEFINE b == [cdr EXCEPT !.tariffs = [t \in DOMAIN @ |-> Gross(@[t])]]
  <2> SUFFICES ASSUME AdapterInv, Answered("CalculateCDR"), cdr.version = "2.3.0",
                      \A t \in DOMAIN cdr.tariffs : HasGross(cdr.tariffs[t])
               PROVE  SameBill(Priced(b))
    BY DEF TaxIncludedIsOnlyNotation
  <2>1. cdr \in CDRs /\ AnswersTheCdr  BY DEF AdapterInv
  <2>2. ReadAlike(b, cdr)  BY <2>1, GrossReadAlike
  <2> HIDE DEF b
  <2> QED BY <2>1, <2>2, ReadAlikeSameBill
<1> QED BY <1>1, AdapterInvariance, PTL

-----------------------------------------------------------------------------
(* The input a CDR is turned into is one the engine takes.                  *)

\* At most one thing, as a list.
LEMMA SequenceOfOpt ==
    ASSUME NEW S, NEW s \in Opt(S)
    PROVE  /\ SetToSeq(s) \in Seq(S)
           /\ s = {} => SetToSeq(s) = <<>>
           /\ \A x : s = {x} => SetToSeq(s) = <<x>>
<1>1. SetToSeq(s) = CHOOSE f \in [1 .. Cardinality(s) -> s] : IsInjective(f)  BY DEF SetToSeq
<1>2. CASE s = {}
  <2>1. Cardinality(s) = 0 /\ 1 .. 0 = {}  BY <1>2, FS_EmptySet
  <2>2. 1 .. Cardinality(s) = {}  BY <2>1
  <2> DEFINE e == [i \in {} |-> 0]
  <2>3. e \in [{} -> s] /\ IsInjective(e)  BY DEF IsInjective
  <2>4. SetToSeq(s) \in [{} -> s]  BY <1>1, <2>2, <2>3
  <2>5. \A f \in [{} -> s] : f = <<>>
    <3>1. <<>> \in [{} -> s]  OBVIOUS
    <3> QED BY <3>1
  <2> QED BY <1>2, <2>4, <2>5
<1>3. CASE s # {}
  <2>1. PICK x \in s : TRUE  BY <1>3
  <2>2. s = {x} /\ x \in S  BY <2>1 DEF Opt
  <2>3. Cardinality(s) = 1 /\ 1 .. 1 = {1}  BY <2>2, FS_Singleton
  <2>4. 1 .. Cardinality(s) = {1}  BY <2>3
  <2>5. <<x>> \in [{1} -> s] /\ IsInjective(<<x>>)  BY <2>2 DEF IsInjective
  <2>6. SetToSeq(s) \in [{1} -> s]  BY <1>1, <2>4, <2>5
  <2>7. \A f \in [{1} -> s] : f = <<x>>
    <3> SUFFICES ASSUME NEW f \in [{1} -> s] PROVE f = <<x>>  OBVIOUS
    <3>1. f[1] = x /\ f = [i \in {1} |-> f[i]]  BY <2>2
    <3>2. <<x>> = [i \in {1} |-> x]  BY <2>2, <2>5
    <3> QED BY <3>1, <3>2
  <2>8. SetToSeq(s) = <<x>>  BY <2>6, <2>7
  <2>9. ASSUME NEW y, s = {y} PROVE SetToSeq(s) = <<y>>
    <3>1. y = x  BY <2>2, <2>9
    <3> QED BY <2>8, <3>1
  <2>10. <<x>> \in Seq(S)  BY <2>2
  <2> QED BY <1>3, <2>8, <2>9, <2>10
<1> QED BY <1>2, <1>3

\* moneyFromPrice and moneyFromPriceLimit give the engine amounts of money.
LEMMA MoneyFromPriceTyped ==
    ASSUME NEW price \in Opt(Prices), NEW version
    PROVE  MoneyFromPrice(version, price) \in Opt(Moneys) /\ MoneyFromPriceLimit(price) \in Opt(Moneys)
<1>1. price \subseteq Prices /\ \A x, y \in price : x = y  BY DEF Opt
<1>2. \A p \in Prices : MoneyFromPrice221(p) \in Moneys
  BY DEF MoneyFromPrice221, Prices, Moneys
<1>3. \A p \in Prices : MoneyFromPrice230(p) \in Moneys
  <2> SUFFICES ASSUME NEW p \in Prices PROVE MoneyFromPrice230(p) \in Moneys  OBVIOUS
  <2> DEFINE taxes == p.taxes
             line(i) == [kind |-> "amount", value |-> taxes[i]]
             lines == [i \in DOMAIN taxes |-> line(i)]
  <2>1. taxes \in Seq(Int) /\ p.before \in Int  BY DEF Prices
  <2>2. lines \in Seq(TaxAmounts)
    <3> HIDE DEF taxes
    <3>1. DOMAIN taxes = 1 .. Len(taxes) /\ Len(taxes) \in Nat /\ \A i \in DOMAIN taxes : taxes[i] \in Int
      BY <2>1
    <3>2. \A i \in DOMAIN taxes : line(i) \in TaxAmounts  BY <3>1 DEF TaxAmounts
    <3> HIDE DEF line
    <3> QED BY <3>1, <3>2
  <2>3. MoneyFromPrice230(p) = [before |-> p.before, after |-> {}, taxes |-> lines]
    BY DEF MoneyFromPrice230
  <2>4. {} \in Opt(Int)  BY DEF Opt
  <2> HIDE DEF lines
  <2> QED BY <2>1, <2>2, <2>3, <2>4 DEF Moneys
<1>4. MoneyFromPriceLimit(price) \in Opt(Moneys)
  BY <1>1, <1>2 DEF MoneyFromPriceLimit, Opt
<1> DEFINE m(p) == IF version = "2.2.1" THEN MoneyFromPrice221(p) ELSE MoneyFromPrice230(p)
<1>5. \A p \in Prices : m(p) \in Moneys  BY <1>2, <1>3
<1>6. MoneyFromPrice(version, price) = {m(p) : p \in price}  BY DEF MoneyFromPrice
<1> HIDE DEF m
<1>7. {m(p) : p \in price} \in Opt(Moneys)  BY <1>1, <1>5 DEF Opt
<1> QED BY <1>4, <1>6, <1>7

\* A vat, if there is one, is a tax by percentage.
LEMMA PercentTaxesTyped ==
    ASSUME NEW S \in SUBSET Int, NEW vat \in Opt(S)
    PROVE  PercentTaxes(vat) \in Seq(TaxAmounts)
<1> DEFINE line(v) == [kind |-> "percent", value |-> v]
           lines == {line(v) : v \in vat}
<1>1. \A v \in vat : v \in Int  BY DEF Opt
<1>2. \A v, w \in vat : v = w  BY DEF Opt
<1>3. lines \in Opt(TaxAmounts)
  <2>1. \A v \in vat : line(v) \in TaxAmounts  BY <1>1 DEF TaxAmounts
  <2> HIDE DEF line
  <2> QED BY <1>2, <2>1 DEF Opt
<1>4. PercentTaxes(vat) = SetToSeq(lines)  BY DEF PercentTaxes
<1> HIDE DEF lines
<1> QED BY <1>3, <1>4, SequenceOfOpt

\* priceComponentToInput gives components the engine knows.
LEMMA PriceComponentTyped ==
    ASSUME NEW c \in CdrComponents, c.type \in Dims, NEW tax, ~ (tax = "YES" /\ c.vat = {-100})
    PROVE  PriceComponent221(c) \in PriceComponents /\ PriceComponent230(c, tax) \in PriceComponents
<1> DEFINE vat == c.vat
           v == CHOOSE x \in vat : TRUE
           price == IF tax = "YES" /\ vat # {} THEN NetPrice(c.price, v) ELSE c.price
           taxes == IF tax = "NA" THEN <<>> ELSE PercentTaxes(vat)
           S == {x \in Int : x >= -100}
<1>1. vat \in Opt(S) /\ c.price \in Int /\ c.step \in Int  BY DEF CdrComponents
<1>2. PercentTaxes(vat) \in Seq(TaxAmounts)
  <2> HIDE DEF vat
  <2> QED BY <1>1, PercentTaxesTyped
<1>3. taxes \in Seq(TaxAmounts)  BY <1>2
<1>4. price \in Int
  <2>1. CASE tax = "YES" /\ vat # {}
    <3> DEFINE n == 100 * c.price
               d == 100 + v
    <3>1. vat # {}  BY <2>1
    <3>2. v \in S /\ vat = {v}
      <4> HIDE DEF vat
      <4> QED BY <1>1, <3>1, OptFacts
    <3>3. v # -100  BY <2>1, <3>2
    <3> HIDE DEF v
    <3>4. n \in Int /\ d \in Nat \ {0}  BY <1>1, <3>2, <3>3
    <3>5. NetPrice(c.price, v) = RoundBank(n, d)  BY DEF NetPrice
    <3> HIDE DEF n, d
    <3>6. RoundBank(n, d) \in Int  BY <3>4, RoundBankIsNearest
    <3> QED BY <2>1, <3>5, <3>6
  <2>2. CASE ~ (tax = "YES" /\ vat # {})  BY <1>1, <2>2
  <2> QED BY <2>1, <2>2
<1>5. PriceComponent230(c, tax) = [type |-> c.type, price |-> price, step |-> c.step, taxes |-> taxes]
  BY DEF PriceComponent230
<1>6. PriceComponent221(c) =
        [type |-> c.type, price |-> c.price, step |-> c.step, taxes |-> PercentTaxes(vat)]
  BY DEF PriceComponent221
<1> HIDE DEF price, taxes
<1> QED BY <1>1, <1>2, <1>3, <1>4, <1>5, <1>6 DEF PriceComponents

\* restrictionsToInput gives restrictions the engine knows.
LEMMA RestrictionsToInputTyped ==
    ASSUME NEW rs \in Opt([fields : Restrictions, booking : BOOLEAN, unknownDay : BOOLEAN]),
           NEW version
    PROVE  RestrictionsToInput(version, rs) \in Restrictions
<1> DEFINE r == CHOOSE x \in rs : TRUE
<1>1. RestrictionsToInput(version, rs) =
        IF rs = {} THEN NoRestrictions
        ELSE [r.fields EXCEPT !.unsupported = version = "2.3.0" /\ r.booking]
  BY Zenon DEF RestrictionsToInput
<1>2. NoRestrictions \in Restrictions  BY DEF NoRestrictions, Restrictions, Opt
<1>3. ASSUME rs # {} PROVE [r.fields EXCEPT !.unsupported = version = "2.3.0" /\ r.booking] \in Restrictions
  <2>1. r \in [fields : Restrictions, booking : BOOLEAN, unknownDay : BOOLEAN]
    BY <1>3, OptFacts
  <2> DEFINE q == r.fields
             u == version = "2.3.0" /\ r.booking
  <2>2. q \in Restrictions /\ u \in BOOLEAN  BY <2>1
  <2> HIDE DEF q, u
  <2>3. [q EXCEPT !.unsupported = u] \in Restrictions  BY <2>2 DEF Restrictions
  <2> QED BY <2>3 DEF q, u
<1> HIDE DEF r
<1> QED BY <1>1, <1>2, <1>3

\* tariffToInput gives a tariff the engine knows, or refuses.
LEMMA TariffToInputTyped ==
    ASSUME NEW t \in CdrTariffs, NEW version, version \in {"2.2.1", "2.3.0"}, ~ TariffRefused(version, t)
    PROVE  TariffToInput(version, t) \in Tariffs
<1> DEFINE cs(e) == t.elements[e].components
           comp(c) == IF version = "2.2.1" THEN PriceComponent221(c)
                      ELSE PriceComponent230(c, t.taxIncluded)
           comps(e) == [j \in DOMAIN cs(e) |-> comp(cs(e)[j])]
           elem(e) == [components |-> comps(e),
                       restrictions |-> RestrictionsToInput(version, t.elements[e].restrictions)]
           els == [e \in DOMAIN t.elements |-> elem(e)]
<1>1. ASSUME NEW e \in DOMAIN t.elements
      PROVE  elem(e) \in Elements
  <2>1. /\ cs(e) \in Seq(CdrComponents)
        /\ \A j \in DOMAIN cs(e) : cs(e)[j] \in CdrComponents
        /\ t.elements[e] \in CdrElements
    BY CdrTariffFields
  <2>2. ASSUME NEW j \in DOMAIN cs(e)
        PROVE  comp(cs(e)[j]) \in PriceComponents
    <3> DEFINE c == cs(e)[j]
    <3>1. c.type \in ParseDimensionType /\ ~ (version = "2.3.0" /\ t.taxIncluded = "YES" /\ c.vat = {-100})
      BY DEF TariffRefused
    <3>2. c \in CdrComponents /\ c.type \in Dims  BY <2>1, <3>1 DEF ParseDimensionType
    <3> HIDE DEF c
    <3>3. CASE version = "2.2.1"
      <4>1. PriceComponent221(c) \in PriceComponents
        <5>1. ~ ("NO" = "YES" /\ c.vat = {-100})  OBVIOUS
        <5> QED BY <3>2, <5>1, PriceComponentTyped
      <4> QED BY <3>3, <4>1 DEF c
    <3>4. CASE version = "2.3.0"
      <4>1. PriceComponent230(c, t.taxIncluded) \in PriceComponents
        BY <3>1, <3>2, <3>4, PriceComponentTyped
      <4> QED BY <3>4, <4>1 DEF c
    <3> QED BY <3>3, <3>4
  <2>3. comps(e) \in Seq(PriceComponents)
    <3>1. DOMAIN cs(e) = 1 .. Len(cs(e)) /\ Len(cs(e)) \in Nat  BY <2>1, PlacesAreFinite
    <3> HIDE DEF cs, comp
    <3> QED BY <2>2, <3>1
  <2>4. RestrictionsToInput(version, t.elements[e].restrictions) \in Restrictions
    BY <2>1, RestrictionsToInputTyped DEF CdrElements
  <2> HIDE DEF comps
  <2> QED BY <2>3, <2>4 DEF Elements
<1>2. els \in Seq(Elements)
  <2>1. DOMAIN t.elements = 1 .. Len(t.elements) /\ Len(t.elements) \in Nat
    BY CdrTariffFields, PlacesAreFinite
  <2> HIDE DEF elem
  <2> QED BY <1>1, <2>1
<1>3. TariffToInput(version, t) =
        [currency |-> t.currency, validFrom |-> t.validFrom, validUntil |-> t.validUntil,
         minPrice |-> MoneyFromPriceLimit(t.minPrice), maxPrice |-> MoneyFromPriceLimit(t.maxPrice),
         elements |-> els]
  BY Zenon DEF TariffToInput
<1>4. /\ t.currency \in STRING /\ t.validFrom \in Opt(Int) /\ t.validUntil \in Opt(Int)
      /\ t.minPrice \in Opt(Prices) /\ t.maxPrice \in Opt(Prices)
  BY DEF CdrTariffs
<1>5. MoneyFromPriceLimit(t.minPrice) \in Opt(Moneys) /\ MoneyFromPriceLimit(t.maxPrice) \in Opt(Moneys)
  BY <1>4, MoneyFromPriceTyped
<1> HIDE DEF els
<1> QED BY <1>2, <1>3, <1>4, <1>5 DEF Tariffs

\* A period's dimensions are given once, so it has at most one volume of each.
LEMMA ReadingTyped ==
    ASSUME NEW cp \in ChargingPeriods, NEW field
    PROVE  Reading(cp, field) \in Opt(Int)
<1> DEFINE s == cp.dims
           ks == {k \in DOMAIN s : s[k].type \in DOMAIN ReadingFields
                                   /\ field \in ReadingFields[s[k].type]}
<1>1. s \in Seq(Dimensions)  BY DEF ChargingPeriods, Dimensions
<1>2. DOMAIN s \subseteq Int /\ IsFiniteSet(DOMAIN s) /\ \A k \in DOMAIN s : s[k] \in Dimensions
  <2> HIDE DEF s
  <2> QED BY <1>1, PlacesAreFinite
<1>3. Reading(cp, field) = IF ks = {} THEN {} ELSE {s[Max(ks)].volume}  BY DEF Reading
<1>4. ks \subseteq DOMAIN s  OBVIOUS
<1> HIDE DEF s, ks
<1>5. ks # {} => Max(ks) \in ks
  <2>1. ks \in SUBSET Int /\ IsFiniteSet(ks)  BY <1>2, <1>4, FS_Subset
  <2> QED BY <2>1, MaxFacts
<1>6. ks # {} => s[Max(ks)].volume \in Int  BY <1>2, <1>4, <1>5 DEF Dimensions
<1> QED BY <1>3, <1>6 DEF Opt

\* periodToInput gives a period with at most one volume of a dimension.
LEMMA PeriodToInputTyped ==
    ASSUME NEW cp \in ChargingPeriods, ~ DuplicateDimension(cp), NEW tariff \in Opt(Int)
    PROVE  PeriodToInput(cp, tariff) \in Periods
<1> DEFINE s == cp.dims
           ks(d) == {x \in DOMAIN s : s[x].type = d}
           vs(d) == {s[k].volume : k \in ks(d)}
           volume == [d \in Volumed |-> vs(d)]
<1>1. cp.start \in Int /\ s \in Seq(Dimensions)  BY DEF ChargingPeriods, Dimensions
<1>2. \A k \in DOMAIN s : s[k] \in Dimensions
  <2> HIDE DEF s
  <2> QED BY <1>1, PlacesAreFinite
<1>3. \A d : vs(d) \in Opt(Int)
  <2> SUFFICES ASSUME NEW d PROVE vs(d) \in Opt(Int)  OBVIOUS
  <2>1. \A j, k \in ks(d) : j = k  BY DEF DuplicateDimension
  <2>2. \A k \in ks(d) : s[k].volume \in Int  BY <1>2 DEF Dimensions
  <2> HIDE DEF ks, s
  <2> QED BY <2>1, <2>2 DEF Opt
<1>4. PeriodToInput(cp, tariff) =
        [start |-> cp.start, volume |-> volume,
         minPower |-> Reading(cp, "minPower"), maxPower |-> Reading(cp, "maxPower"),
         minCurrent |-> Reading(cp, "minCurrent"), maxCurrent |-> Reading(cp, "maxCurrent"),
         tariff |-> tariff]
  BY Zenon DEF PeriodToInput
<1> HIDE DEF vs
<1>5. volume \in [Volumed -> Opt(Int)]  BY <1>3
<1> HIDE DEF volume
<1> QED BY <1>1, <1>4, <1>5, ReadingTyped DEF Periods

\* index gives each period of c at most one tariff.
IsIndex(index, c) == index \in [DOMAIN c.periods -> Opt(Int)]

\* Tariffs and periods that the conversion does not refuse.
Convertible(c, tariffs) ==
    /\ \A t \in DOMAIN tariffs : ~ TariffRefused(c.version, tariffs[t])
    /\ \A i \in DOMAIN c.periods : ~ DuplicateDimension(c.periods[i])

\* What FromCDR and fromCDRMultiTariff build is an input of Calculate.
LEMMA ToInputTyped ==
    ASSUME NEW c \in CDRs, NEW us \in Seq(CdrTariffs), Convertible(c, us),
           NEW index, IsIndex(index, c)
    PROVE  ToInput(c, us, index) \in Inputs
<1> DEFINE ts == [t \in DOMAIN us |-> TariffToInput(c.version, us[t])]
           cps == c.periods
           ps == [i \in DOMAIN cps |-> PeriodToInput(cps[i], index[i])]
           ws == UNION {UnknownDimensions(c.version, cps[i]) : i \in DOMAIN cps}
           costs == [d \in Dims |-> MoneyFromPrice(c.version, c.totals.cost[d])]
           em == [total       |-> MoneyFromPrice(c.version, c.totals.total),
                  cost        |-> costs,
                  reservation |-> MoneyFromPrice(c.version, c.totals.reservation),
                  volume      |-> c.totals.volume]
<1>1. cps \in Seq(ChargingPeriods) /\ c.version \in {"2.2.1", "2.3.0"} /\ c.totals \in CdrTotals
  BY DEF CDRs
<1>2. ts \in Seq(Tariffs)
  <2>1. \A t \in DOMAIN us : TariffToInput(c.version, us[t]) \in Tariffs
    <3> SUFFICES ASSUME NEW t \in DOMAIN us PROVE TariffToInput(c.version, us[t]) \in Tariffs
      OBVIOUS
    <3>1. us[t] \in CdrTariffs /\ ~ TariffRefused(c.version, us[t])  BY DEF Convertible
    <3> QED BY <1>1, <3>1, TariffToInputTyped
  <2>2. DOMAIN us = 1 .. Len(us) /\ Len(us) \in Nat  BY PlacesAreFinite
  <2> QED BY <2>1, <2>2
<1>3. DOMAIN cps = 1 .. Len(cps) /\ Len(cps) \in Nat /\ \A i \in DOMAIN cps : cps[i] \in ChargingPeriods
  <2> HIDE DEF cps
  <2> QED BY <1>1, PlacesAreFinite
<1>4. \A i \in DOMAIN cps : ~ DuplicateDimension(cps[i]) /\ index[i] \in Opt(Int)
  BY DEF Convertible, IsIndex
<1> HIDE DEF cps
<1>5. ps \in Seq(Periods)
  <2>1. \A i \in DOMAIN cps : PeriodToInput(cps[i], index[i]) \in Periods
    BY <1>3, <1>4, PeriodToInputTyped
  <2> QED BY <1>3, <2>1
<1>6. ws \in SUBSET [code : {"UnknownDimension"}, subject : STRING]
  <2>1. ASSUME NEW i \in DOMAIN cps, NEW w \in UnknownDimensions(c.version, cps[i])
        PROVE  w \in [code : {"UnknownDimension"}, subject : STRING]
    <3> DEFINE s == cps[i].dims
    <3>1. s \in Seq(Dimensions)  BY <1>3 DEF ChargingPeriods, Dimensions
    <3>2. \A k \in DOMAIN s : s[k].type \in STRING
      <4>1. \A x \in Dimensions : x.type \in STRING  BY DEF Dimensions
      <4> HIDE DEF s
      <4> QED BY <3>1, <4>1, PlacesAreFinite
    <3>3. PICK k \in DOMAIN s : w = Warn("UnknownDimension", s[k].type)  BY <2>1 DEF UnknownDimensions
    <3>4. \A x \in STRING : Warn("UnknownDimension", x) \in [code : {"UnknownDimension"}, subject : STRING]
      BY DEF Warn
    <3> HIDE DEF s
    <3> QED BY <3>2, <3>3, <3>4
  <2> QED BY <2>1
<1>7. em \in EmbeddedTotals
  <2>1. /\ c.totals.total \in Opt(Prices) /\ c.totals.reservation \in Opt(Prices)
        /\ c.totals.volume \in [{"ENERGY", "TIME"} -> Opt(Int)]
        /\ \A d \in Dims : c.totals.cost[d] \in Opt(Prices)
    BY <1>1 DEF CdrTotals
  <2>2. costs \in [Dims -> Opt(Moneys)]  BY <2>1, MoneyFromPriceTyped
  <2>3. /\ MoneyFromPrice(c.version, c.totals.total) \in Opt(Moneys)
        /\ MoneyFromPrice(c.version, c.totals.reservation) \in Opt(Moneys)
    BY <2>1, MoneyFromPriceTyped
  <2> HIDE DEF costs
  <2> QED BY <2>1, <2>2, <2>3 DEF EmbeddedTotals
<1>8. ToInput(c, us, index) =
        [start |-> c.start, end |-> c.end, currency |-> c.currency, countryZone |-> c.countryZone,
         tariffs |-> ts, embedded |-> em, periods |-> ps, warnings |-> ws]
  <2>1. NewNeutralInput(c, us).embedded = em  BY DEF NewNeutralInput
  <2> QED BY <2>1, InputFields DEF cps
<1>9. /\ c.start \in Int /\ c.end \in Int /\ c.currency \in STRING /\ c.countryZone \in Opt(Int)
  BY DEF CDRs
<1> HIDE DEF ts, ps, ws, em
<1> QED BY <1>2, <1>5, <1>6, <1>7, <1>8, <1>9 DEF Inputs

\* The tariff a period of an accepted CDR resolves to is one of those embedded.
LEMMA IndexOfTyped ==
    ASSUME NEW c \in CDRs, ~ EmbeddedRefused(c)
    PROVE  /\ IsIndex(IndexOf(c), c)
           /\ \A i \in DOMAIN c.periods : IndexOf(c)[i] \subseteq DOMAIN c.tariffs
           /\ Convertible(c, c.tariffs) /\ EmbeddedInput(c) \in Inputs
<1> DEFINE ts == c.tariffs
           index == IndexOf(c)
<1>1. ts \in Seq(CdrTariffs) /\ c.periods \in Seq(ChargingPeriods)  BY DEF CDRs
<1>2. ~ AmbiguousTariffs(ts)  BY DEF EmbeddedRefused
<1>3. ASSUME NEW i \in DOMAIN c.periods
      PROVE  index[i] \in Opt(Int) /\ index[i] \subseteq DOMAIN ts
  <2> DEFINE id == c.periods[i].tariffId
  <2>1. index[i] = ResolveTariffIndex(ts, id)  BY DEF IndexOf
  <2>2. IsTariffId(id)
    <3>1. c.periods[i] \in ChargingPeriods  BY <1>1
    <3> QED BY <3>1 DEF ChargingPeriods, Opt, IsTariffId
  <2> HIDE DEF id, index, ts
  <2>3. \A x \in ResolveTariffIndex(ts, id) :
          x \in DOMAIN ts /\ \A y \in ResolveTariffIndex(ts, id) : y = x
    <3> SUFFICES ASSUME NEW x \in ResolveTariffIndex(ts, id)
                 PROVE  x \in DOMAIN ts /\ \A y \in ResolveTariffIndex(ts, id) : y = x
      OBVIOUS
    <3> QED BY <1>1, <1>2, <2>2, ResolutionIsUnique
  <2>4. DOMAIN ts \subseteq Int  BY <1>1, PlacesAreFinite
  <2> QED BY <2>1, <2>3, <2>4 DEF Opt
<1>4. index = [i \in DOMAIN c.periods |-> index[i]]  BY DEF IndexOf
<1>5. Convertible(c, ts)  BY DEF EmbeddedRefused, Convertible
<1>6. IsIndex(index, c)
  <2> HIDE DEF index
  <2> QED BY <1>3, <1>4 DEF IsIndex
<1>7. ToInput(c, ts, index) \in Inputs
  <2> HIDE DEF ts, index
  <2> QED BY <1>1, <1>5, <1>6, ToInputTyped
<1> QED BY <1>3, <1>5, <1>6, <1>7 DEF EmbeddedInput

-----------------------------------------------------------------------------
(* A CDR that carries the totals of its own report.                         *)

\* An amount in the price type of a CDR, and back.
PriceOf(m) == [before |-> m.before, after |-> AfterTax(m),
               taxes  |-> SetToSeq({x - 100 * m.before : x \in AfterTax(m)})]
ReadPrice(version, p) == IF version = "2.2.1" THEN MoneyFromPrice221(p) ELSE MoneyFromPrice230(p)

\* An amount written as a price of either version is read back as it was.
LEMMA PricesReadBack ==
    ASSUME NEW m \in Moneys, NEW version
    PROVE  /\ ReadPrice(version, PriceOf(m)).before = m.before
           /\ AfterTax(ReadPrice(version, PriceOf(m))) = AfterTax(m)
<1> DEFINE after == AfterTax(m)
           before == m.before
           S == {x - 100 * before : x \in after}
           T == SetToSeq(S)
<1>1. after \in Opt(Int) /\ before \in Int
  <2>1. before \in Int  BY DEF Moneys
  <2> QED BY <2>1, AfterTaxIsOpt
<1>2. PriceOf(m) = [before |-> before, after |-> after, taxes |-> T]  BY DEF PriceOf
<1> HIDE DEF after, before
<1>3. S \in Opt(Int) /\ (S = {} <=> after = {}) /\ \A x \in after : S = {x - 100 * before}
  <2>1. after \subseteq Int /\ \A x, y \in after : x = y  BY <1>1 DEF Opt
  <2>2. \A x \in after : x - 100 * before \in Int  BY <1>1, <2>1
  <2>3. \A x \in after : S = {x - 100 * before}  BY <2>1
  <2> QED BY <2>1, <2>2, <2>3 DEF Opt
<1>4. T \in Seq(Int) /\ (S = {} => T = <<>>) /\ \A x : S = {x} => T = <<x>>
  <2> HIDE DEF S
  <2> QED BY <1>3, SequenceOfOpt
<1> HIDE DEF S, T
<1>5. CASE version = "2.2.1"
  <2> DEFINE q == ReadPrice(version, PriceOf(m))
  <2>1. q = [before |-> before, taxes |-> <<>>, after |-> after]
    BY <1>2, <1>5 DEF ReadPrice, MoneyFromPrice221
  <2> HIDE DEF q
  <2>2. ~ TaxesKnown(<<>>)  BY DEF TaxesKnown
  <2>3. q.before = before /\ AfterTax(q) = after  BY <2>1, <2>2 DEF AfterTax
  <2> QED BY <2>3 DEF q, before, after
<1>6. CASE version # "2.2.1"
  <2> DEFINE q == ReadPrice(version, PriceOf(m))
             line(i) == [kind |-> "amount", value |-> T[i]]
             lines == [i \in DOMAIN T |-> line(i)]
  <2>1. q = [before |-> before, after |-> {}, taxes |-> lines]
    BY <1>2, <1>6 DEF ReadPrice, MoneyFromPrice230
  <2>2. AfterTax(q) = IF TaxesKnown(lines) THEN {100 * before + SumTaxes(before, lines)} ELSE {}
    <3> HIDE DEF q, lines
    <3> QED BY <2>1 DEF AfterTax
  <2>3. CASE after = {}
    <3>1. T = <<>>  BY <1>3, <1>4, <2>3
    <3>2. lines = <<>>  BY <3>1
    <3>3. ~ TaxesKnown(lines)  BY <3>2 DEF TaxesKnown
    <3> HIDE DEF q, lines
    <3>4. q.before = before /\ AfterTax(q) = after  BY <2>1, <2>2, <2>3, <3>3
    <3> QED BY <3>4 DEF q, before, after
  <2>4. CASE after # {}
    <3>1. PICK x \in after : TRUE  BY <2>4
    <3> DEFINE z == x - 100 * before
    <3>2. after = {x} /\ x \in Int /\ z \in Int /\ 100 * before + z = x
      <4>1. after = {x} /\ x \in Int  BY <1>1, <3>1 DEF Opt
      <4>2. \A b, y \in Int : y - 100 * b \in Int /\ 100 * b + (y - 100 * b) = y  OBVIOUS
      <4> QED BY <1>1, <4>1, <4>2
    <3>3. T = <<z>>  BY <1>3, <1>4, <3>1
    <3>4. DOMAIN lines = {1} /\ lines[1].kind = "amount" /\ lines[1].value = z
      <4>1. DOMAIN T = {1} /\ T[1] = z  BY <3>3
      <4> HIDE DEF z
      <4> QED BY <4>1
    <3> HIDE DEF lines, z, q
    <3>5. TaxesKnown(lines)
      <4>1. lines # <<>>  BY <3>4
      <4> QED BY <3>4, <4>1 DEF TaxesKnown
    <3>6. SumTaxes(before, lines) = z
      <4> DEFINE f == [i \in DOMAIN lines |-> TaxLine(before, lines[i])]
      <4>1. DOMAIN f = {1} /\ f[1] = z  BY <3>4 DEF TaxLine
      <4>2. SumTaxes(before, lines) = SumFunctionOnSet(f, {1})
        BY <4>1 DEF SumTaxes, SumFunction
      <4> HIDE DEF f
      <4>3. SumFunctionOnSet(f, {1}) = f[1] + SumFunctionOnSet(f, {1} \ {1})
        <5>1. IsFiniteSet({1}) /\ \A i \in {1} : f[i] \in Int  BY <3>2, <4>1, FS_Singleton
        <5> QED BY <5>1, SumTakesAny
      <4>4. SumFunctionOnSet(f, {1} \ {1}) = 0
        <5>1. {1} \ {1} = {}  OBVIOUS
        <5> QED BY <5>1, SumOfNone
      <4> QED BY <3>2, <4>1, <4>2, <4>3, <4>4
    <3>7. q.before = before /\ AfterTax(q) = after  BY <2>1, <2>2, <3>2, <3>5, <3>6
    <3> QED BY <3>7 DEF q, before, after
  <2> QED BY <2>3, <2>4
<1> QED BY <1>5, <1>6

\* What is compared with itself does not differ.
LEMMA OwnAmountsMatch ==
    ASSUME NEW m \in Moneys, NEW version, NEW tolerance \in Nat, NEW field
    PROVE  LET embedded == MoneyFromPrice(version, {PriceOf(m)})
           IN  /\ MoneyMismatches(field, m, embedded, tolerance) = {}
               /\ ~ AfterTaxNotDerivable(m, embedded)
               /\ embedded # {}
<1> DEFINE q == ReadPrice(version, PriceOf(m))
           embedded == MoneyFromPrice(version, {PriceOf(m)})
<1>1. embedded = {q}  BY DEF MoneyFromPrice, ReadPrice
<1>2. q.before = m.before /\ AfterTax(q) = AfterTax(m)  BY PricesReadBack
<1>3. AfterTax(m) \in Opt(Int) /\ m.before \in Int
  <2>1. m.before \in Int  BY DEF Moneys
  <2> QED BY <2>1, AfterTaxIsOpt
<1> HIDE DEF q, embedded
<1>4. \A x \in Int : Apart(x, x) = 0  BY DEF Apart
<1>5. ~ (Apart(m.before, q.before) > tolerance)  BY <1>2, <1>3, <1>4
<1>6. \A x \in AfterTax(m), y \in AfterTax(q) : ~ (Apart(x, y) > 100 * tolerance)
  <2> SUFFICES ASSUME NEW x \in AfterTax(m), NEW y \in AfterTax(m)
               PROVE  ~ (Apart(x, y) > 100 * tolerance)
    BY <1>2
  <2>1. x = y /\ x \in Int  BY <1>3 DEF Opt
  <2> QED BY <1>4, <2>1
<1>7. MoneyMismatches(field, m, embedded, tolerance) = {}
  BY <1>1, <1>5, <1>6 DEF MoneyMismatches
<1>8. ~ AfterTaxNotDerivable(m, embedded)  BY <1>1, <1>2 DEF AfterTaxNotDerivable
<1> QED BY <1>1, <1>7, <1>8 DEF embedded

\* What a CDR with the totals of a report says.
LEMMA TotalsFields ==
    ASSUME NEW r
    PROVE  /\ Totals(r).total = {PriceOf(r.total)}
           /\ \A d \in Dims : Totals(r).cost[d] = {PriceOf(r.cost[d])}
           /\ Totals(r).reservation = {}
           /\ \A d \in {"ENERGY", "TIME"} : Totals(r).volume[d] =
                {SumFunction([i \in DOMAIN cdr.periods |-> Volume(PeriodToInput(cdr.periods[i], {}), d)])}
BY DEF Totals, PriceOf

\* x is the input of a CDR that carries the totals of the report r.
Carries(x, r, version) ==
    /\ x.embedded.total = MoneyFromPrice(version, {PriceOf(r.total)})
    /\ \A d \in Dims : x.embedded.cost[d] = MoneyFromPrice(version, {PriceOf(r.cost[d])})
    /\ x.embedded.reservation = {}
    /\ \A d \in {"ENERGY", "TIME"} : /\ AuditedVolume(x, d) \in Int
                                     /\ x.embedded.volume[d] = {AuditedVolume(x, d)}

\* Verify finds nothing wrong in totals that are those of the report.
LEMMA OwnTotalsStatus ==
    ASSUME NEW x, NEW r, NEW version, Carries(x, r, version), NEW o \in EngineOptions,
           r.total \in Moneys, r.cost \in [Dims -> Moneys]
    PROVE  Status(x, r, o) = IF MinMaxUndefined(r) THEN "NotVerifiable" ELSE "OK"
<1> USE DEF Carries
<1>1. o.tolerance \in Nat  BY DEF EngineOptions
<1>2. \A field : MoneyMismatches(field, r.total, x.embedded.total, o.tolerance) = {}
  BY <1>1, OwnAmountsMatch
<1>3. ~ AfterTaxNotDerivable(r.total, x.embedded.total) /\ x.embedded.total # {}
  BY <1>1, OwnAmountsMatch
<1>4. \A d \in Dims : /\ MoneyMismatches(d, r.cost[d], x.embedded.cost[d], o.tolerance) = {}
                      /\ ~ AfterTaxNotDerivable(r.cost[d], x.embedded.cost[d])
  <2> SUFFICES ASSUME NEW d \in Dims
               PROVE  /\ MoneyMismatches(d, r.cost[d], x.embedded.cost[d], o.tolerance) = {}
                      /\ ~ AfterTaxNotDerivable(r.cost[d], x.embedded.cost[d])
    OBVIOUS
  <2> DEFINE m == r.cost[d]
             embedded == MoneyFromPrice(version, {PriceOf(m)})
  <2>1. m \in Moneys  OBVIOUS
  <2>2. x.embedded.cost[d] = embedded  OBVIOUS
  <2> HIDE DEF m
  <2>3. MoneyMismatches(d, m, embedded, o.tolerance) = {} /\ ~ AfterTaxNotDerivable(m, embedded)
    BY <1>1, <2>1, OwnAmountsMatch
  <2> HIDE DEF embedded
  <2> QED BY <2>2, <2>3 DEF m
<1>5. VolumeMismatches(x, o.tolerance) = {}
  <2> SUFFICES ASSUME NEW d \in {"ENERGY", "TIME"}, NEW v \in x.embedded.volume[d]
               PROVE  ~ (10000 * Apart(AuditedVolume(x, d), v) > o.tolerance * Base[d])
    BY DEF VolumeMismatches
  <2>1. v = AuditedVolume(x, d) /\ v \in Int  OBVIOUS
  <2>2. Apart(v, v) = 0  BY <2>1 DEF Apart
  <2> DEFINE t == o.tolerance
             b == Base[d]
  <2>3. b \in Nat /\ t \in Nat  BY <1>1, BaseAssumption DEF Volumed
  <2> HIDE DEF t, b
  <2>4. t * b >= 0 /\ ~ (10000 * 0 > t * b)  BY <2>3
  <2> QED BY <2>1, <2>2, <2>4 DEF t, b
<1>6. Mismatches(x, r, o) = {}
  <2>1. UNION {MoneyMismatches(d, r.cost[d], x.embedded.cost[d], o.tolerance) : d \in Dims} = {}
    BY <1>4
  <2> QED BY <1>2, <1>5, <2>1 DEF Mismatches
<1>7. NotVerifiable(x, r) <=> MinMaxUndefined(r)
  BY <1>3, <1>4 DEF NotVerifiable
<1> QED BY <1>6, <1>7 DEF Status

\* The CDR at hand with other totals.
WithTotals(totals) == [cdr EXCEPT !.totals = totals]

\* The same CDR but for its totals.
OtherTotals(b, c) ==
    /\ b.version = c.version /\ b.currency = c.currency /\ b.countryZone = c.countryZone
    /\ b.start = c.start /\ b.end = c.end /\ b.tariffs = c.tariffs /\ b.periods = c.periods

\* The totals a CDR carries do not change how the rest of it is read
\* (newNeutralInput).
LEMMA TotalsReadAlike ==
    ASSUME NEW b, NEW c, OtherTotals(b, c)
    PROVE  /\ ReadAlike(b, c) /\ EmbeddedInput(b).warnings = EmbeddedInput(c).warnings
           /\ EmbeddedInput(b).embedded =
                 [total       |-> MoneyFromPrice(c.version, b.totals.total),
                  cost        |-> [d \in Dims |-> MoneyFromPrice(c.version, b.totals.cost[d])],
                  reservation |-> MoneyFromPrice(c.version, b.totals.reservation),
                  volume      |-> b.totals.volume]
           /\ DOMAIN EmbeddedInput(b).periods = DOMAIN c.periods
           /\ \A i \in DOMAIN c.periods :
                 EmbeddedInput(b).periods[i] = PeriodToInput(c.periods[i], IndexOf(c)[i])
<1>1. /\ b.version = c.version /\ b.currency = c.currency /\ b.countryZone = c.countryZone
      /\ b.start = c.start /\ b.end = c.end /\ b.tariffs = c.tariffs /\ b.periods = c.periods
  BY DEF OtherTotals
<1>2. EmbeddedRefused(b) <=> EmbeddedRefused(c)
  BY <1>1, Zenon DEF EmbeddedRefused
<1>3. IndexOf(b) = IndexOf(c)  BY <1>1 DEF IndexOf
<1> DEFINE x == EmbeddedInput(b)
           y == EmbeddedInput(c)
           ts(z) == [t \in DOMAIN z.tariffs |-> TariffToInput(z.version, z.tariffs[t])]
           ps(z) == [i \in DOMAIN z.periods |-> PeriodToInput(z.periods[i], IndexOf(z)[i])]
           ws(z) == UNION {UnknownDimensions(z.version, z.periods[i]) : i \in DOMAIN z.periods}
           em(z) == [total       |-> MoneyFromPrice(z.version, z.totals.total),
                     cost        |-> [d \in Dims |-> MoneyFromPrice(z.version, z.totals.cost[d])],
                     reservation |-> MoneyFromPrice(z.version, z.totals.reservation),
                     volume      |-> z.totals.volume]
<1>4. /\ x.start = b.start /\ x.end = b.end /\ x.currency = b.currency
      /\ x.countryZone = b.countryZone /\ x.tariffs = ts(b) /\ x.periods = ps(b)
      /\ x.warnings = ws(b)
  BY InputFields DEF EmbeddedInput
<1>5. /\ y.start = c.start /\ y.end = c.end /\ y.currency = c.currency
      /\ y.countryZone = c.countryZone /\ y.tariffs = ts(c) /\ y.periods = ps(c)
      /\ y.warnings = ws(c)
  BY InputFields DEF EmbeddedInput
<1>6. ts(b) = ts(c) /\ ps(b) = ps(c) /\ ws(b) = ws(c)  BY <1>1, <1>3
<1>7. x.embedded = em(b)
  <2>1. x.embedded = NewNeutralInput(b, b.tariffs).embedded  BY InputFields DEF EmbeddedInput
  <2>2. NewNeutralInput(b, b.tariffs).embedded = em(b)  BY DEF NewNeutralInput
  <2> QED BY <2>1, <2>2
<1>8. em(b) = [total       |-> MoneyFromPrice(c.version, b.totals.total),
               cost        |-> [d \in Dims |-> MoneyFromPrice(c.version, b.totals.cost[d])],
               reservation |-> MoneyFromPrice(c.version, b.totals.reservation),
               volume      |-> b.totals.volume]
  BY <1>1
<1>9. /\ DOMAIN ps(c) = DOMAIN c.periods
      /\ \A i \in DOMAIN c.periods : ps(c)[i] = PeriodToInput(c.periods[i], IndexOf(c)[i])
  OBVIOUS
<1> HIDE DEF x, y, ts, ps, ws, em
<1>10. SameInput(x, y) /\ x.warnings = y.warnings
  BY <1>1, <1>4, <1>5, <1>6 DEF SameInput
<1>11. ReadAlike(b, c)  BY <1>2, <1>10 DEF ReadAlike, x, y
<1> QED BY <1>4, <1>6, <1>7, <1>8, <1>9, <1>10, <1>11 DEF x, y

\* A CDR that carries the totals of its own report, in the price type of its
\* version, verifies; it is at most not verifiable, where several tariffs have
\* bounds.  (newNeutralInput, VerifyCDR)
THEOREM OwnTotalsAreRight == Spec => []OwnTotalsVerify
<1>1. AdapterInv => OwnTotalsVerify
  <2> DEFINE r == reply.report
             totals == Totals(r)
             b == WithTotals(totals)
             x == EmbeddedInput(b)
             y == EmbeddedInput(cdr)
  <2> SUFFICES ASSUME AdapterInv, AnsweredOK("CalculateCDR")
               PROVE  Verdict(FromCDRMultiTariff(b), opts) =
                         IF MinMaxUndefined(r) THEN "NotVerifiable" ELSE "OK"
    BY DEF OwnTotalsVerify, WithTotals
  <2>1. cdr \in CDRs /\ opts \in EngineOptions /\ r.error = "none" /\ r = Priced(cdr)
    BY DEF AdapterInv, AnswersTheCdr, AnsweredOK, Answered
  <2>2. /\ ReadAlike(b, cdr) /\ x.warnings = y.warnings
        /\ x.embedded = [total       |-> MoneyFromPrice(cdr.version, totals.total),
                         cost        |-> [d \in Dims |-> MoneyFromPrice(cdr.version, totals.cost[d])],
                         reservation |-> MoneyFromPrice(cdr.version, totals.reservation),
                         volume      |-> totals.volume]
        /\ DOMAIN x.periods = DOMAIN cdr.periods
        /\ \A i \in DOMAIN cdr.periods : x.periods[i] = PeriodToInput(cdr.periods[i], IndexOf(cdr)[i])
    <3>1. OtherTotals(b, cdr) /\ b.totals = totals
      <4> HIDE DEF totals
      <4> QED BY <2>1 DEF CDRs, WithTotals, OtherTotals
    <3> HIDE DEF b, totals
    <3>2. x.embedded = [total       |-> MoneyFromPrice(cdr.version, b.totals.total),
                        cost        |-> [d \in Dims |-> MoneyFromPrice(cdr.version, b.totals.cost[d])],
                        reservation |-> MoneyFromPrice(cdr.version, b.totals.reservation),
                        volume      |-> b.totals.volume]
      BY <3>1, TotalsReadAlike
    <3> QED BY <3>1, <3>2, TotalsReadAlike
  <2>3. r = IF EmbeddedRefused(cdr) THEN NoReport("invalid") ELSE Calculate(y, opts)
    <3> HIDE DEF r
    <3> QED BY <2>1, EmbeddedFacts DEF Priced
  <2>4. NoReport("invalid").error # "none"  BY DEF NoReport
  <2>5. ~ EmbeddedRefused(cdr) /\ r = Calculate(y, opts)
    <3> HIDE DEF r, y
    <3> QED BY <2>1, <2>3, <2>4
  <2>6. y \in Inputs /\ IsIndex(IndexOf(cdr), cdr) /\ Convertible(cdr, cdr.tariffs)
    BY <2>1, <2>5, IndexOfTyped
  <2>7. r.total \in Moneys /\ r.cost \in [Dims -> Moneys] /\ Valid(y)
    <3>1. /\ Calculate(y, opts).cost \in [Dims -> Moneys] /\ Calculate(y, opts).total \in Moneys
          /\ Calculate(y, opts).error = "none" <=> ~ Refused(y, opts) /\ ~ StepRefused(y, opts)
      <4> HIDE DEF y
      <4> QED BY <2>1, <2>6, ReportsAreTyped
    <3> HIDE DEF r, y
    <3> QED BY <2>1, <2>5, <3>1 DEF Refused
  <2>8. SamePricing(x, y)
    <3>1. SameInput(x, y)
      <4> HIDE DEF x, y, b
      <4> QED BY <2>2, <2>5 DEF ReadAlike, x, y
    <3> HIDE DEF x, y
    <3> QED BY <3>1, SameInputSamePricing
  <2>9. Valid(x) /\ Calculate(x, opts) = r
    <3> HIDE DEF x, y, r
    <3> QED BY <2>2, <2>5, <2>7, <2>8, PricingDependsOn DEF SamePricing
  <2>10. Verdict(FromCDRMultiTariff(b), opts) = Status(x, r, opts)
    <3>1. ~ EmbeddedRefused(b)
      <4> HIDE DEF b
      <4> QED BY <2>2, <2>5 DEF ReadAlike
    <3> HIDE DEF b, r
    <3>2. Calculate(x, opts).error = "none"  BY <2>1, <2>9
    <3> QED BY <2>9, <3>1, <3>2, VerdictOf
  <2>11. Carries(x, r, cdr.version)
    <3>1. /\ totals.total = {PriceOf(r.total)}
          /\ \A d \in Dims : totals.cost[d] = {PriceOf(r.cost[d])}
          /\ totals.reservation = {}
          /\ \A d \in {"ENERGY", "TIME"} : totals.volume[d] =
                {SumFunction([i \in DOMAIN cdr.periods |-> Volume(PeriodToInput(cdr.periods[i], {}), d)])}
      <4> HIDE DEF r
      <4> QED BY TotalsFields
    <3>2. ASSUME NEW d \in {"ENERGY", "TIME"}
          PROVE  /\ AuditedVolume(x, d) \in Int
                 /\ totals.volume[d] = {AuditedVolume(x, d)}
      <4> DEFINE cps == cdr.periods
                 p(i) == PeriodToInput(cps[i], {})
                 f == [i \in DOMAIN cps |-> Volume(p(i), d)]
                 g == [i \in DOMAIN x.periods |-> Volume(x.periods[i], d)]
      <4>1. cps \in Seq(ChargingPeriods)  BY <2>1 DEF CDRs
      <4>2. \A i \in DOMAIN cps : x.periods[i].volume = p(i).volume
        <5>1. \A cp, t, u : PeriodToInput(cp, t).volume = PeriodToInput(cp, u).volume
          BY DEF PeriodToInput
        <5> HIDE DEF x
        <5> QED BY <2>2, <5>1
      <4>3. \A i \in DOMAIN cps : ~ DuplicateDimension(cps[i])  BY <2>6 DEF Convertible
      <4> HIDE DEF x, cps
      <4>4. DOMAIN x.periods = DOMAIN cps  BY <2>2 DEF cps
      <4>5. \A i \in DOMAIN cps : Volume(x.periods[i], d) = Volume(p(i), d)
        <5>1. \A q, w : q.volume = w.volume => Volume(q, d) = Volume(w, d)  BY DEF Volume
        <5> HIDE DEF p
        <5> QED BY <4>2, <5>1
      <4>6. f = g
        <5> HIDE DEF p
        <5> QED BY <4>4, <4>5
      <4>7. \A i \in DOMAIN cps : Volume(p(i), d) \in Int
        <5> SUFFICES ASSUME NEW i \in DOMAIN cps PROVE Volume(p(i), d) \in Int  OBVIOUS
        <5>1. cps[i] \in ChargingPeriods  BY <4>1, PlacesAreFinite
        <5>2. {} \in Opt(Int)  BY DEF Opt
        <5>3. p(i) \in Periods  BY <4>3, <5>1, <5>2, PeriodToInputTyped
        <5> HIDE DEF p
        <5> QED BY <5>3, VolumeTyped DEF Volumed
      <4>8. SumFunction(f) \in Int
        <5>1. IsFiniteSet(DOMAIN cps)  BY <4>1, PlacesAreFinite
        <5>2. DOMAIN f = DOMAIN cps /\ \A i \in DOMAIN cps : f[i] \in Int
          <6> HIDE DEF p
          <6> QED BY <4>7
        <5> HIDE DEF f
        <5> QED BY <5>1, <5>2, SumIsInt DEF SumFunction
      <4>9. AuditedVolume(x, d) = SumFunction(g)  BY DEF AuditedVolume
      <4>10. totals.volume[d] = {SumFunction(f)}  BY <3>1 DEF cps
      <4> HIDE DEF f, g, totals
      <4> QED BY <4>6, <4>8, <4>9, <4>10
    <3>3. MoneyFromPrice(cdr.version, {}) = {}  BY DEF MoneyFromPrice
    <3>4. /\ x.embedded.total = MoneyFromPrice(cdr.version, totals.total)
          /\ \A d \in Dims : x.embedded.cost[d] = MoneyFromPrice(cdr.version, totals.cost[d])
          /\ x.embedded.reservation = MoneyFromPrice(cdr.version, totals.reservation)
          /\ x.embedded.volume = totals.volume
      <4> HIDE DEF x, totals
      <4> QED BY <2>2
    <3> HIDE DEF x, totals, r
    <3> QED BY <3>1, <3>2, <3>3, <3>4 DEF Carries
  <2> HIDE DEF x, r, b
  <2>12. Status(x, r, opts) = IF MinMaxUndefined(r) THEN "NotVerifiable" ELSE "OK"
    BY <2>1, <2>7, <2>11, OwnTotalsStatus
  <2> QED BY <2>10, <2>12
<1> QED BY <1>1, AdapterInvariance, PTL

-----------------------------------------------------------------------------
(* Tariffs at other places.                                                 *)

\* What the input of fewer tariffs can be refused for, that of more is too.
LEMMA ValidAtItsPlace ==
    ASSUME NEW a, NEW b, NEW p, Renames(p, a, b), a.currency = b.currency, b.tariffs # <<>>,
           \A i \in DOMAIN b.periods : b.periods[i].tariff \subseteq DOMAIN b.tariffs, Valid(a)
    PROVE  Valid(b)
<1> DEFINE OK(tariff, currency) ==
               /\ tariff.elements # <<>>
               /\ tariff.currency = currency
               /\ \A e \in DOMAIN tariff.elements :
                     LET cs == tariff.elements[e].components
                     IN  \A j \in DOMAIN cs :
                            /\ cs[j].type = "ENERGY" => cs[j].step >= 0
                            /\ cs[j].type \in {"TIME", "PARKING_TIME"} => cs[j].step > 0
           Fits(period, tariffs) == /\ period.tariff \subseteq DOMAIN tariffs
                                    /\ \A v \in period.volume["ENERGY"] : v >= 0
<1>1. \A in : Valid(in) <=> /\ in.tariffs # <<>>
                            /\ \A t \in DOMAIN in.tariffs : OK(in.tariffs[t], in.currency)
                            /\ \A i \in DOMAIN in.periods : Fits(in.periods[i], in.tariffs)
  BY Zenon DEF Valid
<1>2. /\ p \in [DOMAIN b.tariffs -> DOMAIN a.tariffs]
      /\ \A t \in DOMAIN b.tariffs : a.tariffs[p[t]] = b.tariffs[t]
      /\ DOMAIN a.periods = DOMAIN b.periods
      /\ \A i \in DOMAIN b.periods : a.periods[i].volume = b.periods[i].volume
  BY DEF Renames, RenamedPeriod
<1>3. \A i \in DOMAIN a.periods : \A v \in a.periods[i].volume["ENERGY"] : v >= 0
  BY <1>1
<1>4. \A i \in DOMAIN b.periods : Fits(b.periods[i], b.tariffs)
  <2> SUFFICES ASSUME NEW i \in DOMAIN b.periods
               PROVE  \A v \in b.periods[i].volume["ENERGY"] : v >= 0
    OBVIOUS
  <2> QED BY <1>2, <1>3
<1> HIDE DEF OK, Fits
<1>5. \A t \in DOMAIN b.tariffs : OK(b.tariffs[t], b.currency)
  <2> SUFFICES ASSUME NEW t \in DOMAIN b.tariffs PROVE OK(b.tariffs[t], b.currency)  OBVIOUS
  <2>1. p[t] \in DOMAIN a.tariffs /\ a.tariffs[p[t]] = b.tariffs[t]  BY <1>2
  <2>2. OK(a.tariffs[p[t]], a.currency)  BY <1>1, <2>1
  <2> QED BY <2>1, <2>2
<1> QED BY <1>1, <1>4, <1>5

\* Nor does it need a time zone that the input of more tariffs does not.
LEMMA ZoneAtItsPlace ==
    ASSUME NEW a, NEW b, NEW p, Renames(p, a, b), a.countryZone = b.countryZone, NEW o,
           ResolveZone(a, o) # {}
    PROVE  ResolveZone(a, o) = ResolveZone(b, o)
<1> DEFINE HasLocal(tariff) == \E e \in DOMAIN tariff.elements : IsLocal(tariff.elements[e].restrictions)
<1>1. \A in : ResolveZone(in, o) =
        IF o.zone # {} THEN o.zone
        ELSE IF o.strict /\ \E t \in DOMAIN in.tariffs : HasLocal(in.tariffs[t]) THEN {}
        ELSE IF in.countryZone # {} THEN in.countryZone ELSE {0}
  BY Zenon DEF ResolveZone
<1> HIDE DEF HasLocal
<1>2. \A t \in DOMAIN b.tariffs : p[t] \in DOMAIN a.tariffs /\ a.tariffs[p[t]] = b.tariffs[t]
  BY DEF Renames
<1>3. (\E t \in DOMAIN b.tariffs : HasLocal(b.tariffs[t])) =>
        \E t \in DOMAIN a.tariffs : HasLocal(a.tariffs[t])
  BY <1>2
<1> QED BY <1>1, <1>3

\* us has every tariff of ts, that at place t at place p[t].
Places(p, ts, us) ==
    /\ p \in [DOMAIN ts -> DOMAIN us]
    /\ \A t, u \in DOMAIN ts : p[t] = p[u] => t = u
    /\ \A t \in DOMAIN ts : us[p[t]] = ts[t]

\* A record whose periods find the same tariffs at other places.
LEMMA ReadAtItsPlace ==
    ASSUME NEW c, NEW ts, NEW us, NEW p, Places(p, ts, us), NEW index, NEW jndex,
           \A i \in DOMAIN c.periods : jndex[i] = {p[t] : t \in index[i]}
    PROVE  Renames(p, ToInput(c, us, jndex), ToInput(c, ts, index))
<1> DEFINE a == ToInput(c, us, jndex)
           b == ToInput(c, ts, index)
           turn(vs) == [t \in DOMAIN vs |-> TariffToInput(c.version, vs[t])]
           read(x) == [i \in DOMAIN c.periods |-> PeriodToInput(c.periods[i], x[i])]
<1>1. /\ a.start = c.start /\ a.end = c.end /\ a.tariffs = turn(us) /\ a.periods = read(jndex)
      /\ b.start = c.start /\ b.end = c.end /\ b.tariffs = turn(ts) /\ b.periods = read(index)
  BY InputFields
<1> HIDE DEF a, b
<1>2. /\ DOMAIN a.tariffs = DOMAIN us /\ DOMAIN b.tariffs = DOMAIN ts
      /\ DOMAIN a.periods = DOMAIN c.periods /\ DOMAIN b.periods = DOMAIN c.periods
  BY <1>1
<1>3. \A t \in DOMAIN ts : a.tariffs[p[t]] = b.tariffs[t]  BY <1>1 DEF Places
<1>4. ASSUME NEW i \in DOMAIN c.periods
      PROVE  RenamedPeriod(a.periods[i], b.periods[i], p)
  <2> DEFINE x == PeriodToInput(c.periods[i], jndex[i])
             y == PeriodToInput(c.periods[i], index[i])
  <2>1. a.periods[i] = x /\ b.periods[i] = y  BY <1>1
  <2>2. x.start = y.start /\ x.volume = y.volume  BY DEF PeriodToInput
  <2>3. SameReadings(x, y)  BY DEF PeriodToInput, SameReadings
  <2>4. x.tariff = jndex[i] /\ y.tariff = index[i]  BY DEF PeriodToInput
  <2>5. jndex[i] = {p[t] : t \in index[i]}  OBVIOUS
  <2> HIDE DEF x, y
  <2> QED BY <2>1, <2>2, <2>3, <2>4, <2>5 DEF RenamedPeriod
<1> QED BY <1>1, <1>2, <1>3, <1>4 DEF Renames, Places, a, b

\* Where the input of more tariffs is priced, that of fewer costs the same.
LEMMA PricedAtItsPlace ==
    ASSUME NEW a \in Inputs, NEW b \in Inputs, NEW p, Renames(p, a, b),
           a.currency = b.currency, a.countryZone = b.countryZone, b.tariffs # <<>>,
           \A i \in DOMAIN b.periods : b.periods[i].tariff \subseteq DOMAIN b.tariffs,
           NEW o, ~ Refused(a, o)
    PROVE  /\ Calculate(a, o).error = Calculate(b, o).error
           /\ Calculate(a, o).cost = Calculate(b, o).cost
           /\ Calculate(a, o).total = Calculate(b, o).total
           /\ ~ Refused(b, o)
<1>1. Valid(a) /\ ResolveZone(a, o) # {}  BY DEF Refused
<1>2. Valid(b)  BY <1>1, ValidAtItsPlace
<1>3. ResolveZone(a, o) = ResolveZone(b, o)  BY <1>1, ZoneAtItsPlace
<1> QED BY <1>1, <1>2, <1>3, RenamingCostsNothing DEF Refused

-----------------------------------------------------------------------------
(* One tariff of many.                                                      *)

OnlyTariff(c, t) ==
    \A i \in DOMAIN c.periods :
        LET id == c.periods[i].tariffId
        IN  id = {c.tariffs[t].id} \/ (id = {} /\ Len(c.tariffs) = 1)

\* In a session that refers to one tariff only, every period resolves to it.
LEMMA OnlyTariffIsFound ==
    ASSUME NEW c \in CDRs, ~ EmbeddedRefused(c), NEW t \in DOMAIN c.tariffs, OnlyTariff(c, t),
           NEW i \in DOMAIN c.periods
    PROVE  IndexOf(c)[i] = {t}
<1> DEFINE ts == c.tariffs
           id == c.periods[i].tariffId
<1>1. ts \in Seq(CdrTariffs) /\ c.periods \in Seq(ChargingPeriods)  BY DEF CDRs
<1>2. ~ AmbiguousTariffs(ts) /\ ~ UnknownTariff(ts, id)  BY DEF EmbeddedRefused
<1>3. id = {ts[t].id} \/ (id = {} /\ Len(ts) = 1)  BY DEF OnlyTariff
<1>4. IndexOf(c)[i] = ResolveTariffIndex(ts, id)  BY DEF IndexOf
<1>5. t \in DOMAIN ts  OBVIOUS
<1>6. IsTariffId(id)
  <2>1. c.periods[i] \in ChargingPeriods  BY <1>1
  <2> QED BY <2>1 DEF ChargingPeriods, Opt, IsTariffId
<1> HIDE DEF ts, id
<1>7. t \in ResolveTariffIndex(ts, id)
  <2>1. CASE id = {ts[t].id}
    <3>1. id # {}  BY <2>1
    <3>2. PICK u \in Named(ts, id) : TRUE  BY <1>2, <3>1 DEF UnknownTariff
    <3>3. ts[u].id # "" /\ id = {ts[u].id}  BY <3>2 DEF Named
    <3>4. ts[t].id # ""  BY <2>1, <3>3
    <3>5. t \in Named(ts, id)  BY <1>5, <2>1, <3>4 DEF Named
    <3> QED BY <3>1, <3>5 DEF ResolveTariffIndex
  <2>2. CASE id = {} /\ Len(ts) = 1
    <3>1. t = 1  BY <1>1, <1>5, <2>2
    <3> QED BY <2>2, <3>1 DEF ResolveTariffIndex
  <2> QED BY <1>3, <2>1, <2>2
<1>8. \A u \in ResolveTariffIndex(ts, id) : u = t
  BY <1>1, <1>2, <1>6, <1>7, ResolutionIsUnique
<1> QED BY <1>4, <1>7, <1>8

\* That session costs what it costs with this tariff given explicitly (FromCDR).
LEMMA ExplicitPricedAlike ==
    ASSUME NEW c \in CDRs, NEW o, Report(FromCDRMultiTariff(c), o).error = "none",
           NEW t \in DOMAIN c.tariffs, OnlyTariff(c, t)
    PROVE  LET r == Report(FromCDR(c, c.tariffs[t]), o)
               s == Report(FromCDRMultiTariff(c), o)
           IN  r.error = s.error /\ r.cost = s.cost /\ r.total = s.total
<1> DEFINE us == c.tariffs
           ts == <<c.tariffs[t]>>
           index == [i \in DOMAIN c.periods |-> {1}]
           p == [x \in DOMAIN ts |-> t]
           a == EmbeddedInput(c)
           b == ExplicitInput(c, c.tariffs[t])
<1>1. Report(FromCDRMultiTariff(c), o) =
        IF EmbeddedRefused(c) THEN NoReport("invalid") ELSE Calculate(a, o)
  BY EmbeddedFacts
<1>2. \A e : NoReport(e).error = e  BY DEF NoReport
<1>3. ~ EmbeddedRefused(c)
  <2> HIDE DEF a
  <2> QED BY <1>1, <1>2
<1>4. Report(FromCDRMultiTariff(c), o) = Calculate(a, o)
  <2> HIDE DEF a
  <2> QED BY <1>1, <1>3
<1>5. ~ Refused(a, o)
  <2> HIDE DEF a
  <2> QED BY <1>2, <1>4, CalculateFacts
<1>6. /\ IsIndex(IndexOf(c), c) /\ Convertible(c, us) /\ a \in Inputs
  BY <1>3, IndexOfTyped
<1>7. us \in Seq(CdrTariffs) /\ us[t] \in CdrTariffs
  <2>1. us \in Seq(CdrTariffs)  BY DEF CDRs
  <2> QED BY <2>1
<1>8. ts \in Seq(CdrTariffs) /\ DOMAIN ts = {1} /\ ts[1] = us[t] /\ Len(ts) = 1
  <2> DEFINE v == us[t]
  <2>1. v \in CdrTariffs  BY <1>7
  <2> HIDE DEF v
  <2>2. <<v>> \in Seq(CdrTariffs) /\ DOMAIN <<v>> = {1} /\ <<v>>[1] = v /\ Len(<<v>>) = 1
    BY <2>1
  <2> QED BY <2>2 DEF v
<1>9. ~ TariffRefused(c.version, us[t]) /\ \A i \in DOMAIN c.periods : ~ DuplicateDimension(c.periods[i])
  BY <1>6 DEF Convertible
<1>10. Convertible(c, ts)  BY <1>8, <1>9 DEF Convertible
<1>11. IsIndex(index, c)
  <2>1. {1} \in Opt(Int)  BY DEF Opt
  <2> QED BY <2>1 DEF IsIndex
<1>12. b = ToInput(c, ts, index)  BY DEF ExplicitInput
<1>13. a = ToInput(c, us, IndexOf(c))  BY DEF EmbeddedInput
<1>14. Places(p, ts, us)
  <2> HIDE DEF ts, us
  <2>1. t \in DOMAIN us  BY DEF us
  <2> QED BY <2>1, <1>8 DEF Places
<1>15. \A i \in DOMAIN c.periods : IndexOf(c)[i] = {p[x] : x \in index[i]}
  <2> SUFFICES ASSUME NEW i \in DOMAIN c.periods PROVE IndexOf(c)[i] = {p[x] : x \in index[i]}
    OBVIOUS
  <2>1. IndexOf(c)[i] = {t}  BY <1>3, OnlyTariffIsFound
  <2>2. index[i] = {1} /\ p[1] = t  BY <1>8
  <2> HIDE DEF index, p
  <2> QED BY <2>1, <2>2
<1> HIDE DEF p, index, ts, us, a, b
<1>16. Renames(p, a, b)  BY <1>12, <1>13, <1>14, <1>15, ReadAtItsPlace
<1>17. b \in Inputs  BY <1>8, <1>10, <1>11, <1>12, ToInputTyped
<1>18. a.currency = b.currency /\ a.countryZone = b.countryZone
       /\ b.tariffs = [x \in DOMAIN ts |-> TariffToInput(c.version, ts[x])]
       /\ b.periods = [i \in DOMAIN c.periods |-> PeriodToInput(c.periods[i], index[i])]
  BY <1>12, <1>13, InputFields
<1>19. DOMAIN b.tariffs = {1} /\ b.tariffs # <<>>
  <2>1. DOMAIN b.tariffs = {1}  BY <1>8, <1>18
  <2>2. \A s : s = <<>> => DOMAIN s = {}  OBVIOUS
  <2> QED BY <2>1, <2>2
<1>20. \A i \in DOMAIN b.periods : b.periods[i].tariff \subseteq DOMAIN b.tariffs
  <2> SUFFICES ASSUME NEW i \in DOMAIN c.periods
               PROVE  PeriodToInput(c.periods[i], index[i]).tariff \subseteq {1}
    BY <1>18, <1>19
  <2>1. PeriodToInput(c.periods[i], index[i]).tariff = index[i]  BY DEF PeriodToInput
  <2>2. index[i] = {1}  BY DEF index
  <2> QED BY <2>1, <2>2
<1>21. /\ Calculate(a, o).error = Calculate(b, o).error
       /\ Calculate(a, o).cost = Calculate(b, o).cost
       /\ Calculate(a, o).total = Calculate(b, o).total
  <2>1. a.currency = b.currency /\ a.countryZone = b.countryZone  BY <1>18
  <2>2. a \in Inputs /\ b.tariffs # <<>>  BY <1>6, <1>19
  <2> QED BY <1>5, <1>16, <1>17, <1>20, <2>1, <2>2, PricedAtItsPlace
<1>22. ~ ExplicitRefused(c, c.tariffs[t])  BY <1>9 DEF ExplicitRefused, us
<1>23. Report(FromCDR(c, c.tariffs[t]), o) = Calculate(b, o)  BY <1>22, ExplicitFacts DEF b
<1> QED BY <1>4, <1>21, <1>23

\* A session all of which refers to one of the embedded tariffs costs what it
\* costs under that tariff given explicitly, whatever else is embedded and
\* wherever it stands.  (fromCDRMultiTariff against FromCDR)
THEOREM OverrideBillsAlike == Spec => []OneTariffIsTheOverride
<1>1. AdapterInv => OneTariffIsTheOverride
  <2> SUFFICES ASSUME AdapterInv, AnsweredOK("CalculateCDR"), NEW t \in DOMAIN cdr.tariffs,
                      OnlyTariff(cdr, t)
               PROVE  SameBill(PricedWith(cdr, cdr.tariffs[t]))
    BY DEF OneTariffIsTheOverride, OnlyTariff
  <2>1. cdr \in CDRs /\ AnswersTheCdr  BY DEF AdapterInv
  <2>2. Answered("CalculateCDR") /\ reply.report.error = "none"  BY DEF AnsweredOK, Answered
  <2>3. Priced(cdr).error = "none"  BY <2>1, <2>2 DEF AnswersTheCdr
  <2> DEFINE r == PricedWith(cdr, cdr.tariffs[t])
  <2>4. r.error = Priced(cdr).error /\ r.cost = Priced(cdr).cost /\ r.total = Priced(cdr).total
    BY <2>1, <2>3, ExplicitPricedAlike DEF Priced, PricedWith
  <2> HIDE DEF r
  <2>5. SameBill(r)  BY <2>1, <2>2, <2>4, SameAmountsSameBill
  <2> QED BY <2>5 DEF r
<1> QED BY <1>1, AdapterInvariance, PTL

-----------------------------------------------------------------------------
(* The tariffs in another order.                                            *)

TurnedAround(c) == [c EXCEPT !.tariffs = Reverse(@)]
Opposite(s) == [k \in DOMAIN s |-> Len(s) - k + 1]

\* A CDR with its tariffs in the opposite order is otherwise the same.
LEMMA TurnedAroundFields ==
    ASSUME NEW c \in CDRs
    PROVE  LET b == TurnedAround(c) IN
           /\ b \in CDRs /\ b.tariffs = Reverse(c.tariffs)
           /\ b.version = c.version /\ b.currency = c.currency /\ b.countryZone = c.countryZone
           /\ b.start = c.start /\ b.end = c.end /\ b.periods = c.periods /\ b.totals = c.totals
<1> DEFINE ts == Reverse(c.tariffs)
<1>1. c.tariffs \in Seq(CdrTariffs)  BY DEF CDRs
<1>2. ts \in Seq(CdrTariffs)  BY <1>1, ReversedPlaces
<1>3. TurnedAround(c) = [c EXCEPT !.tariffs = ts]  BY DEF TurnedAround
<1> HIDE DEF ts
<1>4. TurnedAround(c) \in CDRs  BY <1>2, <1>3 DEF CDRs
<1> QED BY <1>3, <1>4 DEF CDRs, ts

\* A list reversed is the list, reordered; and so is the list it was reversed from.
LEMMA OppositePlaces ==
    ASSUME NEW S, NEW s \in Seq(S)
    PROVE  /\ Reordered(s, Reverse(s), Opposite(s))
           /\ Places(Opposite(s), s, Reverse(s)) /\ Places(Opposite(s), Reverse(s), s)
<1> DEFINE p == Opposite(s)
           r == Reverse(s)
<1>1. /\ DOMAIN r = DOMAIN s /\ r \in Seq(S) /\ Len(r) = Len(s)
      /\ \A k \in DOMAIN s : /\ Len(s) - k + 1 \in DOMAIN s
                             /\ r[k] = s[Len(s) - k + 1]
                             /\ r[Len(s) - k + 1] = s[k]
                             /\ Len(s) - (Len(s) - k + 1) + 1 = k
  BY ReversedPlaces
<1>2. p = [k \in DOMAIN s |-> Len(s) - k + 1]  BY DEF Opposite
<1>3. \A k \in DOMAIN s : /\ p[k] \in DOMAIN s /\ p[p[k]] = k
                          /\ r[k] = s[p[k]] /\ r[p[k]] = s[k]
  BY <1>1, <1>2
<1>4. p \in [DOMAIN s -> DOMAIN s]  BY <1>2, <1>3
<1>5. r = [k \in DOMAIN s |-> s[p[k]]]
  <2>1. r = [k \in DOMAIN s |-> r[k]]
    <3>1. r = [k \in 1 .. Len(r) |-> r[k]] /\ DOMAIN r = 1 .. Len(r)  BY <1>1
    <3> HIDE DEF r
    <3> QED BY <3>1, <1>1
  <2> HIDE DEF r, p
  <2> QED BY <2>1, <1>3
<1> HIDE DEF p, r
<1>6. \A j, k \in DOMAIN s : p[j] = p[k] => j = k
  <2> SUFFICES ASSUME NEW j \in DOMAIN s, NEW k \in DOMAIN s, p[j] = p[k] PROVE j = k  OBVIOUS
  <2>1. p[p[j]] = j /\ p[p[k]] = k  BY <1>3
  <2> QED BY <2>1
<1>7. \A i \in DOMAIN s : \E j \in DOMAIN s : p[j] = i  BY <1>3
<1>8. Reordered(s, r, p)  BY <1>4, <1>5, <1>6, <1>7 DEF Reordered
<1>9. Places(p, s, r) /\ Places(p, r, s)  BY <1>1, <1>3, <1>4, <1>6 DEF Places
<1> QED BY <1>8, <1>9 DEF p, r

\* Of a list that is not ambiguous, a period that finds a tariff in one order
\* finds it, at the opposite place, in the other.
LEMMA FoundOpposite ==
    ASSUME NEW S, NEW ts \in Seq(S), NEW id
    PROVE  ResolveTariffIndex(Reverse(ts), id)
             = {Opposite(ts)[t] : t \in ResolveTariffIndex(ts, id)}
<1> DEFINE p == Opposite(ts)
           us == Reverse(ts)
<1>1. Places(p, ts, us) /\ Places(p, us, ts)  BY OppositePlaces
<1>2. DOMAIN us = DOMAIN ts /\ Len(us) = Len(ts)  BY ReversedPlaces
<1>3. \A t \in DOMAIN ts : p[t] \in DOMAIN ts /\ p[p[t]] = t /\ us[p[t]] = ts[t] /\ us[t] = ts[p[t]]
  <2>1. /\ \A k \in DOMAIN ts : /\ Len(ts) - k + 1 \in DOMAIN ts
                                /\ Len(ts) - (Len(ts) - k + 1) + 1 = k
    BY ReversedPlaces
  <2>2. p = [k \in DOMAIN ts |-> Len(ts) - k + 1]  BY DEF Opposite
  <2> HIDE DEF us
  <2>3. \A t \in DOMAIN ts : p[t] \in DOMAIN ts /\ p[p[t]] = t  BY <2>1, <2>2
  <2> HIDE DEF p
  <2> QED BY <1>1, <1>2, <2>3 DEF Places
<1> HIDE DEF p, us
<1>4. Named(us, id) = {p[t] : t \in Named(ts, id)}
  <2>1. \A u \in Named(us, id) : p[u] \in Named(ts, id) /\ p[p[u]] = u  BY <1>2, <1>3 DEF Named
  <2>2. \A t \in Named(ts, id) : p[t] \in Named(us, id)  BY <1>2, <1>3 DEF Named
  <2>3. Named(us, id) \subseteq {p[t] : t \in Named(ts, id)}
    <3> SUFFICES ASSUME NEW u \in Named(us, id) PROVE \E t \in Named(ts, id) : u = p[t]  OBVIOUS
    <3> QED BY <2>1
  <2> QED BY <2>2, <2>3
<1>5. CASE id # {}  BY <1>4, <1>5 DEF ResolveTariffIndex, p, us
<1>6. CASE id = {} /\ Len(ts) = 1
  <2>1. DOMAIN ts = {1}  BY <1>6
  <2>2. p[1] = 1  BY <2>1, <1>3
  <2>3. ResolveTariffIndex(us, id) = {1} /\ ResolveTariffIndex(ts, id) = {1}
    BY <1>2, <1>6 DEF ResolveTariffIndex
  <2> QED BY <2>2, <2>3 DEF p, us
<1>7. CASE id = {} /\ Len(ts) # 1
  <2>1. ResolveTariffIndex(us, id) = {} /\ ResolveTariffIndex(ts, id) = {}
    BY <1>2, <1>7 DEF ResolveTariffIndex
  <2> QED BY <2>1 DEF p, us
<1> QED BY <1>5, <1>6, <1>7

\* It is refused if and only if the CDR is.
LEMMA TurnedRefusedAlike ==
    ASSUME NEW c \in CDRs
    PROVE  EmbeddedRefused(TurnedAround(c)) <=> EmbeddedRefused(c)
<1> DEFINE b == TurnedAround(c)
           ts == c.tariffs
           us == Reverse(ts)
<1>1. /\ b.tariffs = us /\ b.version = c.version /\ b.periods = c.periods
      /\ ts \in Seq(CdrTariffs)
  BY TurnedAroundFields DEF CDRs
<1> HIDE DEF b
<1>2. c.tariffs = ts  OBVIOUS
<1> HIDE DEF ts
<1>3. /\ DOMAIN us = DOMAIN ts /\ us \in Seq(CdrTariffs) /\ Len(us) = Len(ts)
      /\ Reordered(ts, us, Opposite(ts)) /\ Places(Opposite(ts), ts, us) /\ Places(Opposite(ts), us, ts)
  BY <1>1, ReversedPlaces, OppositePlaces
<1> HIDE DEF us
<1>4. us = <<>> <=> ts = <<>>
  <2>1. \A s \in Seq(CdrTariffs) : s = <<>> <=> Len(s) = 0  OBVIOUS
  <2> QED BY <2>1, <1>1, <1>3
<1>5. /\ AmbiguousTariffs(us) <=> AmbiguousTariffs(ts)
      /\ \A id : UnknownTariff(us, id) <=> UnknownTariff(ts, id)
  BY <1>1, <1>3, ResolutionIgnoresOrder
<1>6. (\E t \in DOMAIN us : TariffRefused(c.version, us[t])) <=>
        \E t \in DOMAIN ts : TariffRefused(c.version, ts[t])
  <2> DEFINE p == Opposite(ts)
  <2> HIDE DEF p
  <2>1. \A t \in DOMAIN ts : p[t] \in DOMAIN ts /\ us[p[t]] = ts[t] /\ ts[p[t]] = us[t]
    BY <1>3 DEF Places, p
  <2> QED BY <2>1, <1>3
<1> QED BY <1>1, <1>2, <1>4, <1>5, <1>6, Zenon DEF EmbeddedRefused, b

\* It costs the same: its tariffs stand elsewhere, and its periods refer to them
\* there.
LEMMA TurnedPricedAlike ==
    ASSUME NEW c \in CDRs, NEW o
    PROVE  LET r == Report(FromCDRMultiTariff(TurnedAround(c)), o)
               s == Report(FromCDRMultiTariff(c), o)
           IN  r.error = s.error /\ r.cost = s.cost /\ r.total = s.total
<1> DEFINE b == TurnedAround(c)
           r == Report(FromCDRMultiTariff(b), o)
           s == Report(FromCDRMultiTariff(c), o)
           x == EmbeddedInput(b)
           y == EmbeddedInput(c)
           ts == c.tariffs
           us == Reverse(ts)
           p == Opposite(ts)
<1>1. /\ b \in CDRs /\ b.tariffs = us /\ b.version = c.version /\ b.currency = c.currency
      /\ b.countryZone = c.countryZone /\ b.start = c.start /\ b.end = c.end
      /\ b.periods = c.periods /\ b.totals = c.totals
  BY TurnedAroundFields
<1>2. ts \in Seq(CdrTariffs)  BY DEF CDRs
<1>3. EmbeddedRefused(b) <=> EmbeddedRefused(c)  BY TurnedRefusedAlike
<1>4. /\ r = IF EmbeddedRefused(b) THEN NoReport("invalid") ELSE Calculate(x, o)
      /\ s = IF EmbeddedRefused(c) THEN NoReport("invalid") ELSE Calculate(y, o)
  BY EmbeddedFacts
<1>5. x = ToInput(b, us, IndexOf(b)) /\ y = ToInput(c, ts, IndexOf(c))
  BY <1>1 DEF EmbeddedInput
<1> HIDE DEF b, x, y, r, s
<1>6. CASE EmbeddedRefused(c)  BY <1>3, <1>4, <1>6 DEF r, s, b
<1>7. CASE ~ EmbeddedRefused(c)
  <2>1. r = Calculate(x, o) /\ s = Calculate(y, o)  BY <1>3, <1>4, <1>7
  <2>2. x \in Inputs /\ y \in Inputs
        /\ (\A i \in DOMAIN c.periods : IndexOf(b)[i] \subseteq DOMAIN us)
        /\ (\A i \in DOMAIN c.periods : IndexOf(c)[i] \subseteq DOMAIN ts)
    BY <1>1, <1>3, <1>7, IndexOfTyped DEF x, y
  <2>3. x = ToInput(c, us, IndexOf(b))
    <3>1. NewNeutralInput(b, us) = NewNeutralInput(c, us)  BY <1>1 DEF NewNeutralInput
    <3> HIDE DEF us
    <3>2. ToInput(b, us, IndexOf(b)) = ToInput(c, us, IndexOf(b))  BY <3>1, <1>1 DEF ToInput
    <3> QED BY <3>2, <1>5
  <2>4. Places(p, ts, us) /\ Places(p, us, ts)  BY <1>2, OppositePlaces
  <2>5. DOMAIN us = DOMAIN ts /\ us \in Seq(CdrTariffs) /\ Len(us) = Len(ts)
    BY <1>2, ReversedPlaces
  <2>6. ASSUME NEW i \in DOMAIN c.periods
        PROVE  /\ IndexOf(b)[i] = {p[t] : t \in IndexOf(c)[i]}
               /\ IndexOf(c)[i] = {p[t] : t \in IndexOf(b)[i]}
    <3> DEFINE id == c.periods[i].tariffId
    <3>1. IndexOf(b)[i] = ResolveTariffIndex(us, id) /\ IndexOf(c)[i] = ResolveTariffIndex(ts, id)
      BY <1>1 DEF IndexOf
    <3> HIDE DEF id
    <3>2. IndexOf(b)[i] = {p[t] : t \in IndexOf(c)[i]}  BY <3>1, <1>2, FoundOpposite
    <3>3. \A t \in DOMAIN ts : p[p[t]] = t
      <4>1. \A k \in DOMAIN ts : Len(ts) - k + 1 \in DOMAIN ts /\ Len(ts) - (Len(ts) - k + 1) + 1 = k
        BY <1>2, ReversedPlaces
      <4>2. p = [k \in DOMAIN ts |-> Len(ts) - k + 1]  BY DEF Opposite
      <4> HIDE DEF p, ts
      <4> QED BY <4>1, <4>2
    <3>4. IndexOf(c)[i] \subseteq DOMAIN ts  BY <2>2
    <3> HIDE DEF p, ts
    <3>5. IndexOf(c)[i] = {p[t] : t \in IndexOf(b)[i]}  BY <3>2, <3>3, <3>4
    <3> QED BY <3>2, <3>5
  <2>7. /\ x.currency = c.currency /\ x.countryZone = c.countryZone
        /\ x.tariffs = [t \in DOMAIN us |-> TariffToInput(c.version, us[t])]
        /\ x.periods = [i \in DOMAIN c.periods |-> PeriodToInput(c.periods[i], IndexOf(b)[i])]
        /\ y.currency = c.currency /\ y.countryZone = c.countryZone
        /\ y.tariffs = [t \in DOMAIN ts |-> TariffToInput(c.version, ts[t])]
        /\ y.periods = [i \in DOMAIN c.periods |-> PeriodToInput(c.periods[i], IndexOf(c)[i])]
    <3> DEFINE in(vs, ix) == ToInput(c, vs, ix)
    <3>1. \A vs, ix :
            /\ in(vs, ix).currency = c.currency /\ in(vs, ix).countryZone = c.countryZone
            /\ in(vs, ix).tariffs = [t \in DOMAIN vs |-> TariffToInput(c.version, vs[t])]
            /\ in(vs, ix).periods = [i \in DOMAIN c.periods |-> PeriodToInput(c.periods[i], ix[i])]
      BY InputFields
    <3>2. x = in(us, IndexOf(b)) /\ y = in(ts, IndexOf(c))  BY <2>3, <1>5
    <3> HIDE DEF in, us, ts
    <3> QED BY <3>1, <3>2
  <2>8. DOMAIN ts # {}
    <3>1. ts # <<>>  BY <1>7 DEF EmbeddedRefused
    <3> HIDE DEF ts
    <3>2. \A q \in Seq(CdrTariffs) : q # <<>> => 1 \in DOMAIN q  OBVIOUS
    <3> QED BY <3>1, <3>2, <1>2
  <2> HIDE DEF p, us, ts
  <2>9. Renames(p, x, y)  BY <2>3, <1>5, <2>4, <2>6, ReadAtItsPlace
  <2>10. Renames(p, y, x)  BY <2>3, <1>5, <2>4, <2>6, ReadAtItsPlace
  <2>11. /\ x.tariffs # <<>> /\ y.tariffs # <<>>
         /\ \A i \in DOMAIN x.periods : x.periods[i].tariff \subseteq DOMAIN x.tariffs
         /\ \A i \in DOMAIN y.periods : y.periods[i].tariff \subseteq DOMAIN y.tariffs
    <3>1. \A cp, i : PeriodToInput(cp, i).tariff = i  BY DEF PeriodToInput
    <3>2. \A q : q = <<>> => DOMAIN q = {}  OBVIOUS
    <3>3. DOMAIN x.tariffs = DOMAIN us /\ DOMAIN y.tariffs = DOMAIN ts  BY <2>7
    <3> QED BY <3>1, <3>2, <3>3, <2>2, <2>5, <2>7, <2>8
  <2>12. x.currency = y.currency /\ x.countryZone = y.countryZone  BY <2>7
  <2>13. CASE ~ Refused(x, o)
    <3>1. /\ Calculate(x, o).error = Calculate(y, o).error
          /\ Calculate(x, o).cost = Calculate(y, o).cost
          /\ Calculate(x, o).total = Calculate(y, o).total
      BY <2>13, <2>2, <2>12, <2>9, <2>11, PricedAtItsPlace
    <3> QED BY <3>1, <2>1 DEF r, s, b
  <2>14. CASE ~ Refused(y, o)
    <3>1. /\ Calculate(x, o).error = Calculate(y, o).error
          /\ Calculate(x, o).cost = Calculate(y, o).cost
          /\ Calculate(x, o).total = Calculate(y, o).total
      BY <2>14, <2>2, <2>12, <2>10, <2>11, PricedAtItsPlace
    <3> QED BY <3>1, <2>1 DEF r, s, b
  <2>15. CASE Refused(x, o) /\ Refused(y, o)
    <3>1. Calculate(x, o) = Calculate(y, o)  BY <2>15, CalculateFacts
    <3> QED BY <3>1, <2>1 DEF r, s, b
  <2> QED BY <2>13, <2>14, <2>15
<1> QED BY <1>6, <1>7

\* The order in which a CDR embeds its tariffs changes neither the bill nor
\* whether it is accepted, however many there are.
\* (indexByID and resolveTariffIndex)
THEOREM OrderBillsAlike == Spec => []TariffsGoByTheirIds
<1>1. AdapterInv => TariffsGoByTheirIds
  <2> DEFINE b == TurnedAround(cdr)
  <2> SUFFICES ASSUME AdapterInv, Answered("CalculateCDR") PROVE SameBill(Priced(b))
    BY DEF TariffsGoByTheirIds, TurnedAround
  <2>1. cdr \in CDRs /\ AnswersTheCdr  BY DEF AdapterInv
  <2>2. /\ Priced(b).error = Priced(cdr).error
        /\ Priced(b).cost = Priced(cdr).cost
        /\ Priced(b).total = Priced(cdr).total
    BY <2>1, TurnedPricedAlike DEF Priced
  <2> HIDE DEF b
  <2> QED BY <2>1, <2>2, SameAmountsSameBill
<1> QED BY <1>1, AdapterInvariance, PTL

-----------------------------------------------------------------------------
(* The simulator's form.                                                    *)

\* The rows up to place k are the dimensions before it that have a row, each
\* once: p says where each row comes from.
RowsUpTo(dims, k, rows, p) ==
    /\ rows \in Seq(Dimensions) /\ p \in [DOMAIN rows -> 1 .. k]
    /\ \A i, j \in DOMAIN rows : p[i] = p[j] => i = j
    /\ \A i \in DOMAIN rows : rows[i] = dims[p[i]] /\ dims[p[i]].type \in DimensionForm
    /\ \A l \in 1 .. k : dims[l].type \in DimensionForm => \E i \in DOMAIN rows : p[i] = l

\* Each dimension that has a row has one (deserializeDimension and the filter).
LEMMA RowsFacts ==
    ASSUME NEW dims \in Seq(Dimensions)
    PROVE  \E p : RowsUpTo(dims, Len(dims), Rows(dims), p)
<1> DEFINE n == Len(dims)
           body(k, f) == IF k = 0 THEN <<>>
                         ELSE IF dims[k].type \in DimensionForm THEN Append(f[k - 1], dims[k])
                         ELSE f[k - 1]
           B == {m \in Nat : \E f : f = [k \in 0 .. m |-> body(k, f)]}
<1>1. 0 \in B
  <2> DEFINE f == [k \in 0 .. 0 |-> <<>>]
  <2>1. f = [k \in 0 .. 0 |-> body(k, f)]  OBVIOUS
  <2> HIDE DEF f, body
  <2> QED BY <2>1
<1>2. ASSUME NEW m \in Nat, m \in B
      PROVE  m + 1 \in B
  <2>1. PICK f : f = [k \in 0 .. m |-> body(k, f)]  BY <1>2
  <2> DEFINE g == [k \in 0 .. m + 1 |-> body(k, f)]
  <2>2. ASSUME NEW k \in 0 .. m + 1
        PROVE  g[k] = body(k, g)
    <3>1. CASE k = 0  BY <3>1
    <3>2. CASE k # 0
      <4>1. k - 1 \in 0 .. m /\ k - 1 \in 0 .. m + 1  BY <3>2
      <4>2. f[k - 1] = body(k - 1, f)
        <5> HIDE DEF body
        <5> QED BY <2>1, <4>1
      <4>3. g[k - 1] = body(k - 1, f) /\ g[k] = body(k, f)
        <5> HIDE DEF body
        <5> QED BY <4>1
      <4>4. f[k - 1] = g[k - 1]  BY <4>2, <4>3
      <4> HIDE DEF g
      <4>5. body(k, f) = body(k, g)  BY <3>2, <4>4
      <4> QED BY <4>3, <4>5
    <3> QED BY <3>1, <3>2
  <2>3. g = [k \in 0 .. m + 1 |-> g[k]]
    <3> HIDE DEF body
    <3> QED OBVIOUS
  <2> HIDE DEF g, body
  <2>4. g = [k \in 0 .. m + 1 |-> body(k, g)]  BY <2>2, <2>3
  <2> QED BY <2>4
<1> HIDE DEF B
<1>3. n \in B  BY <1>1, <1>2, NatSetInduction
<1> DEFINE rows == CHOOSE f : f = [k \in 0 .. n |-> body(k, f)]
<1>4. Rows(dims) = rows[n]  BY Zenon DEF Rows
<1> HIDE DEF body
<1>5. \E f : f = [k \in 0 .. n |-> body(k, f)]  BY <1>3 DEF B
<1>6. rows = [k \in 0 .. n |-> body(k, rows)]  BY <1>5
<1> HIDE DEF rows
<1>7. \A k \in 0 .. n : rows[k] = body(k, rows)  BY <1>6
<1> DEFINE H == {m \in Nat : m <= n => \E p : RowsUpTo(dims, m, rows[m], p)}
<1>8. 0 \in H
  <2>1. rows[0] = <<>>  BY <1>7 DEF body
  <2> DEFINE p == [i \in {} |-> 0]
  <2>2. RowsUpTo(dims, 0, <<>>, p)  BY DEF RowsUpTo
  <2> HIDE DEF p
  <2> QED BY <2>1, <2>2
<1>9. ASSUME NEW m \in Nat, m \in H
      PROVE  m + 1 \in H
  <2> SUFFICES ASSUME m + 1 <= n PROVE \E p : RowsUpTo(dims, m + 1, rows[m + 1], p)  OBVIOUS
  <2>1. PICK p : RowsUpTo(dims, m, rows[m], p)  BY <1>9
  <2>2. m + 1 \in 0 .. n /\ m + 1 # 0 /\ m + 1 - 1 = m /\ m + 1 \in DOMAIN dims  OBVIOUS
  <2> DEFINE d == dims[m + 1]
             old == rows[m]
  <2>3. d \in Dimensions  BY <2>2
  <2>4. rows[m + 1] = IF d.type \in DimensionForm THEN Append(old, d) ELSE old
    <3>1. rows[m + 1] = body(m + 1, rows)  BY <1>7, <2>2
    <3> QED BY <2>2, <3>1 DEF body
  <2>5. d = dims[m + 1]  OBVIOUS
  <2>6. RowsUpTo(dims, m, old, p)  BY <2>1
  <2> HIDE DEF d, old
  <2>7. /\ old \in Seq(Dimensions) /\ p \in [DOMAIN old -> 1 .. m]
        /\ \A i, j \in DOMAIN old : p[i] = p[j] => i = j
        /\ \A i \in DOMAIN old : old[i] = dims[p[i]] /\ dims[p[i]].type \in DimensionForm
        /\ \A l \in 1 .. m : dims[l].type \in DimensionForm => \E i \in DOMAIN old : p[i] = l
    BY <2>6 DEF RowsUpTo
  <2>8. 1 .. m + 1 = (1 .. m) \cup {m + 1} /\ m + 1 \notin 1 .. m  OBVIOUS
  <2>9. CASE d.type \notin DimensionForm
    <3>1. rows[m + 1] = old  BY <2>4, <2>9
    <3>2. RowsUpTo(dims, m + 1, old, p)
      <4>1. p \in [DOMAIN old -> 1 .. m + 1]  BY <2>7, <2>8
      <4>2. \A l \in 1 .. m + 1 : dims[l].type \in DimensionForm => \E i \in DOMAIN old : p[i] = l
        BY <2>5, <2>7, <2>8, <2>9
      <4> QED BY <2>7, <4>1, <4>2 DEF RowsUpTo
    <3> QED BY <3>1, <3>2
  <2>10. CASE d.type \in DimensionForm
    <3> DEFINE new == Append(old, d)
               c == Len(old) + 1
               q == [i \in DOMAIN new |-> IF i = c THEN m + 1 ELSE p[i]]
    <3>1. rows[m + 1] = new  BY <2>4, <2>10
    <3>2. /\ new \in Seq(Dimensions) /\ DOMAIN new = DOMAIN old \cup {c} /\ c \notin DOMAIN old
          /\ new[c] = d /\ \A i \in DOMAIN old : new[i] = old[i]
      BY <2>3, <2>7
    <3> HIDE DEF new, c
    <3>3. /\ q[c] = m + 1 /\ \A i \in DOMAIN old : q[i] = p[i]
          /\ q = [i \in DOMAIN new |-> q[i]]
      BY <3>2
    <3> HIDE DEF q
    <3>4. \A i \in DOMAIN old : p[i] \in 1 .. m  BY <2>7
    <3>5. q \in [DOMAIN new -> 1 .. m + 1]  BY <2>8, <3>2, <3>3, <3>4
    <3>6. \A i, j \in DOMAIN new : q[i] = q[j] => i = j  BY <2>7, <2>8, <3>2, <3>3, <3>4
    <3>7. \A i \in DOMAIN new : new[i] = dims[q[i]] /\ dims[q[i]].type \in DimensionForm
      BY <2>5, <2>7, <2>10, <3>2, <3>3
    <3>8. \A l \in 1 .. m + 1 : dims[l].type \in DimensionForm => \E i \in DOMAIN new : q[i] = l
      BY <2>7, <2>8, <3>2, <3>3
    <3>9. RowsUpTo(dims, m + 1, new, q)  BY <3>2, <3>5, <3>6, <3>7, <3>8 DEF RowsUpTo
    <3> QED BY <3>1, <3>9
  <2> QED BY <2>9, <2>10
<1> HIDE DEF H
<1>10. n \in H  BY <1>8, <1>9, NatSetInduction
<1> QED BY <1>4, <1>10 DEF H

\* The volumes of dimension d among dims.
VolumesOf(dims, d) == {dims[k].volume : k \in {x \in DOMAIN dims : dims[x].type = d}}

\* The rows have the volumes of the dimensions, and repeat none that they do not.
LEMMA RowsKeepVolumes ==
    ASSUME NEW cp \in ChargingPeriods
    PROVE  /\ Rows(cp.dims) \in Seq(Dimensions)
           /\ \A d \in Volumed : VolumesOf(Rows(cp.dims), d) = VolumesOf(cp.dims, d)
           /\ \A q : q.dims = Rows(cp.dims) /\ DuplicateDimension(q) => DuplicateDimension(cp)
<1> DEFINE dims == cp.dims
           rows == Rows(dims)
           n == Len(dims)
<1>1. dims \in Seq(Dimensions)  BY DEF ChargingPeriods, Dimensions
<1>2. PICK p : RowsUpTo(dims, n, rows, p)
  <2> HIDE DEF dims
  <2> QED BY <1>1, RowsFacts
<1>3. DOMAIN dims = 1 .. n
  <2> HIDE DEF dims
  <2> QED BY <1>1
<1> HIDE DEF rows, dims, n
<1>4. /\ rows \in Seq(Dimensions) /\ \A i \in DOMAIN rows : p[i] \in DOMAIN dims
      /\ \A i, j \in DOMAIN rows : p[i] = p[j] => i = j
      /\ \A i \in DOMAIN rows : rows[i] = dims[p[i]]
      /\ \A l \in DOMAIN dims : dims[l].type \in DimensionForm => \E i \in DOMAIN rows : p[i] = l
  BY <1>2, <1>3 DEF RowsUpTo
<1>5. ASSUME NEW d \in Volumed
      PROVE  VolumesOf(rows, d) = VolumesOf(dims, d)
  <2>1. ASSUME NEW v \in VolumesOf(rows, d) PROVE v \in VolumesOf(dims, d)
    <3>1. PICK k \in DOMAIN rows : rows[k].type = d /\ v = rows[k].volume
      BY <2>1 DEF VolumesOf
    <3>2. p[k] \in DOMAIN dims /\ dims[p[k]].type = d /\ v = dims[p[k]].volume  BY <1>4, <3>1
    <3> QED BY <3>2 DEF VolumesOf
  <2>2. ASSUME NEW v \in VolumesOf(dims, d) PROVE v \in VolumesOf(rows, d)
    <3>1. PICK l \in DOMAIN dims : dims[l].type = d /\ v = dims[l].volume
      BY <2>2 DEF VolumesOf
    <3>2. PICK i \in DOMAIN rows : p[i] = l  BY <1>4, <3>1 DEF DimensionForm
    <3>3. rows[i].type = d /\ v = rows[i].volume  BY <1>4, <3>1, <3>2
    <3> QED BY <3>3 DEF VolumesOf
  <2> QED BY <2>1, <2>2
<1>6. ASSUME NEW q, q.dims = rows, DuplicateDimension(q) PROVE DuplicateDimension(cp)
  <2>1. PICK j \in DOMAIN rows, k \in DOMAIN rows : j # k /\ rows[j].type = rows[k].type
    BY <1>6 DEF DuplicateDimension
  <2>2. p[j] # p[k] /\ dims[p[j]].type = dims[p[k]].type /\ p[j] \in DOMAIN dims /\ p[k] \in DOMAIN dims
    BY <1>4, <2>1
  <2> QED BY <2>2 DEF DuplicateDimension, dims
<1> QED BY <1>4, <1>5, <1>6 DEF rows, dims

\* periodToInput charges alike for two periods with the same volumes.
LEMMA SameVolumesSameCharge ==
    \A q, cp, tariff :
        q.start = cp.start /\ (\A d \in Volumed : VolumesOf(q.dims, d) = VolumesOf(cp.dims, d)) =>
            SameCharge(PeriodToInput(q, tariff), PeriodToInput(cp, tariff))
<1> SUFFICES ASSUME NEW q, NEW cp, NEW tariff, q.start = cp.start,
                    \A d \in Volumed : VolumesOf(q.dims, d) = VolumesOf(cp.dims, d)
             PROVE  SameCharge(PeriodToInput(q, tariff), PeriodToInput(cp, tariff))
  OBVIOUS
<1> DEFINE V(x) == [d \in Volumed |-> VolumesOf(x.dims, d)]
<1>1. \A x : PeriodToInput(x, tariff) =
        [start |-> x.start, volume |-> V(x),
         minPower |-> Reading(x, "minPower"), maxPower |-> Reading(x, "maxPower"),
         minCurrent |-> Reading(x, "minCurrent"), maxCurrent |-> Reading(x, "maxCurrent"),
         tariff |-> tariff]
  BY Zenon DEF PeriodToInput, VolumesOf
<1>2. V(q) = V(cp)  OBVIOUS
<1> HIDE DEF V
<1>3. \A x : /\ PeriodToInput(x, tariff).start = x.start
             /\ PeriodToInput(x, tariff).volume = V(x)
             /\ PeriodToInput(x, tariff).tariff = tariff
  BY <1>1
<1> QED BY <1>2, <1>3 DEF SameCharge

\* A tariff that was read into the form and written again.
KeptTariff(t, version) == SerializeTariff(DeserializeTariff(t), version)

ExpressibleTariff(t) ==
    /\ t.validFrom \cup t.validUntil = {}
    /\ \A p \in t.minPrice \cup t.maxPrice : p = Money(p.before)
    /\ \A e \in DOMAIN t.elements : \A r \in t.elements[e].restrictions :
          /\ ~ r.booking /\ ~ r.unknownDay
          /\ \A f \in DOMAIN NoRestrictions \ RestrictionForm : r.fields[f] = NoRestrictions[f]

CdrRestrictions == [fields : Restrictions, booking : BOOLEAN, unknownDay : BOOLEAN]
Written(rs) ==
    {[fields |-> r, booking |-> FALSE, unknownDay |-> FALSE] : r \in DeserializeRestriction(rs)}

\* Restrictions with fields in the form mean the same after editing: they are
\* left out only when they restrict nothing (deserializeRestriction).
LEMMA WrittenRestrictions ==
    ASSUME NEW rs \in Opt(CdrRestrictions), NEW version,
           \A r \in rs : /\ ~ r.booking /\ ~ r.unknownDay
                         /\ \A f \in DOMAIN NoRestrictions \ RestrictionForm :
                               r.fields[f] = NoRestrictions[f]
    PROVE  /\ RestrictionsToInput(version, Written(rs)) = RestrictionsToInput(version, rs)
           /\ \A r \in Written(rs) : ~ r.unknownDay
           /\ NeedsNoReadings(RestrictionsToInput(version, rs))
<1> DEFINE Kept(r) == [f \in DOMAIN NoRestrictions |->
                         IF f \in RestrictionForm THEN r.fields[f] ELSE NoRestrictions[f]]
<1>1. DeserializeRestriction(rs) = {Kept(r) : r \in rs} \ {NoRestrictions}
  BY Zenon DEF DeserializeRestriction
<1>2. \A r \in Written(rs) : ~ r.unknownDay  BY DEF Written
<1>3. \A v : RestrictionsToInput(v, {}) = NoRestrictions  BY DEF RestrictionsToInput
<1>4. \A v, r : RestrictionsToInput(v, {r}) = [r.fields EXCEPT !.unsupported = v = "2.3.0" /\ r.booking]
  <2> SUFFICES ASSUME NEW v, NEW r
               PROVE  RestrictionsToInput(v, {r}) = [r.fields EXCEPT !.unsupported = v = "2.3.0" /\ r.booking]
    OBVIOUS
  <2>1. (CHOOSE x \in {r} : TRUE) = r /\ {r} # {}  OBVIOUS
  <2> QED BY <2>1 DEF RestrictionsToInput
<1>5. NeedsNoReadings(NoRestrictions)  BY DEF NeedsNoReadings, NoRestrictions
<1>6. CASE rs = {}
  <2>1. Written(rs) = {}  BY <1>1, <1>6 DEF Written
  <2> QED BY <1>2, <1>3, <1>5, <1>6, <2>1
<1>7. CASE rs # {}
  <2>1. PICK r \in rs : TRUE  BY <1>7
  <2>2. rs = {r} /\ r \in CdrRestrictions  BY <2>1 DEF Opt
  <2> DEFINE F == r.fields
  <2>3. /\ F \in Restrictions /\ r.booking = FALSE
        /\ \A f \in DOMAIN NoRestrictions \ RestrictionForm : F[f] = NoRestrictions[f]
    <3>1. r.booking \in BOOLEAN /\ ~ r.booking  BY <2>1, <2>2 DEF CdrRestrictions
    <3> QED BY <2>1, <2>2, <3>1 DEF CdrRestrictions
  <2>4. Kept(r) = F
    <3>1. Kept(r) = [f \in DOMAIN NoRestrictions |-> F[f]]  BY <2>3
    <3>2. F = [f \in DOMAIN NoRestrictions |-> F[f]]
      <4> HIDE DEF F
      <4> QED BY <2>3 DEF Restrictions, NoRestrictions
    <3> QED BY <3>1, <3>2
  <2>5. {Kept(x) : x \in rs} = {F}  BY <2>2, <2>4
  <2>6. RestrictionsToInput(version, rs) = [F EXCEPT !.unsupported = version = "2.3.0" /\ FALSE]
    BY <1>4, <2>2, <2>3
  <2>7. [F EXCEPT !.unsupported = version = "2.3.0" /\ FALSE] = F /\ NeedsNoReadings(F)
    <3> HIDE DEF F
    <3>1. /\ F["unsupported"] = FALSE /\ F["minPower"] = {} /\ F["maxPower"] = {}
          /\ F["minCurrent"] = {} /\ F["maxCurrent"] = {}
      BY <2>3 DEF NoRestrictions, RestrictionForm
    <3>2. (version = "2.3.0" /\ FALSE) = FALSE  OBVIOUS
    <3>3. [F EXCEPT !.unsupported = FALSE] = F  BY <2>3, <3>1 DEF Restrictions
    <3>4. NeedsNoReadings(F)  BY <3>1 DEF NeedsNoReadings
    <3> QED BY <3>2, <3>3, <3>4
  <2> HIDE DEF F, Kept
  <2>8. CASE F = NoRestrictions
    <3>1. Written(rs) = {}  BY <1>1, <2>5, <2>8 DEF Written
    <3> QED BY <1>2, <1>3, <2>6, <2>7, <2>8, <3>1
  <2>9. CASE F # NoRestrictions
    <3> DEFINE w == [fields |-> F, booking |-> FALSE, unknownDay |-> FALSE]
    <3>1. Written(rs) = {w}  BY <1>1, <2>5, <2>9 DEF Written
    <3>2. w.fields = F /\ w.booking = FALSE  OBVIOUS
    <3> HIDE DEF w
    <3>3. RestrictionsToInput(version, {w}) = [F EXCEPT !.unsupported = version = "2.3.0" /\ FALSE]
      BY <1>4, <3>2
    <3> QED BY <1>2, <2>6, <2>7, <3>1, <3>3
  <2> QED BY <2>8, <2>9
<1> QED BY <1>6, <1>7

\* So does a tariff the form can express.
LEMMA KeptTariffIsTheSame ==
    ASSUME NEW t \in CdrTariffs, ExpressibleTariff(t), NEW version \in {"2.2.1", "2.3.0"}
    PROVE  /\ TariffToInput(version, KeptTariff(t, version)) = TariffToInput(version, t)
           /\ TariffRefused(version, KeptTariff(t, version)) <=> TariffRefused(version, t)
           /\ KeptTariff(t, version).id = t.id
           /\ \A e \in DOMAIN TariffToInput(version, t).elements :
                 NeedsNoReadings(TariffToInput(version, t).elements[e].restrictions)
<1> DEFINE k == KeptTariff(t, version)
           els == [e \in DOMAIN t.elements |->
                     [components |-> t.elements[e].components,
                      restrictions |-> Written(t.elements[e].restrictions)]]
           tax == IF version = "2.3.0"
                  THEN IF t.taxIncluded = "unset" THEN "NO" ELSE t.taxIncluded
                  ELSE "unset"
           Limits(price) == {Money(x) : x \in MoneyValue(price)}
<1>1. /\ k.id = t.id /\ k.currency = t.currency /\ k.validFrom = {} /\ k.validUntil = {}
      /\ k.minPrice = Limits(t.minPrice) /\ k.maxPrice = Limits(t.maxPrice)
      /\ k.taxIncluded = tax /\ k.elements = els
  <2> DEFINE d == DeserializeTariff(t)
             els0 == [e \in DOMAIN t.elements |->
                        [components |-> t.elements[e].components,
                         restriction |-> DeserializeRestriction(t.elements[e].restrictions)]]
  <2>1. /\ d.id = t.id /\ d.currency = t.currency
        /\ d.taxIncluded = (IF t.taxIncluded = "unset" THEN "NO" ELSE t.taxIncluded)
        /\ d.minPrice = MoneyValue(t.minPrice) /\ d.maxPrice = MoneyValue(t.maxPrice)
        /\ d.elements = els0
    BY DEF DeserializeTariff
  <2> DEFINE W(x) == [e \in DOMAIN x |->
                        [components |-> x[e].components,
                         restrictions |-> {[fields |-> r, booking |-> FALSE, unknownDay |-> FALSE] :
                                             r \in x[e].restriction}]]
             S(x) == [id |-> x.id, currency |-> x.currency, validFrom |-> {}, validUntil |-> {},
                      taxIncluded |-> IF version = "2.3.0" THEN x.taxIncluded ELSE "unset",
                      minPrice |-> {Money(y) : y \in x.minPrice},
                      maxPrice |-> {Money(y) : y \in x.maxPrice}, elements |-> W(x.elements)]
  <2>2. k = S(d)  BY Zenon DEF SerializeTariff, KeptTariff
  <2>3. W(els0) = els  BY DEF Written
  <2> HIDE DEF d, W, els0, els, k
  <2> QED BY <2>1, <2>2, <2>3
<1>2. /\ DOMAIN els = DOMAIN t.elements
      /\ \A e \in DOMAIN t.elements :
            /\ els[e].components = t.elements[e].components
            /\ els[e].restrictions = Written(t.elements[e].restrictions)
  OBVIOUS
<1>3. \A e \in DOMAIN t.elements :
        /\ RestrictionsToInput(version, Written(t.elements[e].restrictions))
             = RestrictionsToInput(version, t.elements[e].restrictions)
        /\ \A r \in Written(t.elements[e].restrictions) : ~ r.unknownDay
        /\ NeedsNoReadings(RestrictionsToInput(version, t.elements[e].restrictions))
  <2> SUFFICES ASSUME NEW e \in DOMAIN t.elements
               PROVE  /\ RestrictionsToInput(version, Written(t.elements[e].restrictions))
                           = RestrictionsToInput(version, t.elements[e].restrictions)
                      /\ \A r \in Written(t.elements[e].restrictions) : ~ r.unknownDay
                      /\ NeedsNoReadings(RestrictionsToInput(version, t.elements[e].restrictions))
    OBVIOUS
  <2> DEFINE rs == t.elements[e].restrictions
  <2>1. rs \in Opt(CdrRestrictions)
    <3>1. t.elements[e] \in CdrElements  BY CdrTariffFields
    <3> QED BY <3>1 DEF CdrElements, CdrRestrictions
  <2>2. \A r \in rs : /\ ~ r.booking /\ ~ r.unknownDay
                      /\ \A f \in DOMAIN NoRestrictions \ RestrictionForm :
                            r.fields[f] = NoRestrictions[f]
    BY DEF ExpressibleTariff
  <2> HIDE DEF rs
  <2>3. /\ RestrictionsToInput(version, Written(rs)) = RestrictionsToInput(version, rs)
        /\ \A r \in Written(rs) : ~ r.unknownDay
        /\ NeedsNoReadings(RestrictionsToInput(version, rs))
    BY <2>1, <2>2, WrittenRestrictions
  <2> QED BY <2>3 DEF rs
<1>4. Limits(t.minPrice) = t.minPrice /\ Limits(t.maxPrice) = t.maxPrice
  <2>1. \A price : (\A p \in price : p = Money(p.before)) => Limits(price) = price
    BY DEF MoneyValue
  <2> QED BY <2>1 DEF ExpressibleTariff
<1>5. t.validFrom = {} /\ t.validUntil = {}  BY DEF ExpressibleTariff
<1> DEFINE comp(c, taxIncluded) == IF version = "2.2.1" THEN PriceComponent221(c)
                                   ELSE PriceComponent230(c, taxIncluded)
           E(x) == [e \in DOMAIN x.elements |->
                      [components |-> [j \in DOMAIN x.elements[e].components |->
                                         comp(x.elements[e].components[j], x.taxIncluded)],
                       restrictions |-> RestrictionsToInput(version, x.elements[e].restrictions)]]
<1>6. \A c : comp(c, tax) = comp(c, t.taxIncluded)
  BY DEF PriceComponent230
<1>7. \A x : TariffToInput(version, x) =
        [currency |-> x.currency, validFrom |-> x.validFrom, validUntil |-> x.validUntil,
         minPrice |-> MoneyFromPriceLimit(x.minPrice), maxPrice |-> MoneyFromPriceLimit(x.maxPrice),
         elements |-> E(x)]
  BY Zenon DEF TariffToInput
<1>8. E(k) = E(t)
  <2> HIDE DEF comp, k, els, tax
  <2>1. \A e \in DOMAIN t.elements :
           [j \in DOMAIN els[e].components |-> comp(els[e].components[j], tax)]
             = [j \in DOMAIN t.elements[e].components |-> comp(t.elements[e].components[j], t.taxIncluded)]
    BY <1>2, <1>6
  <2> QED BY <1>1, <1>2, <1>3, <2>1
<1>9. /\ DOMAIN E(t) = DOMAIN t.elements
      /\ \A e \in DOMAIN t.elements :
           E(t)[e].restrictions = RestrictionsToInput(version, t.elements[e].restrictions)
  <2> HIDE DEF comp
  <2> QED OBVIOUS
<1> HIDE DEF E, Limits
<1>10. TariffToInput(version, k) = TariffToInput(version, t)
  <2> HIDE DEF k, els, tax
  <2> QED BY <1>1, <1>4, <1>5, <1>7, <1>8
<1>11. \A e \in DOMAIN TariffToInput(version, t).elements :
          NeedsNoReadings(TariffToInput(version, t).elements[e].restrictions)
  <2>1. TariffToInput(version, t).elements = E(t)  BY <1>7
  <2> QED BY <1>3, <1>9, <2>1
<1>12. TariffRefused(version, k) <=> TariffRefused(version, t)
  <2> DEFINE Bad(c, taxIncluded) ==
               \/ c.type \notin ParseDimensionType
               \/ version = "2.3.0" /\ taxIncluded = "YES" /\ c.vat = {-100}
  <2>1. \A x : TariffRefused(version, x) <=>
           \E e \in DOMAIN x.elements :
             \/ \E j \in DOMAIN x.elements[e].components :
                  Bad(x.elements[e].components[j], x.taxIncluded)
             \/ \E r \in x.elements[e].restrictions : r.unknownDay
    BY Zenon DEF TariffRefused
  <2>2. \A c : Bad(c, tax) <=> Bad(c, t.taxIncluded)  OBVIOUS
  <2>3. \A e \in DOMAIN t.elements : \A r \in t.elements[e].restrictions : ~ r.unknownDay
    BY DEF ExpressibleTariff
  <2> HIDE DEF Bad, k, els, tax
  <2> QED BY <1>1, <1>2, <1>3, <2>1, <2>2, <2>3
<1> HIDE DEF k
<1>13. k.id = t.id  BY <1>1
<1> QED BY <1>10, <1>11, <1>12, <1>13 DEF k

\* A CDR that was edited in the form.
Edited(c) == Serialize(Deserialize(c), c.version)
EditedPeriod(cp) == [start |-> cp.start, tariffId |-> cp.tariffId, dims |-> Rows(cp.dims)]

WrittenTariffs(f, version) == [t \in DOMAIN f.tariffs |-> SerializeTariff(f.tariffs[t], version)]
WrittenPeriods(f) ==
    [i \in DOMAIN f.periods |->
        [start |-> f.periods[i].start, tariffId |-> f.periods[i].tariffId \ {""},
         dims  |-> f.periods[i].dimensions]]
IsWritten(b, f, version) ==
    /\ b.version = version /\ b.currency = f.currency /\ b.countryZone = f.countryZone
    /\ b.start = f.start /\ b.end = f.end
    /\ b.tariffs = WrittenTariffs(f, version) /\ b.periods = WrittenPeriods(f)
    /\ b.totals = SerializeTotals(f)
    /\ b = [version |-> b.version, currency |-> b.currency, countryZone |-> b.countryZone,
            start |-> b.start, end |-> b.end, tariffs |-> b.tariffs,
            periods |-> b.periods, totals |-> b.totals]

\* The fields of what serialize writes.
LEMMA SerializedFields ==
    ASSUME NEW f, NEW version
    PROVE  IsWritten(Serialize(f, version), f, version)
<1> DEFINE b == Serialize(f, version)
           us == WrittenTariffs(f, version)
           qs == WrittenPeriods(f)
           tot == SerializeTotals(f)
           cu == f.currency  co == f.countryZone  st == f.start  en == f.end
<1>1. b = [version |-> version, currency |-> cu, countryZone |-> co, start |-> st,
           end |-> en, tariffs |-> us, periods |-> qs, totals |-> tot]
  BY Zenon DEF Serialize, WrittenTariffs, WrittenPeriods
<1> HIDE DEF b, us, qs, tot, cu, co, st, en
<1>2. /\ b.version = version /\ b.currency = cu /\ b.countryZone = co /\ b.start = st
      /\ b.end = en /\ b.tariffs = us /\ b.periods = qs /\ b.totals = tot
  BY ONLY <1>1
<1>3. b = [version |-> b.version, currency |-> b.currency, countryZone |-> b.countryZone,
           start |-> b.start, end |-> b.end, tariffs |-> b.tariffs,
           periods |-> b.periods, totals |-> b.totals]
  BY ONLY <1>1
<1> QED BY <1>2, <1>3 DEF IsWritten, b, us, qs, tot, cu, co, st, en

\* The form keeps the fields of a CDR, those of its tariffs and the rows of its
\* periods (deserialize, serialize).
LEMMA EditedFields ==
    ASSUME NEW c, \A i \in DOMAIN c.periods : "" \notin c.periods[i].tariffId
    PROVE  /\ Edited(c).version = c.version /\ Edited(c).currency = c.currency
           /\ Edited(c).countryZone = c.countryZone
           /\ Edited(c).start = c.start /\ Edited(c).end = c.end
           /\ Edited(c).tariffs = [t \in DOMAIN c.tariffs |-> KeptTariff(c.tariffs[t], c.version)]
           /\ Edited(c).periods = [i \in DOMAIN c.periods |-> EditedPeriod(c.periods[i])]
           /\ Edited(c).totals = SerializeTotals(Deserialize(c))
<1> DEFINE f == Deserialize(c)
           version == c.version
           ts == [t \in DOMAIN c.tariffs |-> DeserializeTariff(c.tariffs[t])]
           ps == [i \in DOMAIN c.periods |-> DeserializePeriod(c.periods[i])]
           b == Edited(c)
<1>1. /\ f.currency = c.currency /\ f.countryZone = c.countryZone /\ f.start = c.start
      /\ f.end = c.end /\ f.tariffs = ts /\ f.periods = ps
  <2> HIDE DEF ts, ps
  <2>1. f = [currency |-> c.currency, countryZone |-> c.countryZone, start |-> c.start,
             end |-> c.end, tariffs |-> ts, periods |-> ps,
             embedded |-> DeserializeTotals(c.totals)]
    BY Zenon DEF Deserialize, ts, ps
  <2> HIDE DEF f
  <2> QED BY <2>1
<1> HIDE DEF f
<1>2. WrittenTariffs(f, version) = [t \in DOMAIN c.tariffs |-> KeptTariff(c.tariffs[t], version)]
  BY <1>1 DEF KeptTariff, WrittenTariffs
<1>3. WrittenPeriods(f) = [i \in DOMAIN c.periods |-> EditedPeriod(c.periods[i])]
  <2>1. DOMAIN ps = DOMAIN c.periods  OBVIOUS
  <2>2. \A i \in DOMAIN c.periods :
           [start |-> ps[i].start, tariffId |-> ps[i].tariffId \ {""}, dims |-> ps[i].dimensions]
             = EditedPeriod(c.periods[i])
    <3> SUFFICES ASSUME NEW i \in DOMAIN c.periods
                 PROVE  [start |-> ps[i].start, tariffId |-> ps[i].tariffId \ {""},
                         dims |-> ps[i].dimensions] = EditedPeriod(c.periods[i])
      OBVIOUS
    <3>1. /\ ps[i].start = c.periods[i].start /\ ps[i].tariffId = c.periods[i].tariffId
          /\ ps[i].dimensions = Rows(c.periods[i].dims)
      BY DEF DeserializePeriod
    <3>2. ps[i].tariffId \ {""} = c.periods[i].tariffId  BY <3>1
    <3> HIDE DEF ps
    <3> QED BY <3>1, <3>2 DEF EditedPeriod
  <2> HIDE DEF ps
  <2> QED BY <1>1, <2>1, <2>2 DEF WrittenPeriods
<1>4. IsWritten(b, f, version)  BY SerializedFields DEF Edited, f
<1> HIDE DEF b
<1> QED BY <1>1, <1>2, <1>3, <1>4 DEF IsWritten, f, b

\* A list with an entry for each of another's is as long, and empty with it.
LEMMA EntryForEach ==
    ASSUME NEW S, NEW s \in Seq(S), NEW u, u = [t \in DOMAIN s |-> u[t]]
    PROVE  Len(u) = Len(s) /\ (u = <<>> <=> s = <<>>)
<1>1. DOMAIN s = 1 .. Len(s) /\ Len(s) \in Nat  OBVIOUS
<1>2. u = [t \in 1 .. Len(s) |-> u[t]]  BY <1>1
<1>3. Len(u) = Len(s)  BY <1>1, <1>2
<1>4. DOMAIN u = DOMAIN s  OBVIOUS
<1>5. DOMAIN <<>> = {} /\ \A x : x = <<>> => Len(x) = 0  OBVIOUS
<1>6. ASSUME u = <<>> PROVE s = <<>>
  <2>1. Len(s) = 0  BY <1>3, <1>5, <1>6
  <2> QED BY <2>1
<1>7. ASSUME s = <<>> PROVE u = <<>>
  <2>1. DOMAIN s = {}  BY <1>5, <1>7
  <2>2. u = [t \in {} |-> u[t]]  BY <2>1
  <2> QED BY <2>2
<1> QED BY <1>3, <1>6, <1>7

\* What Expressible says of the parts of a CDR.
LEMMA ExpressibleParts ==
    ASSUME NEW c, Expressible(c)
    PROVE  /\ \A t \in DOMAIN c.tariffs : ExpressibleTariff(c.tariffs[t])
           /\ \A i \in DOMAIN c.periods :
                 /\ "" \notin c.periods[i].tariffId
                 /\ DuplicateDimension(c.periods[i]) => DuplicateDimension(EditedPeriod(c.periods[i]))
<1>1. \A t \in DOMAIN c.tariffs : ExpressibleTariff(c.tariffs[t])
  BY Zenon DEF Expressible, ExpressibleTariff
<1>2. \A i \in DOMAIN c.periods :
         /\ "" \notin c.periods[i].tariffId
         /\ DuplicateDimension(c.periods[i]) =>
               DuplicateDimension([dims |-> Rows(c.periods[i].dims)])
  BY Zenon DEF Expressible
<1>3. \A cp : DuplicateDimension([dims |-> Rows(cp.dims)]) => DuplicateDimension(EditedPeriod(cp))
  BY DEF DuplicateDimension, EditedPeriod
<1> QED BY <1>1, <1>2, <1>3

\* An edited CDR is refused by the conversion when the CDR is, and otherwise
\* read as the same input, but for readings no tariff asks for.
LEMMA EditedReadAlike ==
    ASSUME NEW c \in CDRs, Expressible(c)
    PROVE  /\ EmbeddedRefused(Edited(c)) <=> EmbeddedRefused(c)
           /\ ~ EmbeddedRefused(c) =>
                 /\ SameButReadings(EmbeddedInput(Edited(c)), EmbeddedInput(c))
                 /\ EmbeddedInput(Edited(c)).periods \in Seq(Periods)
<1> DEFINE b == Edited(c)
           ts == c.tariffs
           cps == c.periods
           version == c.version
           us == [t \in DOMAIN ts |-> KeptTariff(ts[t], version)]
           eps == [i \in DOMAIN cps |-> EditedPeriod(cps[i])]
<1>1. /\ ts \in Seq(CdrTariffs) /\ cps \in Seq(ChargingPeriods) /\ version \in {"2.2.1", "2.3.0"}
  BY DEF CDRs
<1>2. /\ \A t \in DOMAIN ts : ExpressibleTariff(ts[t])
      /\ \A i \in DOMAIN cps : /\ "" \notin cps[i].tariffId
                               /\ DuplicateDimension(cps[i]) => DuplicateDimension(EditedPeriod(cps[i]))
  BY ExpressibleParts
<1>3. /\ b.version = version /\ b.currency = c.currency /\ b.countryZone = c.countryZone
      /\ b.start = c.start /\ b.end = c.end /\ b.tariffs = us /\ b.periods = eps
  BY <1>2, EditedFields
<1>4. ASSUME NEW t \in DOMAIN ts
      PROVE  /\ TariffToInput(version, us[t]) = TariffToInput(version, ts[t])
             /\ TariffRefused(version, us[t]) <=> TariffRefused(version, ts[t])
             /\ us[t].id = ts[t].id
             /\ \A e \in DOMAIN TariffToInput(version, ts[t]).elements :
                   NeedsNoReadings(TariffToInput(version, ts[t]).elements[e].restrictions)
  <2>1. ts[t] \in CdrTariffs
    <3> HIDE DEF ts
    <3> QED BY <1>1
  <2>2. us[t] = KeptTariff(ts[t], version)  OBVIOUS
  <2> DEFINE u == ts[t]
  <2>3. u \in CdrTariffs /\ ExpressibleTariff(u) /\ us[t] = KeptTariff(u, version)
    BY <1>2, <2>1, <2>2
  <2> HIDE DEF u, us, version
  <2>4. /\ TariffToInput(version, KeptTariff(u, version)) = TariffToInput(version, u)
        /\ TariffRefused(version, KeptTariff(u, version)) <=> TariffRefused(version, u)
        /\ KeptTariff(u, version).id = u.id
        /\ \A e \in DOMAIN TariffToInput(version, u).elements :
              NeedsNoReadings(TariffToInput(version, u).elements[e].restrictions)
    BY <1>1, <2>3, KeptTariffIsTheSame
  <2>5. /\ TariffToInput(version, us[t]) = TariffToInput(version, u)
        /\ TariffRefused(version, us[t]) <=> TariffRefused(version, u)
        /\ us[t].id = u.id
    BY <2>3, <2>4
  <2> QED BY <2>4, <2>5 DEF u
<1>5. ASSUME NEW i \in DOMAIN cps
      PROVE  /\ eps[i] \in ChargingPeriods /\ cps[i] \in ChargingPeriods
             /\ eps[i].start = cps[i].start /\ eps[i].tariffId = cps[i].tariffId
             /\ DuplicateDimension(eps[i]) <=> DuplicateDimension(cps[i])
             /\ \A d \in Volumed : VolumesOf(eps[i].dims, d) = VolumesOf(cps[i].dims, d)
  <2> DEFINE cp == cps[i]
             q == EditedPeriod(cp)
  <2>1. cp \in ChargingPeriods
    <3> HIDE DEF cps
    <3> QED BY <1>1
  <2>2. eps[i] = q  OBVIOUS
  <2>3. DuplicateDimension(cp) => DuplicateDimension(q)  BY <1>2
  <2> HIDE DEF cp, q, eps, cps
  <2>4. /\ Rows(cp.dims) \in Seq(Dimensions)
        /\ \A d \in Volumed : VolumesOf(Rows(cp.dims), d) = VolumesOf(cp.dims, d)
        /\ \A x : x.dims = Rows(cp.dims) /\ DuplicateDimension(x) => DuplicateDimension(cp)
    BY <2>1, RowsKeepVolumes
  <2>5. /\ q.start = cp.start /\ q.tariffId = cp.tariffId /\ q.dims = Rows(cp.dims)
        /\ q = [start |-> q.start, tariffId |-> q.tariffId, dims |-> q.dims]
    BY DEF q, EditedPeriod
  <2>6. q \in ChargingPeriods
    BY <2>1, <2>4, <2>5 DEF ChargingPeriods, Dimensions
  <2> QED BY <2>1, <2>2, <2>3, <2>4, <2>5, <2>6 DEF cp
<1>6. DOMAIN us = DOMAIN ts /\ us = [t \in DOMAIN ts |-> us[t]] /\ DOMAIN eps = DOMAIN cps
  OBVIOUS
<1> HIDE DEF b, us, eps
<1>7. Len(us) = Len(ts) /\ (us = <<>> <=> ts = <<>>)
  <2> HIDE DEF ts
  <2> QED BY <1>1, <1>6, EntryForEach
<1>8. SameIds(us, ts)
  <2> HIDE DEF ts
  <2> QED BY <1>4, <1>6, <1>7 DEF SameIds
<1>9. /\ AmbiguousTariffs(us) <=> AmbiguousTariffs(ts)
      /\ \A id : UnknownTariff(us, id) <=> UnknownTariff(ts, id)
      /\ \A id : ResolveTariffIndex(us, id) = ResolveTariffIndex(ts, id)
  <2> HIDE DEF ts
  <2> QED BY <1>8, SameIdsResolveAlike
<1>10. EmbeddedRefused(b) <=> EmbeddedRefused(c)
  <2>1. (\E t \in DOMAIN us : TariffRefused(version, us[t])) <=>
          \E t \in DOMAIN ts : TariffRefused(version, ts[t])
    <3> HIDE DEF ts, version
    <3> QED BY <1>4, <1>6
  <2>2. \A z : EmbeddedRefused(z) <=>
          \/ z.tariffs = <<>>
          \/ AmbiguousTariffs(z.tariffs)
          \/ \E t \in DOMAIN z.tariffs : TariffRefused(z.version, z.tariffs[t])
          \/ \E i \in DOMAIN z.periods : \/ DuplicateDimension(z.periods[i])
                                         \/ UnknownTariff(z.tariffs, z.periods[i].tariffId)
    BY Zenon DEF EmbeddedRefused
  <2>3. (\E i \in DOMAIN eps : DuplicateDimension(eps[i]) \/ UnknownTariff(us, eps[i].tariffId)) <=>
          \E i \in DOMAIN cps : DuplicateDimension(cps[i]) \/ UnknownTariff(ts, cps[i].tariffId)
    <3> HIDE DEF cps, ts
    <3> QED BY <1>5, <1>6, <1>9
  <2>4. c.tariffs = ts /\ c.periods = cps /\ c.version = version  OBVIOUS
  <2> HIDE DEF ts, cps, version
  <2> QED BY <1>3, <1>7, <1>9, <2>1, <2>2, <2>3, <2>4
<1> DEFINE x == EmbeddedInput(b)
           y == EmbeddedInput(c)
           in(z) == [t \in DOMAIN z.tariffs |-> TariffToInput(z.version, z.tariffs[t])]
           ps(z) == [i \in DOMAIN z.periods |-> PeriodToInput(z.periods[i], IndexOf(z)[i])]
<1>11. \A z : /\ EmbeddedInput(z).start = z.start /\ EmbeddedInput(z).end = z.end
              /\ EmbeddedInput(z).currency = z.currency
              /\ EmbeddedInput(z).countryZone = z.countryZone
              /\ EmbeddedInput(z).tariffs = in(z) /\ EmbeddedInput(z).periods = ps(z)
  BY InputFields DEF EmbeddedInput
<1>12. /\ in(b) = in(c)
       /\ DOMAIN in(c) = DOMAIN ts /\ \A t \in DOMAIN ts : in(c)[t] = TariffToInput(version, ts[t])
  <2>1. c.tariffs = ts /\ c.version = version  OBVIOUS
  <2> HIDE DEF ts, version
  <2> QED BY <1>3, <1>4, <1>6, <2>1
<1>13. \A i \in DOMAIN cps : IndexOf(b)[i] = IndexOf(c)[i]
  <2>1. \A z : IndexOf(z) = [i \in DOMAIN z.periods |-> ResolveTariffIndex(z.tariffs, z.periods[i].tariffId)]
    BY DEF IndexOf
  <2>2. c.tariffs = ts /\ c.periods = cps  OBVIOUS
  <2> HIDE DEF ts, cps, x, y, in, ps
  <2> SUFFICES ASSUME NEW i \in DOMAIN cps PROVE IndexOf(b)[i] = IndexOf(c)[i]  OBVIOUS
  <2>3. i \in DOMAIN eps /\ eps[i].tariffId = cps[i].tariffId  BY <1>5, <1>6
  <2>4. IndexOf(b)[i] = ResolveTariffIndex(us, eps[i].tariffId)  BY <1>3, <2>1, <2>3
  <2>5. IndexOf(c)[i] = ResolveTariffIndex(ts, cps[i].tariffId)  BY <2>1, <2>2
  <2> QED BY <1>9, <2>3, <2>4, <2>5
<1>14. /\ DOMAIN ps(b) = DOMAIN cps /\ DOMAIN ps(c) = DOMAIN cps
       /\ \A i \in DOMAIN cps : /\ ps(b)[i] = PeriodToInput(eps[i], IndexOf(c)[i])
                                /\ ps(c)[i] = PeriodToInput(cps[i], IndexOf(c)[i])
  <2>1. c.periods = cps  OBVIOUS
  <2> HIDE DEF cps
  <2> QED BY <1>3, <1>6, <1>13, <2>1
<1> HIDE DEF in, ps
<1>15. ASSUME ~ EmbeddedRefused(c)
       PROVE  SameButReadings(x, y) /\ x.periods \in Seq(Periods)
  <2>1. IsIndex(IndexOf(c), c) /\ Convertible(c, c.tariffs)  BY <1>15, IndexOfTyped
  <2>2. \A i \in DOMAIN cps : IndexOf(c)[i] \in Opt(Int) /\ ~ DuplicateDimension(cps[i])
    BY <2>1 DEF IsIndex, Convertible
  <2>3. \A i \in DOMAIN cps : ps(b)[i] \in Periods
    <3> SUFFICES ASSUME NEW i \in DOMAIN cps PROVE ps(b)[i] \in Periods  OBVIOUS
    <3>1. ~ DuplicateDimension(eps[i]) /\ eps[i] \in ChargingPeriods /\ IndexOf(c)[i] \in Opt(Int)
      BY <1>5, <2>2
    <3> QED BY <1>14, <3>1, PeriodToInputTyped
  <2>4. ps(b) \in Seq(Periods)
    <3>1. DOMAIN cps = 1 .. Len(cps) /\ Len(cps) \in Nat
      <4> HIDE DEF cps
      <4> QED BY <1>1, PlacesAreFinite
    <3>2. ps(b) = [i \in DOMAIN cps |-> ps(b)[i]]
      <4>1. ps(b) = [i \in DOMAIN ps(b) |-> ps(b)[i]]  BY DEF ps
      <4> QED BY <1>14, <4>1
    <3> HIDE DEF cps
    <3> QED BY <2>3, <3>1, <3>2
  <2>5. \A i \in DOMAIN cps : SameCharge(ps(b)[i], ps(c)[i])
    <3> SUFFICES ASSUME NEW i \in DOMAIN cps PROVE SameCharge(ps(b)[i], ps(c)[i])  OBVIOUS
    <3> QED BY <1>5, <1>14, SameVolumesSameCharge
  <2>6. \A t \in DOMAIN in(c) : \A e \in DOMAIN in(c)[t].elements :
           NeedsNoReadings(in(c)[t].elements[e].restrictions)
    BY <1>4, <1>12
  <2>7. x.periods = ps(b) /\ y.periods = ps(c) /\ y.tariffs = in(c)  BY <1>11
  <2>8. /\ x.start = y.start /\ x.end = y.end /\ x.currency = y.currency
        /\ x.countryZone = y.countryZone /\ x.tariffs = y.tariffs
    BY <1>3, <1>11, <1>12
  <2> HIDE DEF x, y, cps
  <2>9. SameButReadings(x, y)
    BY <1>14, <2>5, <2>6, <2>7, <2>8 DEF SameButReadings
  <2> QED BY <2>4, <2>7, <2>9
<1> QED BY <1>10, <1>15 DEF b

\* Editing a CDR does not change what it is priced at.
LEMMA EditedPricedAlike ==
    ASSUME NEW c \in CDRs, Expressible(c), NEW o
    PROVE  LET r == Report(FromCDRMultiTariff(Edited(c)), o)
               s == Report(FromCDRMultiTariff(c), o)
           IN  r.error = s.error /\ r.cost = s.cost /\ r.total = s.total
<1> DEFINE b == Edited(c)
           x == EmbeddedInput(b)
           y == EmbeddedInput(c)
           r == Report(FromCDRMultiTariff(b), o)
           s == Report(FromCDRMultiTariff(c), o)
<1>1. /\ r = IF EmbeddedRefused(b) THEN NoReport("invalid") ELSE Calculate(x, o)
      /\ s = IF EmbeddedRefused(c) THEN NoReport("invalid") ELSE Calculate(y, o)
  BY EmbeddedFacts
<1>2. /\ EmbeddedRefused(b) <=> EmbeddedRefused(c)
      /\ ~ EmbeddedRefused(c) => SameButReadings(x, y) /\ x.periods \in Seq(Periods)
  BY EditedReadAlike
<1>3. ~ EmbeddedRefused(c) => y \in Inputs  BY IndexOfTyped
<1> HIDE DEF b, x, y, r, s
<1>4. CASE EmbeddedRefused(c)  BY <1>1, <1>2, <1>4 DEF r, s, b
<1>5. CASE ~ EmbeddedRefused(c)
  <2>1. SameButReadings(x, y) /\ x.periods \in Seq(Periods) /\ y \in Inputs  BY <1>2, <1>3, <1>5
  <2>2. /\ Calculate(x, o).error = Calculate(y, o).error
        /\ Calculate(x, o).cost = Calculate(y, o).cost
        /\ Calculate(x, o).total = Calculate(y, o).total
    BY <2>1, ReadingsCostNothing
  <2>3. r = Calculate(x, o) /\ s = Calculate(y, o)  BY <1>1, <1>2, <1>5
  <2>4. r.error = s.error /\ r.cost = s.cost /\ r.total = s.total  BY <2>2, <2>3
  <2> QED BY <2>4 DEF r, s, b
<1> QED BY <1>4, <1>5

\* The amount of a report written as a total of its version is read back with
\* the same amount before tax, and with that after tax unless there is none
\* (reportMoneyToCdr).
LEMMA ReportMoneyReadBack ==
    ASSUME NEW m \in Moneys, NEW version
    PROVE  /\ ReadPrice(version, ReportMoneyToCdr(m, version)).before = m.before
           /\ AfterTax(ReadPrice(version, ReportMoneyToCdr(m, version))) \subseteq AfterTax(m)
<1> DEFINE after == AfterTax(m)
           before == m.before
           S == {x - 100 * before : x \in after}
           p == ReportMoneyToCdr(m, version)
           q == ReadPrice(version, p)
<1>1. PriceOf(m) = [before |-> before, after |-> after, taxes |-> SetToSeq(S)]  BY DEF PriceOf
<1>2. CASE version = "2.2.1"
  <2>1. p = [before |-> before, after |-> after, taxes |-> <<>>]  BY <1>2 DEF ReportMoneyToCdr
  <2> HIDE DEF before, after, S, p
  <2>2. ReadPrice(version, p) = ReadPrice(version, PriceOf(m))
    BY <1>1, <1>2, <2>1 DEF ReadPrice, MoneyFromPrice221
  <2> QED BY <2>2, PricesReadBack DEF p
<1>3. CASE version # "2.2.1"
  <2>1. p = [before |-> before, after |-> {}, taxes |-> SetToSeq(Nonzero(S))]
    BY <1>3 DEF ReportMoneyToCdr
  <2>2. \A z : ReadPrice(version, z) =
           [before |-> z.before, after |-> {},
            taxes |-> [i \in DOMAIN z.taxes |-> [kind |-> "amount", value |-> z.taxes[i]]]]
    BY <1>3 DEF ReadPrice, MoneyFromPrice230
  <2>3. CASE Nonzero(S) = S
    <3> HIDE DEF before, after, S, p
    <3>1. p.before = PriceOf(m).before /\ p.taxes = PriceOf(m).taxes  BY <1>1, <2>1, <2>3
    <3>2. ReadPrice(version, p) = ReadPrice(version, PriceOf(m))  BY <2>2, <3>1
    <3> QED BY <3>2, PricesReadBack DEF p
  <2>4. CASE Nonzero(S) # S
    <3>1. Nonzero(S) = {}
      <4>1. \A x, y \in after : x = y
        <5>1. AfterTax(m) \in Opt(Int)  BY AfterTaxIsOpt
        <5> QED BY <5>1 DEF Opt
      <4>2. \A x, y \in S : x = y  BY <4>1
      <4> HIDE DEF S
      <4> QED BY <2>4, <4>2 DEF Nonzero
    <3>2. SetToSeq({}) = <<>>
      <4>1. {} \in Opt(Int)  BY DEF Opt
      <4> QED BY <4>1, SequenceOfOpt
    <3>3. p.before = before /\ p.taxes = <<>>
      <4> HIDE DEF before, S, p
      <4> QED BY <2>1, <3>1, <3>2
    <3> HIDE DEF p
    <3> DEFINE lines == [i \in DOMAIN p.taxes |-> [kind |-> "amount", value |-> p.taxes[i]]]
    <3>4. q = [before |-> p.before, after |-> {}, taxes |-> lines]  BY <2>2
    <3>5. lines = <<>>  BY <3>3
    <3> HIDE DEF q, lines, before
    <3>6. q.before = before /\ q.after = {} /\ q.taxes = <<>>  BY <3>3, <3>4, <3>5
    <3>7. AfterTax(q) = {}  BY <3>6 DEF AfterTax, TaxesKnown
    <3> QED BY <3>6, <3>7 DEF q, p, before
  <2> QED BY <2>3, <2>4
<1> QED BY <1>2, <1>3

\* What is compared with it does not differ.
LEMMA ReportMoneyMatches ==
    ASSUME NEW m \in Moneys, NEW version, NEW tolerance \in Nat, NEW field
    PROVE  MoneyMismatches(field, m, MoneyFromPrice(version, {ReportMoneyToCdr(m, version)}), tolerance)
             = {}
<1> DEFINE q == ReadPrice(version, ReportMoneyToCdr(m, version))
           embedded == MoneyFromPrice(version, {ReportMoneyToCdr(m, version)})
<1>1. embedded = {q}  BY DEF MoneyFromPrice, ReadPrice
<1>2. q.before = m.before /\ AfterTax(q) \subseteq AfterTax(m)  BY ReportMoneyReadBack
<1>3. AfterTax(m) \in Opt(Int) /\ m.before \in Int
  <2>1. m.before \in Int  BY DEF Moneys
  <2> QED BY <2>1, AfterTaxIsOpt
<1> HIDE DEF q, embedded
<1>4. \A x \in Int : Apart(x, x) = 0  BY DEF Apart
<1>5. ~ (Apart(m.before, q.before) > tolerance)  BY <1>2, <1>3, <1>4
<1>6. \A x \in AfterTax(m), y \in AfterTax(q) : ~ (Apart(x, y) > 100 * tolerance)
  <2> SUFFICES ASSUME NEW x \in AfterTax(m), NEW y \in AfterTax(m)
               PROVE  ~ (Apart(x, y) > 100 * tolerance)
    BY <1>2
  <2>1. x = y /\ x \in Int  BY <1>3 DEF Opt
  <2> QED BY <1>4, <2>1
<1>7. MoneyMismatches(field, m, embedded, tolerance) = {}
  BY <1>1, <1>5, <1>6 DEF MoneyMismatches
<1> QED BY <1>7 DEF embedded

\* The rows of a dimension add up to its volume, when they repeat none.
LEMMA RowsAddUp ==
    ASSUME NEW dims \in Seq(Dimensions), ~ DuplicateDimension([dims |-> dims]), NEW d,
           NEW p, p.volume[d] = VolumesOf(dims, d)
    PROVE  SumFunction([k \in DOMAIN dims |-> IF dims[k].type = d THEN dims[k].volume ELSE 0])
             = Volume(p, d)
<1> DEFINE row(k) == IF dims[k].type = d THEN dims[k].volume ELSE 0
           f == [k \in DOMAIN dims |-> row(k)]
           T == {k \in DOMAIN dims : dims[k].type = d}
           D == DOMAIN dims
<1>1. IsFiniteSet(D) /\ \A k \in D : dims[k] \in Dimensions  BY PlacesAreFinite
<1>2. \A k \in D : dims[k].volume \in Int  BY <1>1 DEF Dimensions
<1>3. /\ DOMAIN f = D /\ \A k \in D : f[k] \in Int
      /\ \A k \in D \ T : f[k] = 0
      /\ \A k \in T : f[k] = dims[k].volume
  BY <1>2
<1>4. \A j, k \in T : j = k
  BY DEF DuplicateDimension
<1>5. T \in SUBSET D  OBVIOUS
<1>6. p.volume[d] = {dims[k].volume : k \in T}  BY DEF VolumesOf
<1>7. Volume(p, d) = IF p.volume[d] = {} THEN 0 ELSE CHOOSE v \in p.volume[d] : TRUE
  BY DEF Volume
<1> HIDE DEF f, T, D, row
<1>8. SumFunction(f) = SumFunctionOnSet(f, T)
  <2>1. SumFunction(f) = SumFunctionOnSet(f, D)  BY <1>3 DEF SumFunction
  <2>2. \A k \in D \ T : f[k] = 0  BY <1>3
  <2>3. SumFunctionOnSet(f, D) = SumFunctionOnSet(f, T)
    BY <1>1, <1>3, <1>5, <2>2, SumSkipsZeros
  <2> QED BY <2>1, <2>3
<1>9. CASE T = {}
  <2>1. SumFunctionOnSet(f, T) = 0  BY <1>9, SumOfNone
  <2>2. Volume(p, d) = 0  BY <1>6, <1>7, <1>9
  <2> QED BY <1>8, <2>1, <2>2 DEF f, row
<1>10. CASE T # {}
  <2>1. PICK k \in T : TRUE  BY <1>10
  <2>2. T = {k} /\ k \in D  BY <1>4, <1>5, <2>1
  <2>3. f[k] = dims[k].volume /\ f[k] \in Int
    <3>1. \A j \in T : f[j] = dims[j].volume  BY <1>3
    <3>2. \A j \in D : f[j] \in Int  BY <1>3
    <3> QED BY <2>2, <3>1, <3>2
  <2>4. SumFunctionOnSet(f, T) = f[k]
    <3>1. SumFunctionOnSet(f, {k}) = f[k] + SumFunctionOnSet(f, {k} \ {k})
      <4>1. IsFiniteSet({k}) /\ k \in {k} /\ \A x \in {k} : f[x] \in Int
        BY <2>3, FS_Singleton
      <4> QED BY <4>1, SumTakesAny
    <3>2. SumFunctionOnSet(f, {k} \ {k}) = 0
      <4>1. {k} \ {k} = {}  OBVIOUS
      <4> QED BY <4>1, SumOfNone
    <3> QED BY <2>2, <2>3, <3>1, <3>2
  <2>5. p.volume[d] = {dims[k].volume}  BY <1>6, <2>2
  <2>6. Volume(p, d) = dims[k].volume  BY <1>7, <2>5
  <2> QED BY <1>8, <2>3, <2>4, <2>6 DEF f, row
<1> QED BY <1>9, <1>10

\* A CDR in the form whose totals nobody stated.
Unstated(c) == Deserialize(c).embedded = DeserializeTotals(NothingStated)

\* The totals the simulator writes for it say nothing but its volumes.
LEMMA UnstatedTotals ==
    ASSUME NEW c, Unstated(c)
    PROVE  /\ Deserialize(c).embedded.total = {}
           /\ Edited(c).totals = [total |-> Edited(c).totals.total,
                cost |-> [d \in Dims |-> {}], reservation |-> {},
                volume |-> [d \in {"ENERGY", "TIME"} |-> {SumOf(Deserialize(c), d)}]]
<1> DEFINE f == Deserialize(c)
           em == f.embedded
           n == DeserializeTotals(NothingStated)
<1>1. em = n  BY DEF Unstated
<1>2. /\ n.total = {} /\ \A d \in Dims : n.cost[d] = {}
      /\ \A d \in {"ENERGY", "TIME"} : n.volume[d] = {}
  <2> DEFINE s == NothingStated
  <2>1. /\ s.total = {Money(0)} /\ \A d \in Dims : s.cost[d] = {}
        /\ \A d \in {"ENERGY", "TIME"} : s.volume[d] = {0}
    BY DEF NothingStated
  <2>2. MoneyValue({Money(0)}) = {0} /\ MoneyValue({}) = {} /\ Nonzero({0}) = {}
    BY DEF MoneyValue, Money, Nonzero
  <2> HIDE DEF s
  <2>3. /\ n.total = Nonzero(MoneyValue(s.total))
        /\ \A d \in Dims : n.cost[d] = MoneyValue(s.cost[d])
        /\ \A d \in {"ENERGY", "TIME"} : n.volume[d] = Nonzero(s.volume[d])
    BY DEF DeserializeTotals, s
  <2> HIDE DEF n
  <2> QED BY <2>1, <2>2, <2>3
<1> DEFINE tot == {Money(x) : x \in IF em.total = {} THEN {0} ELSE em.total}
           cost == [d \in Dims |-> {Money(x) : x \in em.cost[d]}]
           vol == [d \in {"ENERGY", "TIME"} |->
                     IF em.volume[d] = {} THEN {SumOf(f, d)} ELSE em.volume[d]]
<1>3. Edited(c).totals = [total |-> tot, cost |-> cost, reservation |-> {}, volume |-> vol]
  <2>1. Edited(c).totals = SerializeTotals(f)
    BY SerializedFields DEF Edited, IsWritten
  <2>2. SerializeTotals(f) = [total |-> tot, cost |-> cost, reservation |-> {}, volume |-> vol]
    BY Zenon DEF SerializeTotals
  <2> QED BY <2>1, <2>2
<1> HIDE DEF f, em, n
<1>4. em.total = {}  BY <1>1, <1>2
<1>5. cost = [d \in Dims |-> {}]
  <2>1. \A d \in Dims : em.cost[d] = {}  BY <1>1, <1>2
  <2> QED BY <2>1
<1>6. vol = [d \in {"ENERGY", "TIME"} |-> {SumOf(f, d)}]
  <2>1. \A d \in {"ENERGY", "TIME"} : em.volume[d] = {}  BY <1>1, <1>2
  <2> QED BY <2>1
<1> HIDE DEF tot, cost, vol
<1>7. Edited(c).totals.total = tot  BY <1>3
<1> QED BY <1>3, <1>4, <1>5, <1>6, <1>7 DEF em, f

\* The volumes the simulator writes are those that VerifyCDR audits.
LEMMA WrittenVolume ==
    ASSUME NEW c \in CDRs, Expressible(c), ~ EmbeddedRefused(c), NEW d \in {"ENERGY", "TIME"},
           NEW x, x.periods = EmbeddedInput(Edited(c)).periods
    PROVE  AuditedVolume(x, d) \in Int /\ SumOf(Deserialize(c), d) = AuditedVolume(x, d)
<1> DEFINE b == Edited(c)
           cps == c.periods
           f == Deserialize(c)
           ps == x.periods
           row(dims, k) == IF dims[k].type = d THEN dims[k].volume ELSE 0
           Rowed(dims) == SumFunction([k \in DOMAIN dims |-> row(dims, k)])
           g == [i \in DOMAIN cps |-> Rowed(Rows(cps[i].dims))]
           h == [i \in DOMAIN ps |-> Volume(ps[i], d)]
<1>1. cps \in Seq(ChargingPeriods)  BY DEF CDRs
<1>2. ps \in Seq(Periods)  BY EditedReadAlike
<1>3. /\ b.periods = [i \in DOMAIN cps |-> EditedPeriod(cps[i])]
      /\ \A i \in DOMAIN cps : ~ DuplicateDimension(cps[i])
  <2>1. \A i \in DOMAIN cps : "" \notin cps[i].tariffId  BY ExpressibleParts
  <2>2. b.periods = [i \in DOMAIN cps |-> EditedPeriod(cps[i])]  BY <2>1, EditedFields
  <2>3. Convertible(c, c.tariffs)  BY IndexOfTyped
  <2> QED BY <2>2, <2>3 DEF Convertible
<1>4. ps = [i \in DOMAIN b.periods |-> PeriodToInput(b.periods[i], IndexOf(b)[i])]
  <2> HIDE DEF b
  <2> QED BY InputFields DEF EmbeddedInput, b
<1>5. f.periods = [i \in DOMAIN cps |-> DeserializePeriod(cps[i])]
  BY DEF Deserialize
<1>6. SumOf(f, d) = SumFunction([i \in DOMAIN f.periods |-> Rowed(f.periods[i].dimensions)])
  BY Zenon DEF SumOf
<1> HIDE DEF b, f, row, Rowed, cps, ps
<1>7. /\ DOMAIN f.periods = DOMAIN cps
      /\ \A i \in DOMAIN cps : f.periods[i].dimensions = Rows(cps[i].dims)
  BY <1>5 DEF DeserializePeriod
<1>8. SumOf(f, d) = SumFunction(g)
  <2>1. [i \in DOMAIN f.periods |-> Rowed(f.periods[i].dimensions)] = g  BY <1>7
  <2> HIDE DEF g
  <2> QED BY <1>6, <2>1
<1>9. DOMAIN ps = DOMAIN cps
  BY <1>3, <1>4
<1>10. ASSUME NEW i \in DOMAIN cps
       PROVE  Rowed(Rows(cps[i].dims)) = Volume(ps[i], d)
  <2> DEFINE cp == cps[i]
             rows == Rows(cp.dims)
             p == ps[i]
  <2>1. cp \in ChargingPeriods /\ ~ DuplicateDimension(cp)  BY <1>1, <1>3, PlacesAreFinite
  <2>2. p = PeriodToInput(EditedPeriod(cp), IndexOf(b)[i])  BY <1>3, <1>4
  <2> HIDE DEF cp, p
  <2>3. /\ rows \in Seq(Dimensions)
        /\ \A q : q.dims = rows /\ DuplicateDimension(q) => DuplicateDimension(cp)
    BY <2>1, RowsKeepVolumes
  <2>4. EditedPeriod(cp).dims = rows  BY DEF EditedPeriod
  <2>5. p.volume[d] = VolumesOf(rows, d)
    <3>1. \A q, t : PeriodToInput(q, t).volume = [e \in Volumed |-> VolumesOf(q.dims, e)]
      BY DEF PeriodToInput, VolumesOf
    <3>2. d \in Volumed  BY DEF Volumed
    <3> DEFINE q == EditedPeriod(cp)
               t == IndexOf(b)[i]
    <3> HIDE DEF rows, q, t
    <3>3. p.volume = [e \in Volumed |-> VolumesOf(q.dims, e)]  BY <2>2, <3>1 DEF q, t
    <3>4. p.volume[d] = VolumesOf(q.dims, d)  BY <3>2, <3>3
    <3> QED BY <2>4, <3>4 DEF q
  <2> HIDE DEF rows
  <2>6. ~ DuplicateDimension([dims |-> rows])
    <3>1. [dims |-> rows].dims = rows  OBVIOUS
    <3> QED BY <2>1, <2>3, <3>1
  <2>7. Rowed(rows) = Volume(p, d)
    BY <2>3, <2>5, <2>6, RowsAddUp DEF Rowed, row
  <2> QED BY <2>7 DEF rows, p, cp
<1>11. g = h  BY <1>9, <1>10
<1>12. AuditedVolume(x, d) = SumFunction(h)  BY DEF AuditedVolume, ps
<1>13. SumFunction(h) \in Int
  <2>1. DOMAIN h = DOMAIN ps /\ IsFiniteSet(DOMAIN ps) /\ \A i \in DOMAIN ps : h[i] \in Int
    <3>1. \A i \in DOMAIN ps : ps[i] \in Periods  BY <1>2
    <3>2. \A i \in DOMAIN ps : Volume(ps[i], d) \in Int  BY <3>1, VolumeTyped DEF Volumed
    <3>3. IsFiniteSet(DOMAIN ps)  BY <1>2, PlacesAreFinite
    <3> QED BY <3>2, <3>3
  <2> HIDE DEF h
  <2> QED BY <2>1, SumIsInt DEF SumFunction
<1> HIDE DEF g, h
<1> QED BY <1>8, <1>11, <1>12, <1>13 DEF f

\* x is an input whose CDR says no more than the total of r and its volumes.
SaysLittle(x, r, version) ==
    /\ x.embedded.total = MoneyFromPrice(version, {ReportMoneyToCdr(r.total, version)})
    /\ \A d \in Dims : x.embedded.cost[d] = {}
    /\ \A d \in {"ENERGY", "TIME"} : /\ AuditedVolume(x, d) \in Int
                                     /\ x.embedded.volume[d] = {AuditedVolume(x, d)}

\* Nothing of that is wrong.
LEMMA LittleSaidStatus ==
    ASSUME NEW x, NEW r, NEW version, SaysLittle(x, r, version), NEW o \in EngineOptions,
           r.total \in Moneys
    PROVE  Status(x, r, o) # "Mismatch"
<1> USE DEF SaysLittle
<1>1. o.tolerance \in Nat  BY DEF EngineOptions
<1>2. \A field : MoneyMismatches(field, r.total, x.embedded.total, o.tolerance) = {}
  BY <1>1, ReportMoneyMatches
<1>3. \A d \in Dims : MoneyMismatches(d, r.cost[d], x.embedded.cost[d], o.tolerance) = {}
  <2>1. \A field, m, t : MoneyMismatches(field, m, {}, t) = {}  BY DEF MoneyMismatches
  <2> QED BY <2>1
<1>4. VolumeMismatches(x, o.tolerance) = {}
  <2> SUFFICES ASSUME NEW d \in {"ENERGY", "TIME"}, NEW v \in x.embedded.volume[d]
               PROVE  ~ (10000 * Apart(AuditedVolume(x, d), v) > o.tolerance * Base[d])
    BY DEF VolumeMismatches
  <2>1. v = AuditedVolume(x, d) /\ v \in Int  OBVIOUS
  <2>2. Apart(v, v) = 0  BY <2>1 DEF Apart
  <2> DEFINE t == o.tolerance
             b == Base[d]
  <2>3. b \in Nat /\ t \in Nat  BY <1>1, BaseAssumption DEF Volumed
  <2> HIDE DEF t, b
  <2>4. t * b >= 0 /\ ~ (10000 * 0 > t * b)  BY <2>3
  <2> QED BY <2>1, <2>2, <2>4 DEF t, b
<1>5. Mismatches(x, r, o) = {}
  <2>1. UNION {MoneyMismatches(d, r.cost[d], x.embedded.cost[d], o.tolerance) : d \in Dims} = {}
    BY <1>3
  <2> QED BY <1>2, <1>4, <2>1 DEF Mismatches
<1> QED BY <1>5 DEF Status

\* The CDR that is verified carries the total of its report, and is the edited
\* one otherwise (App).
LEMMA VerifiableFields ==
    ASSUME NEW c, Unstated(c), NEW r
    PROVE  LET v == Verifiable(Deserialize(c), c.version, r)
           IN  /\ OtherTotals(v, Edited(c))
               /\ v.totals.total = {ReportMoneyToCdr(r.total, c.version)}
               /\ \A d \in Dims : v.totals.cost[d] = {}
               /\ v.totals.reservation = {}
               /\ \A d \in {"ENERGY", "TIME"} : v.totals.volume[d] = {SumOf(Deserialize(c), d)}
<1> DEFINE f == Deserialize(c)
           b == Edited(c)
           v == Verifiable(f, c.version, r)
           T == {ReportMoneyToCdr(r.total, c.version)}
           bt == b.totals.total
           cost == [d \in Dims |-> {}]
           vol == [d \in {"ENERGY", "TIME"} |-> {SumOf(f, d)}]
<1>1. f.embedded.total = {}  BY UnstatedTotals
<1>2. v = [b EXCEPT !.totals.total = T]
  <2>1. b = Serialize(f, c.version)  BY DEF Edited
  <2> HIDE DEF f, b
  <2> QED BY <1>1, <2>1 DEF Verifiable
<1>3. b.totals = [total |-> bt, cost |-> cost, reservation |-> {}, volume |-> vol]
  BY UnstatedTotals
<1>4. b = [version |-> b.version, currency |-> b.currency, countryZone |-> b.countryZone,
           start |-> b.start, end |-> b.end, tariffs |-> b.tariffs, periods |-> b.periods,
           totals |-> b.totals]
  <2>1. IsWritten(b, f, c.version)  BY SerializedFields DEF Edited
  <2> HIDE DEF b, f
  <2> QED BY <2>1 DEF IsWritten
<1> HIDE DEF v, b, f, T, bt, cost, vol
<1> DEFINE tt == [b.totals EXCEPT !.total = T]
<1>5. tt = [total |-> T, cost |-> cost, reservation |-> {}, volume |-> vol]
  BY ONLY <1>3
<1>6. v = [b EXCEPT !.totals = tt]  BY ONLY <1>2, <1>4
<1> HIDE DEF tt
<1>7. /\ v.version = b.version /\ v.currency = b.currency /\ v.countryZone = b.countryZone
      /\ v.start = b.start /\ v.end = b.end /\ v.tariffs = b.tariffs /\ v.periods = b.periods
      /\ v.totals = tt
  BY ONLY <1>4, <1>6
<1>8. OtherTotals(v, b)  BY <1>7 DEF OtherTotals
<1>9. tt.total = T /\ tt.cost = cost /\ tt.reservation = {} /\ tt.volume = vol
  BY ONLY <1>5
<1>10. \A d \in Dims : cost[d] = {}  BY DEF cost
<1>11. \A d \in {"ENERGY", "TIME"} : vol[d] = {SumOf(f, d)}  BY DEF vol
<1> QED BY <1>7, <1>8, <1>9, <1>10, <1>11 DEF v, b, f, T

\* Editing a CDR in the form does not change its price when the form can
\* express its tariffs, and totals the simulator fills in are not found wrong.
\* (deserialize, serialize, reportMoneyToCdr; App.tsx verifies the form's CDR)
THEOREM FormBillsAlike == Spec => []FormKeepsTheBill
<1>1. AdapterInv => FormKeepsTheBill
  <2> SUFFICES ASSUME AdapterInv, Answered("CalculateCDR"), Expressible(cdr)
               PROVE  \A form \in {Deserialize(cdr)} :
                        \A report \in {Priced(Serialize(form, cdr.version))} :
                          /\ SameBill(report)
                          /\ report.error = "none" /\ form.embedded = DeserializeTotals(NothingStated) =>
                                Verdict(FromCDRMultiTariff(Verifiable(form, cdr.version, report)), opts)
                                    # "Mismatch"
    BY DEF FormKeepsTheBill
  <2> DEFINE f == Deserialize(cdr)
             b == Edited(cdr)
             r == Priced(b)
             v == Verifiable(f, cdr.version, r)
  <2>1. cdr \in CDRs /\ opts \in EngineOptions /\ AnswersTheCdr  BY DEF AdapterInv
  <2>2. r.error = Priced(cdr).error /\ r.cost = Priced(cdr).cost /\ r.total = Priced(cdr).total
    BY <2>1, EditedPricedAlike DEF Priced
  <2>3. SameBill(r)
    <3> HIDE DEF r
    <3> QED BY <2>1, <2>2, SameAmountsSameBill
  <2>4. ASSUME r.error = "none", Unstated(cdr)
        PROVE  Verdict(FromCDRMultiTariff(v), opts) # "Mismatch"
    <3> DEFINE x == EmbeddedInput(v)
               y == EmbeddedInput(b)
               z == EmbeddedInput(cdr)
    <3>1. /\ OtherTotals(v, b)
          /\ v.totals.total = {ReportMoneyToCdr(r.total, cdr.version)}
          /\ \A d \in Dims : v.totals.cost[d] = {}
          /\ \A d \in {"ENERGY", "TIME"} : v.totals.volume[d] = {SumOf(f, d)}
      <4> HIDE DEF r
      <4> QED BY <2>4, VerifiableFields
    <3>2. r = IF EmbeddedRefused(b) THEN NoReport("invalid") ELSE Calculate(y, opts)
      BY EmbeddedFacts DEF Priced
    <3>3. NoReport("invalid").error # "none"  BY DEF NoReport
    <3>4. ~ EmbeddedRefused(b) /\ r = Calculate(y, opts)
      <4> HIDE DEF r, y, b
      <4> QED BY <2>4, <3>2, <3>3
    <3>5. ~ EmbeddedRefused(cdr)  BY <2>1, <3>4, EditedReadAlike
    <3>6. r.total \in Moneys
      <4>1. Priced(cdr) = Calculate(z, opts)  BY <3>5, EmbeddedFacts DEF Priced
      <4>2. z \in Inputs  BY <2>1, <3>5, IndexOfTyped
      <4> HIDE DEF z, r
      <4>3. Calculate(z, opts).total \in Moneys  BY <2>1, <4>2, ReportsAreTyped
      <4> QED BY <2>2, <4>1, <4>3
    <3> HIDE DEF b, v, r
    <3>7. /\ ReadAlike(v, b) /\ x.warnings = y.warnings
          /\ x.embedded = [total       |-> MoneyFromPrice(b.version, v.totals.total),
                           cost        |-> [d \in Dims |-> MoneyFromPrice(b.version, v.totals.cost[d])],
                           reservation |-> MoneyFromPrice(b.version, v.totals.reservation),
                           volume      |-> v.totals.volume]
      BY <3>1, TotalsReadAlike
    <3>8. ~ EmbeddedRefused(v) /\ SameInput(x, y)  BY <3>4, <3>7 DEF ReadAlike
    <3>9. Calculate(x, opts) = r
      <4> HIDE DEF x, y
      <4>1. SamePricing(x, y)  BY <3>8, SameInputSamePricing
      <4> QED BY <3>4, <3>7, <4>1, PricingDependsOn
    <3>10. Verdict(FromCDRMultiTariff(v), opts) = Status(x, r, opts)
      BY <2>4, <3>8, <3>9, VerdictOf
    <3>11. SaysLittle(x, r, cdr.version)
      <4>1. b.version = cdr.version
        <5>1. \A i \in DOMAIN cdr.periods : "" \notin cdr.periods[i].tariffId  BY ExpressibleParts
        <5> QED BY <5>1, EditedFields DEF b
      <4>2. \A d \in {"ENERGY", "TIME"} :
              AuditedVolume(x, d) \in Int /\ SumOf(f, d) = AuditedVolume(x, d)
        <5>1. x.periods = EmbeddedInput(Edited(cdr)).periods  BY <3>8 DEF SameInput, b
        <5> HIDE DEF x, f
        <5> QED BY <2>1, <3>5, <5>1, WrittenVolume DEF f
      <4>3. MoneyFromPrice(cdr.version, {}) = {}  BY DEF MoneyFromPrice
      <4> DEFINE em == [total       |-> MoneyFromPrice(b.version, v.totals.total),
                        cost        |-> [d \in Dims |-> MoneyFromPrice(b.version, v.totals.cost[d])],
                        reservation |-> MoneyFromPrice(b.version, v.totals.reservation),
                        volume      |-> v.totals.volume]
      <4>4. /\ em.total = MoneyFromPrice(b.version, v.totals.total)
            /\ \A d \in Dims : em.cost[d] = MoneyFromPrice(b.version, v.totals.cost[d])
            /\ em.volume = v.totals.volume
        OBVIOUS
      <4>5. x.embedded = em  BY <3>7
      <4> HIDE DEF x, f, em
      <4>6. x.embedded.total = MoneyFromPrice(cdr.version, {ReportMoneyToCdr(r.total, cdr.version)})
        BY <3>1, <4>1, <4>4, <4>5
      <4>7. \A d \in Dims : x.embedded.cost[d] = {}
        BY <3>1, <4>1, <4>3, <4>4, <4>5
      <4>8. \A d \in {"ENERGY", "TIME"} : x.embedded.volume[d] = {AuditedVolume(x, d)}
        BY <3>1, <4>2, <4>4, <4>5
      <4> QED BY <4>2, <4>6, <4>7, <4>8 DEF SaysLittle
    <3>12. Status(x, r, opts) # "Mismatch"
      <4> HIDE DEF x
      <4> QED BY <2>1, <3>6, <3>11, LittleSaidStatus
    <3> QED BY <3>10, <3>12
  <2>5. Priced(Serialize(f, cdr.version)) = r  BY DEF Edited
  <2>6. f.embedded = DeserializeTotals(NothingStated) <=> Unstated(cdr)  BY DEF Unstated
  <2> HIDE DEF f, r
  <2> QED BY <2>3, <2>4, <2>5, <2>6 DEF f
<1> QED BY <1>1, AdapterInvariance, PTL
=============================================================================

---------------------------- MODULE PricingVerify ----------------------------
(***************************************************************************)
(* Verify (core/pricing/verify.go): the totals a CDR reports, compared with *)
(* the ones Calculate computes.                                             *)
(*                                                                          *)
(* embedded = [total, cost[d], reservation, volume[d]], each nil or a value.*)
(* A tolerance is in 1/10000 of the currency and of a unit of volume.       *)
(***************************************************************************)
EXTENDS PricingEngine

\* Mutant of Apart: the sign of the difference is kept.
ApartSigned(x, y) == x - y

Apart(x, y) == IF x > y THEN x - y ELSE y - x

\* compareMoney: the fields that differ by more than the tolerance.
MoneyMismatches(field, computed, embedded, tolerance) ==
    {<<field, "before_taxes">> : m \in {e \in embedded :
        Apart(computed.before, e.before) > tolerance}}
    \cup
    {<<field, "after_taxes">> : m \in {e \in embedded :
        \E x \in AfterTax(computed), y \in AfterTax(e) : Apart(x, y) > 100 * tolerance}}

\* compareMoney: computed has an after-tax amount, the CDR gives no way to one.
AfterTaxNotDerivable(computed, embedded) ==
    \E e \in embedded : AfterTax(computed) # {} /\ AfterTax(e) = {}

MinMaxUndefined(rep) == Warn("MinMaxUndefinedMultiTariff", "session") \in rep.warnings

\* The volume audit counts every period, priced or not.
AuditedVolume(in, d) == SumFunction([i \in DOMAIN in.periods |-> Volume(in.periods[i], d)])

VolumeMismatches(in, tolerance) ==
    {<<d, "volume">> : d \in {x \in {"ENERGY", "TIME"} :
        \E v \in in.embedded.volume[x] :
            10000 * Apart(AuditedVolume(in, x), v) > tolerance * Base[x]}}

Mismatches(in, rep, opts) ==
    (IF MinMaxUndefined(rep) THEN {}
     ELSE MoneyMismatches("total_cost", rep.total, in.embedded.total, opts.tolerance))
    \cup UNION {MoneyMismatches(d, rep.cost[d], in.embedded.cost[d], opts.tolerance) : d \in Dims}
    \cup VolumeMismatches(in, opts.tolerance)

NotVerifiable(in, rep) ==
    \/ MinMaxUndefined(rep) /\ in.embedded.total # {}
    \/ ~MinMaxUndefined(rep) /\ AfterTaxNotDerivable(rep.total, in.embedded.total)
    \/ \E d \in Dims : AfterTaxNotDerivable(rep.cost[d], in.embedded.cost[d])
    \/ \E m \in in.embedded.reservation : m.before # 0

Status(in, rep, opts) ==
    IF Mismatches(in, rep, opts) # {} THEN "Mismatch"
    ELSE IF NotVerifiable(in, rep) THEN "NotVerifiable"
    ELSE "OK"
=============================================================================

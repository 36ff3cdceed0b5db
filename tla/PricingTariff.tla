---------------------------- MODULE PricingTariff ----------------------------
(***************************************************************************)
(* Which price component of a tariff applies to a charging period:          *)
(* restriction matching, the running snapshot it is evaluated against, and  *)
(* the choice of the active components (core/pricing/restriction.go,        *)
(* snapshot.go, engine.go:activeComponents).                                *)
(*                                                                          *)
(* A pointer field that may be nil is a set with at most one element, so a  *)
(* guarded comparison of the code is a bounded quantifier here.  Times are  *)
(* minutes since some local midnight, energies are Wh.                      *)
(***************************************************************************)
EXTENDS Integers, Sequences, FiniteSets

CONSTANTS DayLength,   \* minutes in a day (1440)
          WeekLength   \* days in a week (7)

ASSUME CalendarAssumption == DayLength \in Nat \ {0} /\ WeekLength \in Nat \ {0}

\* *T: nil or a value.
Opt(S) == {s \in SUBSET S : \A x, y \in s : x = y}

Volumed == {"ENERGY", "TIME", "PARKING_TIME"}
Dims    == Volumed \cup {"FLAT"}

\* A nil Restrictions, and one with no field set.
NoRestrictions ==
    [from |-> {}, until |-> {}, fromDate |-> {}, untilDate |-> {}, days |-> {},
     minKwh |-> {}, maxKwh |-> {}, minDuration |-> {}, maxDuration |-> {},
     minPower |-> {}, maxPower |-> {}, minCurrent |-> {}, maxCurrent |-> {},
     reservation |-> FALSE, unsupported |-> FALSE]

Restrictions ==
    [from : Opt(Int), until : Opt(Int), fromDate : Opt(Int), untilDate : Opt(Int),
     days : SUBSET Int, minKwh : Opt(Int), maxKwh : Opt(Int),
     minDuration : Opt(Int), maxDuration : Opt(Int), minPower : Opt(Int), maxPower : Opt(Int),
     minCurrent : Opt(Int), maxCurrent : Opt(Int), reservation : BOOLEAN, unsupported : BOOLEAN]

\* A period as the input gives it.
Periods ==
    [start : Int, volume : [Volumed -> Opt(Int)], minPower : Opt(Int), maxPower : Opt(Int),
     minCurrent : Opt(Int), maxCurrent : Opt(Int), tariff : Opt(Int)]

IsLocal(r) == r.from \cup r.until \cup r.fromDate \cup r.untilDate \cup r.days # {}

-----------------------------------------------------------------------------
(* The snapshot: where the session stands when a period starts.             *)

NewSnapshot(start, zone) == [at |-> start, zone |-> zone, energy |-> 0, durSession |-> 0]

Volume(p, d) == IF p.volume[d] = {} THEN 0 ELSE CHOOSE v \in p.volume[d] : TRUE

\* Mutant of Advance: only what is charged to a tariff counts.
AdvanceIfPriced(s, p, end) ==
    [s EXCEPT !.at = end,
              !.durSession = @ + (end - s.at),
              !.energy = IF p.tariff = {} THEN @ ELSE @ + Volume(p, "ENERGY")]

Advance(s, p, end) ==
    [s EXCEPT !.at = end,
              !.durSession = @ + (end - s.at),
              !.energy = @ + Volume(p, "ENERGY")]

LocalMinute(s) == (s.at + s.zone) % DayLength
LocalDate(s)   == (s.at + s.zone) \div DayLength
LocalWeekday(s) == LocalDate(s) % WeekLength

-----------------------------------------------------------------------------
(* Restrictions.                                                            *)

\* [from, until) on the clock face; until before from wraps past midnight.
MatchesTimeWindow(from, until, minute) ==
    IF \E f \in from, u \in until : u < f
    THEN \/ \A f \in from : minute >= f
         \/ \A u \in until : minute < u
    ELSE /\ \A f \in from : minute >= f
         /\ \A u \in until : minute < u

Matches(r, s, p) ==
    /\ ~r.unsupported
    /\ ~r.reservation
    /\ MatchesTimeWindow(r.from, r.until, LocalMinute(s))
    /\ \A d \in r.fromDate : LocalDate(s) >= d
    /\ \A d \in r.untilDate : LocalDate(s) < d
    /\ r.days # {} => LocalWeekday(s) \in r.days
    /\ \A e \in r.minKwh : s.energy >= e
    /\ \A e \in r.maxKwh : s.energy < e
    /\ \A m \in r.minDuration : s.durSession >= m
    /\ \A m \in r.maxDuration : s.durSession < m
    /\ \A w \in r.minPower, q \in p.maxPower : q >= w
    /\ \A w \in r.maxPower, q \in p.minPower : q < w
    /\ \A w \in r.minCurrent, q \in p.maxCurrent : q >= w
    /\ \A w \in r.maxCurrent, q \in p.minCurrent : q < w

-----------------------------------------------------------------------------
(* The active components.                                                   *)

\* The components of dimension d that apply, by element and position.
Candidates(elements, s, p, d) ==
    {e \in DOMAIN elements : Matches(elements[e].restrictions, s, p)
                             /\ \E j \in DOMAIN elements[e].components :
                                    elements[e].components[j].type = d}

Least(S) == CHOOSE x \in S : \A y \in S : x <= y

\* The first applicable component of dimension d, in element order and within
\* an element in component order: {} or {[tariff, element, comp]}.
FirstMatch(tariffs, t, s, p, d) ==
    LET els == tariffs[t].elements
        es  == Candidates(els, s, p, d)
    IN  IF es = {} THEN {}
        ELSE LET e  == Least(es)
                 cs == els[e].components
                 j  == Least({k \in DOMAIN cs : cs[k].type = d})
             IN  {[tariff |-> t, element |-> e, comp |-> cs[j]]}

ActiveComponents(tariffs, t, s, p) == [d \in Dims |-> FirstMatch(tariffs, t, s, p, d)]

\* The scan stops at the element that completes the set; the elements before
\* it that carry an unsupported restriction are reported.
SkippedUnsupported(tariffs, t, s, p) ==
    LET els == tariffs[t].elements
        cs  == ActiveComponents(tariffs, t, s, p)
    IN  \E e \in DOMAIN els :
            /\ els[e].restrictions.unsupported
            /\ \E d \in Dims : \A m \in cs[d] : m.element > e
=============================================================================

--------------------------- MODULE Pricing_proofs ---------------------------
(***************************************************************************)
(* The pricing engine (core/pricing), for all amounts, tariffs and          *)
(* sessions: its rounding, its sums, the order of the periods, the          *)
(* snapshots, and the types of what it computes.                            *)
(***************************************************************************)
EXTENDS PricingEngine, TLAPS, FiniteSetTheorems, WellFoundedInduction

(* Rounding.                                                                *)

\* Euclidean division, the form in which the lemmas below use it.
LEMMA DivisionFacts ==
    ASSUME NEW n \in Int, NEW d \in Nat \ {0}
    PROVE  n \div d \in Int /\ n % d \in 0 .. d - 1 /\ n = d * (n \div d) + (n % d)
<1>1. n \div d \in Int /\ n % d \in 0 .. d - 1  BY Z3
<1>2. n = d * (n \div d) + (n % d)  BY Z3
<1> QED BY <1>1, <1>2

\* stepBill bills whole steps, and never as much as a step more than was used:
\* what is billed is a multiple of the step, at least the volume, and less than
\* one step above it.
THEOREM StepBillIsTheNextStep ==
    ASSUME NEW volume \in Int, NEW step \in Nat \ {0}
    PROVE  /\ StepBill(volume, step) \in Int
           /\ StepBill(volume, step) - volume \in 0 .. step - 1
           /\ \E k \in Int : StepBill(volume, step) = k * step
<1> DEFINE q == (-volume) \div step
           r == (-volume) % step
<1>1. q \in Int /\ r \in 0 .. step - 1 /\ -volume = step * q + r
  BY DivisionFacts, -volume \in Int
<1>2. StepBill(volume, step) = -q * step  BY DEF StepBill
<1> HIDE DEF q, r
<1>3. -q * step \in Int /\ -q * step = -(step * q) /\ -q \in Int  BY <1>1
<1>4. -q * step - volume = r  BY <1>1, <1>3
<1> QED BY <1>1, <1>2, <1>3, <1>4

\* Two whole multiples of a step less than a step apart are the same.
LEMMA NoMultipleBetween ==
    ASSUME NEW j \in Int, NEW k \in Int, NEW step \in Nat \ {0},
           j * step - k * step \in 0 .. step - 1
    PROVE  j * step = k * step
<1>1. CASE j = k  BY <1>1
<1>2. CASE j < k
  <2>1. (k - j) * step >= step  BY <1>2
  <2>2. (k - j) * step = k * step - j * step  OBVIOUS
  <2> QED BY <2>1, <2>2
<1>3. CASE j > k
  <2>1. (j - k) * step >= step  BY <1>3
  <2>2. (j - k) * step = j * step - k * step  OBVIOUS
  <2> QED BY <2>1, <2>2
<1> QED BY <1>1, <1>2, <1>3

\* A volume that is already whole steps is billed as it is, so rounding a
\* session a second time changes nothing.
THEOREM StepBillOfWholeSteps ==
    ASSUME NEW k \in Int, NEW step \in Nat \ {0}
    PROVE  StepBill(k * step, step) = k * step
<1>1. k * step \in Int  OBVIOUS
<1>2. StepBill(k * step, step) - k * step \in 0 .. step - 1
  BY <1>1, StepBillIsTheNextStep
<1>3. PICK j \in Int : StepBill(k * step, step) = j * step
  BY <1>1, StepBillIsTheNextStep
<1>4. j * step - k * step \in 0 .. step - 1  BY <1>2, <1>3
<1>5. j * step = k * step  BY <1>4, NoMultipleBetween
<1> QED BY <1>3, <1>5

\* The step of a session never makes it cheaper, and adds less than one step:
\* what a dimension bills is its volume, or up to step - 1 more, step being that
\* of its last priced period.  The assumption on the step is what ValidateInput
\* leaves of it.
THEOREM BilledVolumeIsWithinAStep ==
    ASSUME NEW d \in Volumed, NEW ledger, NEW idle \in BOOLEAN,
           DOMAIN ledger # {},
           TotalVolume(ledger) \in Int,
           LastStep(ledger) \in Nat,
           ~StepFails(d, ledger, idle)
    PROVE  BilledVolume(d, ledger, idle) - TotalVolume(ledger)
               \in {0} \cup 0 .. LastStep(ledger) - 1
<1> DEFINE total == TotalVolume(ledger)
           step == LastStep(ledger)
<1>1. CASE ~Stepped(d, step, idle)
  <2>1. BilledVolume(d, ledger, idle) = total  BY <1>1 DEF BilledVolume
  <2> QED BY <2>1
<1>2. CASE Stepped(d, step, idle)
  <2>1. step \in Nat \ {0}  BY <1>2 DEF StepFails
  <2>2. BilledVolume(d, ledger, idle) = StepBill(total, step)  BY <1>2 DEF BilledVolume
  <2>3. StepBill(total, step) - total \in 0 .. step - 1
    <3> HIDE DEF total, step
    <3> QED BY <2>1, StepBillIsTheNextStep, total \in Int DEF total
  <2> QED BY <2>2, <2>3
<1> QED BY <1>1, <1>2

\* roundOCPI is off by at most half of the last decimal, in either direction.
THEOREM RoundBankIsNearest ==
    ASSUME NEW n \in Int, NEW d \in Nat \ {0}
    PROVE  /\ RoundBank(n, d) \in Int
           /\ 2 * (d * RoundBank(n, d) - n) <= d
           /\ 2 * (n - d * RoundBank(n, d)) <= d
<1> DEFINE q == n \div d
           r == n % d
<1>1. q \in Int /\ r \in 0 .. d - 1 /\ n = d * q + r  BY DivisionFacts
<1>2. \/ RoundBank(n, d) = q /\ 2 * r <= d
      \/ RoundBank(n, d) = q + 1 /\ 2 * r >= d
  <2>1. RoundBank(n, d) = IF 2 * r < d \/ (2 * r = d /\ q % 2 = 0) THEN q ELSE q + 1
    BY DEF RoundBank
  <2> HIDE DEF q, r
  <2> QED BY <1>1, <2>1
<1> HIDE DEF q, r
<1>3. d * (q + 1) = d * q + d /\ d * q \in Int  BY <1>1
<1>4. CASE RoundBank(n, d) = q /\ 2 * r <= d  BY <1>1, <1>3, <1>4
<1>5. CASE RoundBank(n, d) = q + 1 /\ 2 * r >= d
  <2>1. d * RoundBank(n, d) = d * q + d  BY <1>3, <1>5
  <2> QED BY <1>1, <1>3, <1>5, <2>1
<1> QED BY <1>2, <1>4, <1>5

-----------------------------------------------------------------------------
(* Sums (SumFunctionOnSet, and SumFunction on a function's domain).         *)

\* Induction over the natural numbers, for a set in place of a predicate.
LEMMA NatSetInduction ==
    ASSUME NEW S, 0 \in S, \A n \in Nat : n \in S => n + 1 \in S
    PROVE  Nat \subseteq S
<1> DEFINE R == OpToRel(<, Nat)
           T == Nat \ S
<1>1. IsWellFoundedOn(R, Nat)  BY NatLessThanWellFounded
<1>2. \A x, y \in Nat : x < y => <<x, y>> \in R  BY DEF OpToRel
<1>3. SUFFICES ASSUME T # {} PROVE FALSE  OBVIOUS
<1> HIDE DEF R
<1>4. PICK x \in T : \A y \in T : ~ (<<y, x>> \in R)  BY <1>1, <1>3, WFMin
<1>5. x \in Nat /\ x # 0  OBVIOUS
<1>6. x - 1 \in Nat /\ x - 1 < x  BY <1>5
<1>7. x - 1 \in S  BY <1>2, <1>4, <1>6, <1>5
<1>8. x - 1 + 1 = x  BY <1>5
<1> QED BY <1>6, <1>7, <1>8, <1>4

\* Induction over the subsets of a finite set, in the same form.
LEMMA FiniteSetInduction ==
    ASSUME NEW S, IsFiniteSet(S), NEW A, {} \in A,
           \A s \in SUBSET S : s # {} /\ (\A x \in s : s \ {x} \in A) => s \in A
    PROVE  \A s \in SUBSET S : s \in A
<1> DEFINE B == {n \in Nat : \A s \in SUBSET S : Cardinality(s) = n => s \in A}
<1>1. \A s \in SUBSET S : IsFiniteSet(s) /\ Cardinality(s) \in Nat
  BY FS_Subset, FS_CardinalityType
<1>2. 0 \in B  BY <1>1, FS_EmptySet
<1>3. ASSUME NEW n \in Nat, n \in B
      PROVE  n + 1 \in B
  <2>1. ASSUME NEW s \in SUBSET S, Cardinality(s) = n + 1
        PROVE  s \in A
    <3>1. s # {}  BY <2>1, FS_EmptySet
    <3>2. ASSUME NEW x \in s
          PROVE  s \ {x} \in A
      <4>1. Cardinality(s \ {x}) = n  BY <1>1, <2>1, FS_RemoveElement
      <4>2. s \ {x} \in SUBSET S  OBVIOUS
      <4> QED BY <1>3, <4>1, <4>2
    <3> QED BY <3>1, <3>2
  <2> QED BY <2>1
<1> HIDE DEF B
<1>4. Nat \subseteq B  BY <1>2, <1>3, NatSetInduction
<1> QED BY <1>1, <1>4 DEF B

\* SumFunctionOnSet adds up what a function gives for the elements of a set, one
\* element after the other; Picked is the one it takes first.
Picked(s) == CHOOSE x \in s : TRUE
Adds(f, S, g) ==
    g = [s \in SUBSET S |-> IF s = {} THEN 0 ELSE f[Picked(s)] + g[s \ {Picked(s)}]]

\* The recursion SumFunctionOnSet chooses its function from has a solution.
LEMMA AddingExists ==
    ASSUME NEW f, NEW S, IsFiniteSet(S)
    PROVE  /\ \E g : Adds(f, S, g)
           /\ SumFunctionOnSet(f, S) = (CHOOSE g : Adds(f, S, g))[S]
<1> DEFINE U(n) == {s \in SUBSET S : Cardinality(s) <= n}
           body(s, g) == IF s = {} THEN 0 ELSE f[Picked(s)] + g[s \ {Picked(s)}]
           B == {n \in Nat : \E g : g = [s \in U(n) |-> body(s, g)]}
<1>1. \A s \in SUBSET S : IsFiniteSet(s) /\ Cardinality(s) \in Nat
  BY FS_Subset, FS_CardinalityType
<1>2. \A s \in SUBSET S : s # {} => /\ Picked(s) \in s /\ s \ {Picked(s)} \in SUBSET S
                                    /\ Cardinality(s \ {Picked(s)}) = Cardinality(s) - 1
  BY <1>1, FS_RemoveElement DEF Picked
<1>3. 0 \in B
  <2> DEFINE g == [s \in U(0) |-> 0]
  <2>1. \A s \in U(0) : s = {}
    <3> SUFFICES ASSUME NEW s \in U(0) PROVE s = {}  OBVIOUS
    <3>1. IsFiniteSet(s) /\ Cardinality(s) = 0  BY <1>1
    <3> QED BY <3>1, FS_EmptySet
  <2>2. g = [s \in U(0) |-> body(s, g)]  BY <2>1
  <2> QED BY <2>2
<1>4. ASSUME NEW n \in Nat, n \in B
      PROVE  n + 1 \in B
  <2>1. PICK g : g = [s \in U(n) |-> body(s, g)]  BY <1>4
  <2> DEFINE h == [s \in U(n + 1) |-> body(s, g)]
  <2>2. ASSUME NEW s \in U(n + 1)
        PROVE  h[s] = body(s, h)
    <3>1. CASE s = {}  BY <3>1
    <3>2. CASE s # {}
      <4> DEFINE t == s \ {Picked(s)}
      <4>1. t \in U(n) /\ t \in U(n + 1)  BY <1>1, <1>2, <3>2
      <4> HIDE DEF U, body
      <4>2. h[t] = body(t, g) /\ g[t] = body(t, g)  BY <2>1, <4>1
      <4>3. h[s] = body(s, g)  OBVIOUS
      <4>4. g[t] = h[t]  BY <4>2
      <4> QED BY <3>2, <4>3, <4>4 DEF body
    <3> QED BY <3>1, <3>2
  <2> HIDE DEF U
  <2>3. h = [s \in U(n + 1) |-> body(s, h)]
    <3> HIDE DEF body
    <3>1. h = [s \in U(n + 1) |-> h[s]]  OBVIOUS
    <3> HIDE DEF h
    <3> QED BY <2>2, <3>1
  <2> HIDE DEF h, body
  <2>4. \E k : k = [s \in U(n + 1) |-> body(s, k)]  BY <2>3
  <2> QED BY <2>4
<1> HIDE DEF B
<1>5. Nat \subseteq B  BY <1>3, <1>4, NatSetInduction
<1>6. Cardinality(S) \in B  BY <1>1, <1>5
<1>7. U(Cardinality(S)) = SUBSET S  BY <1>1, FS_Subset
<1>8. PICK g : g = [s \in U(Cardinality(S)) |-> body(s, g)]  BY <1>6 DEF B
<1> HIDE DEF U
<1>9. Adds(f, S, g)  BY <1>7, <1>8 DEF Adds
<1>10. SumFunctionOnSet(f, S) = (CHOOSE k : Adds(f, S, k))[S]
  BY DEF SumFunctionOnSet, FoldFunctionOnSet, MapThenFoldSet, Picked, Adds
<1> QED BY <1>9, <1>10

\* A sum is that of the rest and the element taken first.
LEMMA SumUnfolds ==
    ASSUME NEW f, NEW S, IsFiniteSet(S)
    PROVE  /\ SumFunctionOnSet(f, {}) = 0
           /\ S # {} => /\ Picked(S) \in S
                        /\ SumFunctionOnSet(f, S)
                             = f[Picked(S)] + SumFunctionOnSet(f, S \ {Picked(S)})
<1>1. ASSUME NEW T \in SUBSET S, NEW g, Adds(f, T, g)
      PROVE  g[{}] = 0 /\ \A s \in SUBSET T : s # {} =>
               Picked(s) \in s /\ g[s] = f[Picked(s)] + g[s \ {Picked(s)}]
  BY <1>1 DEF Adds, Picked
<1>2. ASSUME NEW T \in SUBSET S
      PROVE  IsFiniteSet(T) /\ \E g : Adds(f, T, g) /\ SumFunctionOnSet(f, T) = g[T]
  <2>1. IsFiniteSet(T)  BY FS_Subset
  <2> QED BY <2>1, AddingExists
<1>3. ASSUME NEW T \in SUBSET S, NEW g, Adds(f, S, g), NEW h, Adds(f, T, h)
      PROVE  \A s \in SUBSET T : g[s] = h[s]
  <2> DEFINE A == {s \in SUBSET T : g[s] = h[s]}
  <2>1. {} \in A  BY <1>1, <1>3
  <2>2. ASSUME NEW s \in SUBSET T, s # {}, \A x \in s : s \ {x} \in A
        PROVE  s \in A
    <3>1. /\ Picked(s) \in s /\ g[s] = f[Picked(s)] + g[s \ {Picked(s)}]
          /\ h[s] = f[Picked(s)] + h[s \ {Picked(s)}]
      <4>1. S \in SUBSET S /\ s \in SUBSET S  BY <2>2
      <4>2. Picked(s) \in s /\ g[s] = f[Picked(s)] + g[s \ {Picked(s)}]
        BY <1>1, <1>3, <2>2, <4>1
      <4>3. h[s] = f[Picked(s)] + h[s \ {Picked(s)}]
        BY <1>1, <1>3, <2>2
      <4> QED BY <4>2, <4>3
    <3>2. g[s \ {Picked(s)}] = h[s \ {Picked(s)}]  BY <2>2, <3>1
    <3> QED BY <3>1, <3>2
  <2> HIDE DEF A
  <2>3. \A s \in SUBSET T : s \in A  BY <1>2, <2>1, <2>2, FiniteSetInduction
  <2> QED BY <2>3 DEF A
<1>4. PICK g : Adds(f, S, g)  BY <1>2
<1>5. ASSUME NEW T \in SUBSET S
      PROVE  SumFunctionOnSet(f, T) = g[T]
  BY <1>2, <1>3, <1>4, <1>5
<1>6. SumFunctionOnSet(f, {}) = 0  BY <1>1, <1>4, <1>5
<1>7. ASSUME S # {}
      PROVE  Picked(S) \in S /\ SumFunctionOnSet(f, S)
               = f[Picked(S)] + SumFunctionOnSet(f, S \ {Picked(S)})
  <2>1. S \in SUBSET S  OBVIOUS
  <2>2. Picked(S) \in S /\ g[S] = f[Picked(S)] + g[S \ {Picked(S)}]
    BY <1>4, <1>7 DEF Adds, Picked
  <2> QED BY <1>5, <2>1, <2>2
<1> QED BY <1>6, <1>7

\* An empty sum is zero.
LEMMA SumOfNone ==
    ASSUME NEW f
    PROVE  SumFunctionOnSet(f, {}) = 0
BY SumUnfolds, FS_EmptySet

\* Functions that agree have the same sum.
LEMMA SumOfEquals ==
    ASSUME NEW f, NEW g, NEW S, IsFiniteSet(S), \A x \in S : f[x] = g[x]
    PROVE  SumFunctionOnSet(f, S) = SumFunctionOnSet(g, S)
<1> DEFINE A == {s \in SUBSET S : SumFunctionOnSet(f, s) = SumFunctionOnSet(g, s)}
<1>1. {} \in A  BY SumOfNone
<1>2. ASSUME NEW s \in SUBSET S, s # {}, \A x \in s : s \ {x} \in A
      PROVE  s \in A
  <2>1. IsFiniteSet(s)  BY FS_Subset
  <2>2. /\ Picked(s) \in s
        /\ SumFunctionOnSet(f, s) = f[Picked(s)] + SumFunctionOnSet(f, s \ {Picked(s)})
        /\ SumFunctionOnSet(g, s) = g[Picked(s)] + SumFunctionOnSet(g, s \ {Picked(s)})
    BY <1>2, <2>1, SumUnfolds
  <2> QED BY <1>2, <2>2
<1> HIDE DEF A
<1>3. \A s \in SUBSET S : s \in A  BY <1>1, <1>2, FiniteSetInduction
<1> QED BY <1>3 DEF A

\* A sum of integers is an integer.
LEMMA SumIsInt ==
    ASSUME NEW f, NEW S, IsFiniteSet(S), \A x \in S : f[x] \in Int
    PROVE  SumFunctionOnSet(f, S) \in Int
<1> DEFINE A == {s \in SUBSET S : SumFunctionOnSet(f, s) \in Int}
<1>1. {} \in A  BY SumOfNone
<1>2. ASSUME NEW s \in SUBSET S, s # {}, \A x \in s : s \ {x} \in A
      PROVE  s \in A
  <2>1. IsFiniteSet(s)  BY FS_Subset
  <2>2. /\ Picked(s) \in s
        /\ SumFunctionOnSet(f, s) = f[Picked(s)] + SumFunctionOnSet(f, s \ {Picked(s)})
    BY <1>2, <2>1, SumUnfolds
  <2> QED BY <1>2, <2>2
<1> HIDE DEF A
<1>3. \A s \in SUBSET S : s \in A  BY <1>1, <1>2, FiniteSetInduction
<1> QED BY <1>3 DEF A

\* Any element may be taken first.
LEMMA SumTakesAny ==
    ASSUME NEW f, NEW S, IsFiniteSet(S), \A x \in S : f[x] \in Int, NEW x \in S
    PROVE  SumFunctionOnSet(f, S) = f[x] + SumFunctionOnSet(f, S \ {x})
<1> DEFINE A == {s \in SUBSET S : \A y \in s :
                    SumFunctionOnSet(f, s) = f[y] + SumFunctionOnSet(f, s \ {y})}
<1>1. {} \in A  OBVIOUS
<1>2. ASSUME NEW s \in SUBSET S, s # {}, \A y \in s : s \ {y} \in A
      PROVE  s \in A
  <2>1. IsFiniteSet(s)  BY FS_Subset
  <2> DEFINE p == Picked(s)
  <2>2. p \in s /\ SumFunctionOnSet(f, s) = f[p] + SumFunctionOnSet(f, s \ {p})
    BY <1>2, <2>1, SumUnfolds
  <2> HIDE DEF p
  <2>3. ASSUME NEW y \in s, y # p
        PROVE  SumFunctionOnSet(f, s) = f[y] + SumFunctionOnSet(f, s \ {y})
    <3>1. SumFunctionOnSet(f, s \ {p}) = f[y] + SumFunctionOnSet(f, (s \ {p}) \ {y})
      BY <1>2, <2>2, <2>3
    <3>2. SumFunctionOnSet(f, s \ {y}) = f[p] + SumFunctionOnSet(f, (s \ {y}) \ {p})
      BY <1>2, <2>2, <2>3
    <3>3. (s \ {p}) \ {y} = (s \ {y}) \ {p}  OBVIOUS
    <3>4. IsFiniteSet((s \ {p}) \ {y})  BY <2>1, FS_Subset
    <3>5. SumFunctionOnSet(f, (s \ {p}) \ {y}) \in Int  BY <3>4, SumIsInt
    <3>6. f[p] \in Int /\ f[y] \in Int  BY <2>2
    <3> DEFINE rest == SumFunctionOnSet(f, (s \ {p}) \ {y})
    <3>7. SumFunctionOnSet(f, s) = f[p] + (f[y] + rest)
      BY <2>2, <3>1
    <3>8. SumFunctionOnSet(f, s \ {y}) = f[p] + rest
      BY <3>2, <3>3
    <3>9. rest \in Int  BY <3>5
    <3> HIDE DEF rest
    <3> QED BY <3>6, <3>7, <3>8, <3>9
  <2> QED BY <2>2, <2>3
<1> HIDE DEF A
<1>3. \A s \in SUBSET S : s \in A  BY <1>1, <1>2, FiniteSetInduction
<1> QED BY <1>3 DEF A

\* Numbered otherwise, the same amounts have the same sum.
LEMMA SumIsRenamed ==
    ASSUME NEW f, NEW S, IsFiniteSet(S), NEW g, NEW T, NEW b \in Bijection(S, T),
           \A x \in S : f[x] \in Int /\ g[b[x]] = f[x]
    PROVE  SumFunctionOnSet(f, S) = SumFunctionOnSet(g, T)
<1> DEFINE Of(s) == {b[x] : x \in s}
           A == {s \in SUBSET S : SumFunctionOnSet(f, s) = SumFunctionOnSet(g, Of(s))}
<1>1. /\ b \in [S -> T] /\ \A x, y \in S : b[x] = b[y] => x = y
      /\ \A t \in T : \E x \in S : b[x] = t
  BY DEF Bijection, Injection, Surjection, IsInjective
<1>2. {} \in A
  <2>1. Of({}) = {}  OBVIOUS
  <2> QED BY <2>1, SumOfNone
<1>3. IsFiniteSet(T)  BY FS_Surjection DEF Bijection
<1>4. ASSUME NEW s \in SUBSET S, s # {}, \A x \in s : s \ {x} \in A
      PROVE  s \in A
  <2>1. PICK x \in s : TRUE  BY <1>4
  <2>2. IsFiniteSet(s) /\ IsFiniteSet(Of(s))
    <3>1. Of(s) \in SUBSET T  BY <1>1
    <3> QED BY <1>3, <3>1, FS_Subset
  <2>3. SumFunctionOnSet(f, s) = f[x] + SumFunctionOnSet(f, s \ {x})
    BY <2>1, <2>2, SumTakesAny
  <2>4. b[x] \in Of(s) /\ Of(s) \ {b[x]} = Of(s \ {x})  BY <1>1, <2>1
  <2>5. \A y \in Of(s) : g[y] \in Int  OBVIOUS
  <2> HIDE DEF Of
  <2>6. SumFunctionOnSet(g, Of(s)) = g[b[x]] + SumFunctionOnSet(g, Of(s) \ {b[x]})
    BY <2>2, <2>4, <2>5, SumTakesAny
  <2>7. SumFunctionOnSet(f, s \ {x}) = SumFunctionOnSet(g, Of(s \ {x}))  BY <1>4, <2>1
  <2>8. g[b[x]] = f[x]  BY <2>1
  <2> QED BY <2>3, <2>4, <2>6, <2>7, <2>8
<1> HIDE DEF A
<1>5. S \in A
  <2>1. \A s \in SUBSET S : s \in A  BY <1>2, <1>4, FiniteSetInduction
  <2> QED BY <2>1
<1>6. Of(S) = T  BY <1>1
<1> QED BY <1>5, <1>6 DEF A

\* What is nowhere above is not above in the sum.
LEMMA SumIsMonotone ==
    ASSUME NEW f, NEW g, NEW S, IsFiniteSet(S),
           \A x \in S : f[x] \in Int /\ g[x] \in Int /\ f[x] <= g[x]
    PROVE  SumFunctionOnSet(f, S) <= SumFunctionOnSet(g, S)
<1> DEFINE A == {s \in SUBSET S : SumFunctionOnSet(f, s) <= SumFunctionOnSet(g, s)}
<1>1. {} \in A  BY SumOfNone
<1>2. ASSUME NEW s \in SUBSET S, s # {}, \A x \in s : s \ {x} \in A
      PROVE  s \in A
  <2>1. IsFiniteSet(s)  BY FS_Subset
  <2>2. /\ Picked(s) \in s
        /\ SumFunctionOnSet(f, s) = f[Picked(s)] + SumFunctionOnSet(f, s \ {Picked(s)})
        /\ SumFunctionOnSet(g, s) = g[Picked(s)] + SumFunctionOnSet(g, s \ {Picked(s)})
    BY <1>2, <2>1, SumUnfolds
  <2> DEFINE p == Picked(s)
             F == SumFunctionOnSet(f, s \ {p})
             G == SumFunctionOnSet(g, s \ {p})
  <2>3. F \in Int /\ G \in Int
    <3>1. IsFiniteSet(s \ {p})  BY <2>1, FS_Subset
    <3> QED BY <3>1, SumIsInt
  <2>4. F <= G  BY <1>2, <2>2
  <2>5. SumFunctionOnSet(f, s) = f[p] + F /\ SumFunctionOnSet(g, s) = g[p] + G
    BY <2>2
  <2>6. f[p] \in Int /\ g[p] \in Int /\ f[p] <= g[p]  BY <2>2
  <2> HIDE DEF F, G, p
  <2>7. SumFunctionOnSet(f, s) <= SumFunctionOnSet(g, s)  BY <2>3, <2>4, <2>5, <2>6
  <2> QED BY <2>7
<1> HIDE DEF A
<1>3. \A s \in SUBSET S : s \in A  BY <1>1, <1>2, FiniteSetInduction
<1> QED BY <1>3 DEF A

\* Elements that add nothing can be left out.
LEMMA SumSkipsZeros ==
    ASSUME NEW f, NEW S, IsFiniteSet(S), NEW T \in SUBSET S,
           \A x \in S : f[x] \in Int, \A x \in S \ T : f[x] = 0
    PROVE  SumFunctionOnSet(f, S) = SumFunctionOnSet(f, T)
<1> DEFINE A == {s \in SUBSET S : SumFunctionOnSet(f, s) = SumFunctionOnSet(f, s \cap T)}
<1>1. {} \in A
  <2>1. {} \cap T = {}  OBVIOUS
  <2> QED BY <2>1
<1>2. ASSUME NEW s \in SUBSET S, s # {}, \A x \in s : s \ {x} \in A
      PROVE  s \in A
  <2>1. IsFiniteSet(s) /\ IsFiniteSet(s \cap T)  BY FS_Subset
  <2>2. CASE s \subseteq T
    <3>1. s \cap T = s  BY <2>2
    <3> QED BY <3>1
  <2>3. CASE ~ (s \subseteq T)
    <3>1. PICK x \in s : x \notin T  BY <2>3
    <3>2. SumFunctionOnSet(f, s) = f[x] + SumFunctionOnSet(f, s \ {x})
      BY <2>1, SumTakesAny
    <3>3. (s \ {x}) \cap T = s \cap T  BY <3>1
    <3>4. SumFunctionOnSet(f, s \ {x}) = SumFunctionOnSet(f, s \cap T)  BY <1>2, <3>3
    <3>5. SumFunctionOnSet(f, s \cap T) \in Int  BY <2>1, SumIsInt
    <3>6. f[x] = 0  BY <3>1
    <3> QED BY <3>2, <3>4, <3>5, <3>6
  <2> QED BY <2>2, <2>3
<1> HIDE DEF A
<1>3. S \in A
  <2>1. \A s \in SUBSET S : s \in A  BY <1>1, <1>2, FiniteSetInduction
  <2> QED BY <2>1
<1>4. S \cap T = T  OBVIOUS
<1> QED BY <1>3, <1>4 DEF A

-----------------------------------------------------------------------------
(* The order of the periods (sortedPeriods).                                *)

\* The order of the periods: by start, and as given where the starts are equal.
Before(ps, i, j) == ps[i].start < ps[j].start \/ (ps[i].start = ps[j].start /\ i < j)
Earlier(ps, j) == {i \in DOMAIN ps : Before(ps, i, j)}
InOrder(ps) == \A i, j \in DOMAIN ps : i < j => ps[i].start <= ps[j].start

Nth(ps, k) == CHOOSE j \in DOMAIN ps : Cardinality(Earlier(ps, j)) + 1 = k

\* SortedPeriods in these words.
LEMMA SortedPeriodsFacts ==
    ASSUME NEW ps
    PROVE  SortedPeriods(ps) = [k \in DOMAIN ps |-> ps[Nth(ps, k)]]
BY DEF SortedPeriods, Earlier, Before, Nth

\* sortedPeriods puts every period in one place, and the earlier first.
LEMMA SortingPermutes ==
    ASSUME NEW ps \in Seq(Periods)
    PROVE  \E p \in Bijection(DOMAIN ps, DOMAIN ps) :
             /\ SortedPeriods(ps) = [k \in DOMAIN ps |-> ps[p[k]]]
             /\ \A j, k \in DOMAIN ps : j < k => Before(ps, p[j], p[k])
             /\ \A k \in DOMAIN ps : p[k] = Nth(ps, k)
<1> DEFINE D == DOMAIN ps
           Rank(j) == Cardinality(Earlier(ps, j)) + 1
           r == [j \in D |-> Rank(j)]
           p == [k \in D |-> Nth(ps, k)]
<1>1. D = 1 .. Len(ps) /\ Len(ps) \in Nat /\ IsFiniteSet(D) /\ D \subseteq Nat
      /\ \A j \in D : ps[j].start \in Int
  <2>1. D = 1 .. Len(ps) /\ Len(ps) \in Nat  OBVIOUS
  <2>2. \A j \in D : ps[j] \in Periods  OBVIOUS
  <2> QED BY <2>1, <2>2, FS_Interval DEF Periods
<1>2. \A j \in D : IsFiniteSet(Earlier(ps, j)) /\ Cardinality(Earlier(ps, j)) \in Nat
  <2>1. \A j \in D : Earlier(ps, j) \in SUBSET D  BY DEF Earlier
  <2> QED BY <2>1, <1>1, FS_Subset, FS_CardinalityType
<1>3. ASSUME NEW i \in D, NEW j \in D, Before(ps, i, j)
      PROVE  Rank(i) < Rank(j)
  <2>1. Earlier(ps, i) \in SUBSET Earlier(ps, j)
    BY <1>1, <1>3 DEF Earlier, Before
  <2>2. i \in Earlier(ps, j) /\ i \notin Earlier(ps, i)
    BY <1>1, <1>3 DEF Earlier, Before
  <2>3. Cardinality(Earlier(ps, i)) <= Cardinality(Earlier(ps, j))
        /\ Cardinality(Earlier(ps, i)) # Cardinality(Earlier(ps, j))
    <3> DEFINE S == Earlier(ps, i)
               T == Earlier(ps, j)
    <3>1. IsFiniteSet(T) /\ S \in SUBSET T /\ S # T  BY <1>2, <2>1, <2>2
    <3> HIDE DEF S, T
    <3>2. Cardinality(S) <= Cardinality(T) /\ Cardinality(S) # Cardinality(T)
      BY <3>1, FS_Subset
    <3> QED BY <3>2 DEF S, T
  <2> QED BY <2>3, <1>2
<1>4. \A i, j \in D : i # j => Before(ps, i, j) \/ Before(ps, j, i)
  BY <1>1 DEF Before
<1>5. \A j \in D : Rank(j) \in D
  <2> SUFFICES ASSUME NEW j \in D PROVE Rank(j) \in D  OBVIOUS
  <2>1. Earlier(ps, j) \in SUBSET (D \ {j})  BY <1>1 DEF Earlier, Before
  <2>2. Cardinality(D) = Len(ps)  BY <1>1, FS_Interval
  <2>3. IsFiniteSet(D \ {j}) /\ Cardinality(D \ {j}) = Len(ps) - 1
    <3>1. IsFiniteSet(D) /\ j \in D  BY <1>1
    <3> HIDE DEF D
    <3>2. IsFiniteSet(D \ {j}) /\ Cardinality(D \ {j}) = Cardinality(D) - 1
      BY <3>1, FS_RemoveElement
    <3> QED BY <3>2, <2>2
  <2>4. Cardinality(Earlier(ps, j)) <= Len(ps) - 1
    BY <2>1, <2>3, FS_Subset
  <2> QED BY <1>1, <1>2, <2>4
<1>6. r \in Injection(D, D)
  <2>1. r \in [D -> D]  BY <1>5
  <2>2. \A i, j \in D : r[i] = r[j] => i = j
    <3> SUFFICES ASSUME NEW i \in D, NEW j \in D, i # j PROVE r[i] # r[j]  OBVIOUS
    <3>1. Rank(i) < Rank(j) \/ Rank(j) < Rank(i)  BY <1>3, <1>4
    <3>2. Rank(i) \in Nat /\ Rank(j) \in Nat  BY <1>2
    <3> HIDE DEF Rank
    <3> QED BY <3>1, <3>2
  <2> HIDE DEF r
  <2> QED BY <2>1, <2>2 DEF Injection, IsInjective
<1>7. r \in Surjection(D, D)
  <2> HIDE DEF r
  <2> QED BY <1>1, <1>6, FS_Injection
<1>8. \A k \in D : \E j \in D : Rank(j) = k
  <2>1. \A k \in D : \E j \in D : r[j] = k  BY <1>7 DEF Surjection
  <2> QED BY <2>1
<1>9. \A k \in D : p[k] \in D /\ Rank(p[k]) = k
  <2> SUFFICES ASSUME NEW k \in D PROVE p[k] \in D /\ Rank(p[k]) = k  OBVIOUS
  <2>1. \E j \in D : Rank(j) = k  BY <1>8
  <2>2. Nth(ps, k) \in D /\ Rank(Nth(ps, k)) = k  BY <2>1 DEF Nth
  <2> QED BY <2>2
<1>10. \A j \in D : p[Rank(j)] = j
  <2> SUFFICES ASSUME NEW j \in D PROVE p[Rank(j)] = j  OBVIOUS
  <2>1. Rank(j) \in D /\ p[Rank(j)] \in D /\ Rank(p[Rank(j)]) = Rank(j)
    BY <1>5, <1>9
  <2>2. \A i \in D : Rank(i) = Rank(j) => i = j
    BY <1>6 DEF Injection, IsInjective
  <2> HIDE DEF Rank, p
  <2> QED BY <2>1, <2>2
<1>11. p \in Bijection(D, D)
  <2>1. p \in [D -> D]
    <3> HIDE DEF Rank
    <3> QED BY <1>9
  <2> HIDE DEF p, Rank
  <2>2. \A j, k \in D : p[j] = p[k] => j = k  BY <1>9
  <2>3. \A j \in D : \E k \in D : p[k] = j  BY <1>5, <1>10
  <2> QED BY <2>1, <2>2, <2>3 DEF Bijection, Injection, Surjection, IsInjective
<1>12. \A j, k \in D : j < k => Before(ps, p[j], p[k])
  <2> SUFFICES ASSUME NEW j \in D, NEW k \in D, j < k
               PROVE  Before(ps, p[j], p[k])
    OBVIOUS
  <2>1. p[j] \in D /\ p[k] \in D /\ Rank(p[j]) = j /\ Rank(p[k]) = k  BY <1>9
  <2>2. p[j] # p[k]  BY <2>1, <1>1
  <2>3. ~ Before(ps, p[k], p[j])  BY <2>1, <1>1, <1>3
  <2> QED BY <2>1, <2>2, <2>3, <1>4
<1>13. SortedPeriods(ps) = [k \in D |-> ps[p[k]]]
  BY SortedPeriodsFacts
<1>14. \A k \in D : p[k] = Nth(ps, k)  OBVIOUS
<1> HIDE DEF p, D
<1> QED BY <1>11, <1>12, <1>13, <1>14 DEF D

\* Sorted periods are in order, and the same periods.
LEMMA SortedPeriodsTyped ==
    ASSUME NEW ps \in Seq(Periods)
    PROVE  /\ SortedPeriods(ps) \in Seq(Periods) /\ InOrder(SortedPeriods(ps))
           /\ Len(SortedPeriods(ps)) = Len(ps)
           /\ {SortedPeriods(ps)[i] : i \in DOMAIN SortedPeriods(ps)} = {ps[i] : i \in DOMAIN ps}
<1>1. PICK p \in Bijection(DOMAIN ps, DOMAIN ps) :
             /\ SortedPeriods(ps) = [k \in DOMAIN ps |-> ps[p[k]]]
             /\ \A j, k \in DOMAIN ps : j < k => Before(ps, p[j], p[k])
  BY SortingPermutes
<1> DEFINE D == DOMAIN ps
           qs == SortedPeriods(ps)
<1>2. D = 1 .. Len(ps) /\ Len(ps) \in Nat /\ \A j \in D : ps[j] \in Periods
  OBVIOUS
<1>3. p \in [D -> D] /\ \A j \in D : \E k \in D : p[k] = j
  BY <1>1 DEF Bijection, Injection, Surjection
<1>4. qs \in [D -> Periods]  BY <1>1, <1>2, <1>3
<1>5. qs \in Seq(Periods) /\ Len(qs) = Len(ps) /\ DOMAIN qs = D
  <2> HIDE DEF qs
  <2> QED BY <1>2, <1>4
<1>6. {qs[i] : i \in D} = {ps[i] : i \in D}
  <2>1. \A i \in D : qs[i] = ps[p[i]]  BY <1>1
  <2> HIDE DEF qs, D
  <2>2. \A i \in D : qs[i] \in {ps[k] : k \in D}  BY <2>1, <1>3
  <2>3. \A k \in D : ps[k] \in {qs[i] : i \in D}
    <3> SUFFICES ASSUME NEW k \in D PROVE ps[k] \in {qs[i] : i \in D}  OBVIOUS
    <3>1. PICK i \in D : p[i] = k  BY <1>3
    <3> QED BY <3>1, <2>1
  <2> QED BY <2>2, <2>3
<1>7. ASSUME NEW i \in D, NEW j \in D, i < j
      PROVE  qs[i].start <= qs[j].start
  <2>1. Before(ps, p[i], p[j]) /\ qs[i] = ps[p[i]] /\ qs[j] = ps[p[j]]  BY <1>1, <1>7
  <2>2. ps[p[i]].start \in Int /\ ps[p[j]].start \in Int  BY <1>2, <1>3 DEF Periods
  <2> QED BY <2>1, <2>2 DEF Before
<1> QED BY <1>5, <1>6, <1>7 DEF InOrder

\* Periods in order stay as they are.
LEMMA SortedIsIdempotent ==
    ASSUME NEW ps \in Seq(Periods), InOrder(ps)
    PROVE  SortedPeriods(ps) = ps
<1>1. DOMAIN ps = 1 .. Len(ps) /\ Len(ps) \in Nat /\ \A j \in DOMAIN ps : ps[j].start \in Int
  <2>1. \A j \in DOMAIN ps : ps[j] \in Periods  OBVIOUS
  <2> QED BY <2>1 DEF Periods
<1>2. \A j \in DOMAIN ps : Cardinality(Earlier(ps, j)) + 1 = j
  <2> SUFFICES ASSUME NEW j \in DOMAIN ps PROVE Cardinality(Earlier(ps, j)) = j - 1
    BY <1>1
  <2>1. Earlier(ps, j) = 1 .. j - 1  BY <1>1 DEF Earlier, Before, InOrder
  <2> DEFINE m == j - 1
  <2>2. m \in Int /\ m >= 0  BY <1>1
  <2> HIDE DEF m
  <2>3. Cardinality(1 .. m) = m  BY <2>2, FS_Interval
  <2> QED BY <2>1, <2>3 DEF m
<1>3. \A k \in DOMAIN ps : Nth(ps, k) = k
  BY <1>2 DEF Nth
<1>4. SortedPeriods(ps) = [k \in DOMAIN ps |-> ps[k]]
  BY <1>3, SortedPeriodsFacts
<1> QED BY <1>4

-----------------------------------------------------------------------------
(* Extremes.                                                                *)

\* A finite set of numbers has a greatest and a least one.
LEMMA ExtremesExist ==
    ASSUME NEW S \in SUBSET Int, IsFiniteSet(S), S # {}
    PROVE  /\ \E x \in S : \A y \in S : x >= y
           /\ \E x \in S : \A y \in S : x <= y
<1> DEFINE A == {s \in SUBSET S : s # {} => /\ \E x \in s : \A y \in s : x >= y
                                            /\ \E x \in s : \A y \in s : x <= y}
<1>1. {} \in A  OBVIOUS
<1>2. ASSUME NEW s \in SUBSET S, s # {}, \A x \in s : s \ {x} \in A
      PROVE  s \in A
  <2>1. PICK z \in s : TRUE  BY <1>2
  <2>2. CASE s \ {z} = {}
    <3>1. s = {z} /\ z \in Int  BY <2>1, <2>2
    <3>2. \A y \in s : z <= y /\ z >= y  BY <3>1
    <3> QED BY <2>1, <3>2
  <2>3. CASE s \ {z} # {}
    <3>1. s \ {z} \in A  BY <1>2, <2>1
    <3>2. PICK x \in s \ {z} : \A y \in s \ {z} : x >= y  BY <2>3, <3>1
    <3>3. PICK w \in s \ {z} : \A y \in s \ {z} : w <= y  BY <2>3, <3>1
    <3>4. x \in Int /\ w \in Int /\ z \in Int /\ \A y \in s : y \in Int  OBVIOUS
    <3>5. \E u \in s : \A y \in s : u >= y
      <4>1. CASE x >= z  BY <4>1, <3>2
      <4>2. CASE z >= x  BY <4>2, <3>2, <3>4
      <4> QED BY <4>1, <4>2, <3>4
    <3>6. \E u \in s : \A y \in s : u <= y
      <4>1. CASE w <= z  BY <4>1, <3>3
      <4>2. CASE z <= w  BY <4>2, <3>3, <3>4
      <4> QED BY <4>1, <4>2, <3>4
    <3> QED BY <3>5, <3>6
  <2> QED BY <2>2, <2>3
<1> HIDE DEF A
<1>3. \A s \in SUBSET S : s \in A  BY <1>1, <1>2, FiniteSetInduction
<1>4. S \in A  BY <1>3
<1> QED BY <1>4 DEF A

\* Max of a finite set of integers is its greatest element.
LEMMA MaxFacts ==
    ASSUME NEW S \in SUBSET Int, IsFiniteSet(S), S # {}
    PROVE  Max(S) \in S /\ \A y \in S : y <= Max(S)
<1>1. \E x \in S : \A y \in S : x >= y  BY ExtremesExist
<1>2. Max(S) \in S /\ \A y \in S : Max(S) >= y  BY <1>1 DEF Max
<1>3. \A y \in S : y \in Int  OBVIOUS
<1> QED BY <1>2, <1>3

\* Least of a finite set of integers is its least element.
LEMMA LeastFacts ==
    ASSUME NEW S \in SUBSET Int, IsFiniteSet(S), S # {}
    PROVE  Least(S) \in S /\ \A y \in S : Least(S) <= y
<1>1. \E x \in S : \A y \in S : x <= y  BY ExtremesExist
<1> QED BY <1>1 DEF Least

-----------------------------------------------------------------------------
(* Money.                                                                   *)

\* The places of a sequence are finitely many.
LEMMA PlacesAreFinite ==
    ASSUME NEW S, NEW s \in Seq(S)
    PROVE  /\ DOMAIN s = 1 .. Len(s) /\ Len(s) \in Nat /\ DOMAIN s \subseteq Int
           /\ IsFiniteSet(DOMAIN s) /\ \A i \in DOMAIN s : s[i] \in S
<1>1. DOMAIN s = 1 .. Len(s) /\ Len(s) \in Nat  OBVIOUS
<1>2. IsFiniteSet(1 .. Len(s))  BY <1>1, FS_Interval
<1> QED BY <1>1, <1>2

\* The taxes of an amount are an amount.
LEMMA SumTaxesIsInt ==
    ASSUME NEW before \in Int, NEW taxes \in Seq(TaxAmounts)
    PROVE  SumTaxes(before, taxes) \in Int
<1> DEFINE f == [i \in DOMAIN taxes |-> TaxLine(before, taxes[i])]
<1>1. IsFiniteSet(DOMAIN taxes) /\ \A i \in DOMAIN taxes : taxes[i] \in TaxAmounts
  BY PlacesAreFinite
<1>2. DOMAIN f = DOMAIN taxes /\ \A i \in DOMAIN taxes : f[i] \in Int
  BY <1>1 DEF TaxLine, TaxAmounts
<1>3. SumTaxes(before, taxes) = SumFunctionOnSet(f, DOMAIN f)
  BY DEF SumTaxes, SumFunction
<1> HIDE DEF f
<1> QED BY <1>1, <1>2, <1>3, SumIsInt

\* An amount has at most one after-tax amount.
LEMMA AfterTaxIsOpt ==
    ASSUME NEW m \in Moneys
    PROVE  AfterTax(m) \in Opt(Int)
<1>1. m.before \in Int /\ m.taxes \in Seq(TaxAmounts) /\ m.after \in Opt(Int)  BY DEF Moneys
<1>2. SumTaxes(m.before, m.taxes) \in Int  BY <1>1, SumTaxesIsInt
<1>3. 100 * m.before + SumTaxes(m.before, m.taxes) \in Int  BY <1>1, <1>2
<1> QED BY <1>1, <1>3 DEF AfterTax, Opt

Entries == [before : Int, taxes : Seq(TaxAmounts)]

\* The money of a dimension is an amount with its taxes.
LEMMA DimensionMoneyTyped ==
    ASSUME NEW before \in Int, NEW entries, IsFiniteSet(DOMAIN entries),
           \A i \in DOMAIN entries : entries[i] \in Entries
    PROVE  DimensionMoney(before, entries) \in Moneys
<1> DEFINE lists == {entries[i].taxes : i \in DOMAIN entries}
           f == [i \in DOMAIN entries |-> SumTaxes(entries[i].before, entries[i].taxes)]
           total == SumFunction(f)
           taxes == IF Cardinality(lists) = 1 THEN CHOOSE ts \in lists : TRUE
                    ELSE IF lists # {} /\ (\A ts \in lists : TaxesKnown(ts))
                         THEN <<[kind |-> "amount", value |-> total]>>
                    ELSE <<>>
<1>1. DimensionMoney(before, entries) = [before |-> before, taxes |-> taxes, after |-> {}]
  BY DEF DimensionMoney
<1>2. \A ts \in lists : ts \in Seq(TaxAmounts)  BY DEF Entries
<1>3. total \in Int
  <2>1. DOMAIN f = DOMAIN entries /\ \A i \in DOMAIN entries : f[i] \in Int
    BY SumTaxesIsInt DEF Entries
  <2> HIDE DEF f
  <2> QED BY <2>1, SumIsInt DEF SumFunction
<1>4. taxes \in Seq(TaxAmounts)
  <2>1. CASE Cardinality(lists) = 1
    <3>1. lists # {}
      <4> HIDE DEF lists
      <4> QED BY <2>1, FS_EmptySet
    <3> DEFINE c == CHOOSE ts \in lists : TRUE
    <3>2. c \in lists  BY <3>1
    <3>3. taxes = c  BY <2>1
    <3> HIDE DEF c
    <3>4. c \in Seq(TaxAmounts)  BY <3>2, <1>2
    <3> HIDE DEF taxes
    <3> QED BY <3>3, <3>4
  <2>2. CASE Cardinality(lists) # 1
    <3>1. [kind |-> "amount", value |-> total] \in TaxAmounts
      <4> HIDE DEF total
      <4> QED BY <1>3 DEF TaxAmounts
    <3> DEFINE t == [kind |-> "amount", value |-> total]
    <3>2. taxes \in {<<t>>, <<>>}  BY <2>2
    <3>3. t \in TaxAmounts  BY <3>1
    <3> HIDE DEF t
    <3>4. <<t>> \in Seq(TaxAmounts) /\ <<>> \in Seq(TaxAmounts)  BY <3>3
    <3> HIDE DEF taxes
    <3> QED BY <3>2, <3>4
  <2> QED BY <2>1, <2>2
<1>5. {} \in Opt(Int)  BY DEF Opt
<1> HIDE DEF taxes
<1> QED BY <1>1, <1>4, <1>5 DEF Moneys

\* Nothing is an amount.
LEMMA NoMoneyTyped == NoMoney \in Moneys
BY DEF NoMoney, Moneys, Opt

-----------------------------------------------------------------------------
(* What the engine computes, for inputs of the types of model.go.           *)

\* What FirstMatch returns, at most one of, and what Active says of periods.
MatchTypes == [tariff : Int, element : Int, comp : PriceComponents]
IsActive(act, ps) == act \in [DOMAIN ps -> [Dims -> Opt(MatchTypes)]]

\* An entry for each of finitely many periods.
LedgerEntries == [volume : Int, comp : PriceComponents]
IsLedger(ledger) ==
    /\ ledger = [i \in DOMAIN ledger |-> ledger[i]]
    /\ IsFiniteSet(DOMAIN ledger) /\ DOMAIN ledger \subseteq Int
    /\ \A i \in DOMAIN ledger : ledger[i] \in LedgerEntries

\* What is at most one is finitely many, and the one when there is one.
LEMMA OptFacts ==
    ASSUME NEW S, NEW s \in Opt(S)
    PROVE  /\ IsFiniteSet(s) /\ s \subseteq S
           /\ s # {} => (CHOOSE x \in s : TRUE) \in S /\ s = {CHOOSE x \in s : TRUE}
<1>1. CASE s = {}  BY <1>1, FS_EmptySet
<1>2. CASE s # {}
  <2> DEFINE c == CHOOSE x \in s : TRUE
  <2>1. c \in s  BY <1>2
  <2>2. s \subseteq S /\ \A x, y \in s : x = y  BY DEF Opt
  <2> HIDE DEF c
  <2>3. s = {c}  BY <2>1, <2>2
  <2>4. IsFiniteSet({c})  BY FS_Singleton
  <2> QED BY <2>1, <2>2, <2>3, <2>4 DEF c
<1> QED BY <1>1, <1>2

\* A metered volume is a number.
LEMMA VolumeTyped ==
    ASSUME NEW p \in Periods, NEW d \in Volumed
    PROVE  Volume(p, d) \in Int
<1>1. p.volume[d] \in Opt(Int)  BY DEF Periods
<1> QED BY <1>1, OptFacts DEF Volume

\* activeComponents finds a component of the dimension, in the period's tariff.
LEMMA FirstMatchTyped ==
    ASSUME NEW ts \in Seq(Tariffs), NEW t \in DOMAIN ts, NEW s, NEW p, NEW d \in Dims
    PROVE  /\ FirstMatch(ts, t, s, p, d) \in Opt(MatchTypes)
           /\ \A m \in FirstMatch(ts, t, s, p, d) :
                 /\ m.tariff = t /\ m.comp.type = d
                 /\ m.element \in DOMAIN ts[t].elements
                 /\ \E j \in DOMAIN ts[t].elements[m.element].components :
                       m.comp = ts[t].elements[m.element].components[j]
<1> DEFINE els == ts[t].elements
           es == Candidates(els, s, p, d)
           e == Least(es)
           cs == els[e].components
           js == {k \in DOMAIN cs : cs[k].type = d}
           j == Least(js)
           m == [tariff |-> t, element |-> e, comp |-> cs[j]]
<1>1. FirstMatch(ts, t, s, p, d) = IF es = {} THEN {} ELSE {m}
  BY DEF FirstMatch
<1>2. CASE es = {}
  <2> HIDE DEF es
  <2>1. FirstMatch(ts, t, s, p, d) = {}  BY <1>1, <1>2
  <2> QED BY <2>1 DEF Opt
<1>3. CASE es # {}
  <2>1. t \in Int /\ els \in Seq(Elements)
    <3>1. t \in Int /\ ts[t] \in Tariffs  BY PlacesAreFinite
    <3> QED BY <3>1 DEF Tariffs
  <2>2. IsFiniteSet(DOMAIN els) /\ DOMAIN els \subseteq Int /\ \A i \in DOMAIN els : els[i] \in Elements
    <3> HIDE DEF els
    <3> QED BY <2>1, PlacesAreFinite
  <2>3. es \in SUBSET DOMAIN els
        /\ \A i \in es : \E k \in DOMAIN els[i].components : els[i].components[k].type = d
    BY DEF Candidates
  <2> HIDE DEF els
  <2>4. e \in es
    <3> HIDE DEF es
    <3>1. IsFiniteSet(es) /\ es \in SUBSET Int  BY <2>2, <2>3, FS_Subset
    <3> QED BY <3>1, <1>3, LeastFacts
  <2> HIDE DEF es
  <2>5. e \in DOMAIN els /\ e \in Int  BY <2>2, <2>3, <2>4
  <2>6. \E k \in DOMAIN cs : cs[k].type = d  BY <2>3, <2>4
  <2> HIDE DEF e
  <2>7. cs \in Seq(PriceComponents)  BY <2>2, <2>5 DEF Elements
  <2> HIDE DEF cs
  <2>8. IsFiniteSet(DOMAIN cs) /\ DOMAIN cs \subseteq Int
        /\ \A i \in DOMAIN cs : cs[i] \in PriceComponents
    BY <2>7, PlacesAreFinite
  <2>9. j \in js
    <3>1. js \in SUBSET DOMAIN cs /\ js # {}  BY <2>6
    <3> HIDE DEF js
    <3>2. IsFiniteSet(js) /\ js \in SUBSET Int  BY <3>1, <2>8, FS_Subset
    <3> QED BY <3>1, <3>2, LeastFacts
  <2>10. j \in DOMAIN cs /\ cs[j].type = d /\ cs[j] \in PriceComponents  BY <2>8, <2>9
  <2> HIDE DEF j
  <2>11. m \in MatchTypes  BY <2>1, <2>5, <2>10 DEF MatchTypes
  <2>12. FirstMatch(ts, t, s, p, d) = {m}  BY <1>1, <1>3
  <2>13. m.tariff = t /\ m.comp.type = d /\ m.element = e /\ m.comp = cs[j]  BY <2>10
  <2> HIDE DEF m
  <2>14. {m} \in Opt(MatchTypes)  BY <2>11 DEF Opt
  <2> QED BY <2>5, <2>10, <2>12, <2>13, <2>14 DEF cs, els
<1> QED BY <1>2, <1>3

\* So do all periods of a session whose tariffs exist.
LEMMA ActiveTyped ==
    ASSUME NEW in \in Inputs, NEW ps \in Seq(Periods), NEW zone,
           \A i \in DOMAIN ps : ps[i].tariff \subseteq DOMAIN in.tariffs
    PROVE  IsActive(Active(in, ps, zone), ps)
<1> DEFINE act == Active(in, ps, zone)
           snap == Snapshots(in.start, in.end, ps, zone)
           t(i) == CHOOSE x \in ps[i].tariff : TRUE
           A(i) == IF ps[i].tariff = {} THEN [d \in Dims |-> {}]
                   ELSE [d \in Dims |-> FirstMatch(in.tariffs, t(i), snap[i - 1], ps[i], d)]
<1>1. act = [i \in DOMAIN ps |-> A(i)]  BY DEF Active, ActiveComponents
<1>2. ASSUME NEW i \in DOMAIN ps
      PROVE  A(i) \in [Dims -> Opt(MatchTypes)]
  <2>1. CASE ps[i].tariff = {}
    <3>1. {} \in Opt(MatchTypes)  BY DEF Opt
    <3> QED BY <2>1, <3>1
  <2>2. CASE ps[i].tariff # {}
    <3>1. t(i) \in DOMAIN in.tariffs  BY <2>2
    <3>2. in.tariffs \in Seq(Tariffs)  BY DEF Inputs
    <3> HIDE DEF t, snap
    <3>3. \A d \in Dims :
             FirstMatch(in.tariffs, t(i), snap[i - 1], ps[i], d) \in Opt(MatchTypes)
      BY <3>1, <3>2, FirstMatchTyped
    <3> QED BY <2>2, <3>3
  <2> QED BY <2>1, <2>2
<1> HIDE DEF A
<1> QED BY <1>1, <1>2 DEF IsActive

\* What prices dimension d in period i.
PricedBy(act, i, d) == CHOOSE m \in act[i][d] : TRUE

\* The ledgers.
LEMMA LedgerTyped ==
    ASSUME NEW ps \in Seq(Periods), NEW act, IsActive(act, ps), NEW d \in Volumed
    PROVE  /\ IsLedger(Ledger(ps, act, d))
           /\ DOMAIN Ledger(ps, act, d) =
                {i \in DOMAIN ps : ps[i].volume[d] # {} /\ act[i][d] # {}}
           /\ \A i \in DOMAIN Ledger(ps, act, d) :
                /\ Ledger(ps, act, d)[i].volume = Volume(ps[i], d)
                /\ act[i][d] = {PricedBy(act, i, d)} /\ PricedBy(act, i, d) \in MatchTypes
                /\ Ledger(ps, act, d)[i].comp = PricedBy(act, i, d).comp
<1> DEFINE l == Ledger(ps, act, d)
           D == {i \in DOMAIN ps : ps[i].volume[d] # {} /\ act[i][d] # {}}
           entry(i) == [volume |-> Volume(ps[i], d), comp |-> PricedBy(act, i, d).comp]
<1>1. l = [i \in D |-> entry(i)]  BY DEF Ledger, PricedBy
<1>2. IsFiniteSet(D) /\ D \subseteq Int
  <2>1. D \in SUBSET DOMAIN ps  OBVIOUS
  <2> HIDE DEF D
  <2> QED BY <2>1, PlacesAreFinite, FS_Subset
<1>3. ASSUME NEW i \in D
      PROVE  /\ entry(i) \in LedgerEntries
             /\ act[i][d] = {PricedBy(act, i, d)} /\ PricedBy(act, i, d) \in MatchTypes
  <2>1. ps[i] \in Periods  BY PlacesAreFinite
  <2>2. act[i][d] \in Opt(MatchTypes) /\ act[i][d] # {}  BY DEF IsActive, Dims
  <2> DEFINE m == PricedBy(act, i, d)
  <2>3. m \in MatchTypes /\ act[i][d] = {m}  BY <2>2, OptFacts DEF PricedBy
  <2> HIDE DEF m
  <2>4. m.comp \in PriceComponents  BY <2>3 DEF MatchTypes
  <2> QED BY <2>1, <2>3, <2>4, VolumeTyped DEF m, LedgerEntries
<1> HIDE DEF D
<1>4. l = [i \in DOMAIN l |-> l[i]] /\ DOMAIN l = D /\ \A i \in D : l[i] = entry(i)
  <2> HIDE DEF entry
  <2> QED BY <1>1
<1>5. IsLedger(l)
  <2> HIDE DEF l, entry
  <2> QED BY <1>2, <1>3, <1>4 DEF IsLedger
<1>6. \A i \in D : entry(i).volume = Volume(ps[i], d) /\ entry(i).comp = PricedBy(act, i, d).comp
  OBVIOUS
<1> HIDE DEF entry, l
<1>7. \A i \in D : l[i].volume = Volume(ps[i], d) /\ l[i].comp = PricedBy(act, i, d).comp
  BY <1>4, <1>6
<1> QED BY <1>3, <1>4, <1>5, <1>7 DEF D, l

\* A session's volume.
LEMMA TotalVolumeTyped ==
    ASSUME NEW ledger, IsLedger(ledger)
    PROVE  TotalVolume(ledger) \in Int
<1> DEFINE f == [i \in DOMAIN ledger |-> ledger[i].volume]
<1>1. DOMAIN f = DOMAIN ledger /\ \A i \in DOMAIN f : f[i] \in Int
  BY DEF IsLedger, LedgerEntries
<1>2. IsFiniteSet(DOMAIN f)  BY <1>1 DEF IsLedger
<1> HIDE DEF f
<1> QED BY <1>1, <1>2, SumIsInt DEF TotalVolume, SumFunction, f

\* Sums of amounts that differ in one place.
LEMMA SumWithOneChange ==
    ASSUME NEW f, NEW g, NEW S, IsFiniteSet(S), NEW x \in S,
           \A y \in S : f[y] \in Int /\ g[y] \in Int, \A y \in S \ {x} : f[y] = g[y]
    PROVE  SumFunctionOnSet(f, S) - f[x] = SumFunctionOnSet(g, S) - g[x]
<1>1. SumFunctionOnSet(f, S) = f[x] + SumFunctionOnSet(f, S \ {x})  BY SumTakesAny
<1>2. SumFunctionOnSet(g, S) = g[x] + SumFunctionOnSet(g, S \ {x})  BY SumTakesAny
<1>3. IsFiniteSet(S \ {x})  BY FS_Subset
<1>4. SumFunctionOnSet(f, S \ {x}) = SumFunctionOnSet(g, S \ {x})  BY <1>3, SumOfEquals
<1>5. SumFunctionOnSet(f, S \ {x}) \in Int /\ SumFunctionOnSet(g, S \ {x}) \in Int
  BY <1>3, SumIsInt
<1>6. f[x] \in Int /\ g[x] \in Int  OBVIOUS
<1> DEFINE F == SumFunctionOnSet(f, S \ {x})
<1>7. SumFunctionOnSet(f, S) = f[x] + F /\ SumFunctionOnSet(g, S) = g[x] + F /\ F \in Int
  BY <1>1, <1>2, <1>4, <1>5
<1> HIDE DEF F
<1> QED BY <1>6, <1>7

\* The last entry.
LEMMA LastEntry ==
    ASSUME NEW ledger, IsLedger(ledger), DOMAIN ledger # {}
    PROVE  /\ Max(DOMAIN ledger) \in DOMAIN ledger
           /\ \A i \in DOMAIN ledger : i <= Max(DOMAIN ledger)
           /\ LastStep(ledger) \in Int
<1>1. /\ Max(DOMAIN ledger) \in DOMAIN ledger
      /\ \A i \in DOMAIN ledger : i <= Max(DOMAIN ledger)
  BY MaxFacts DEF IsLedger
<1>2. ledger[Max(DOMAIN ledger)] \in LedgerEntries  BY <1>1 DEF IsLedger
<1> QED BY <1>1, <1>2 DEF LastStep, LedgerEntries, PriceComponents

\* What the step adds to a session's volume: nothing, or less than the step.
Added(d, ledger, idle) == BilledVolume(d, ledger, idle) - TotalVolume(ledger)

\* What a step adds to a dimension is less than one step (billedTotalBase).
LEMMA AddedFacts ==
    ASSUME NEW d, NEW ledger, IsLedger(ledger), NEW idle, ~ StepFails(d, ledger, idle)
    PROVE  /\ Added(d, ledger, idle) \in Nat
           /\ Added(d, ledger, idle) # 0 =>
                DOMAIN ledger # {} /\ Added(d, ledger, idle) <= LastStep(ledger) - 1
<1> DEFINE total == TotalVolume(ledger)
           step == LastStep(ledger)
           billed == BilledVolume(d, ledger, idle)
<1>1. total \in Int  BY TotalVolumeTyped
<1>2. CASE DOMAIN ledger # {} /\ Stepped(d, step, idle)
  <2>1. step \in Nat \ {0}
    <3>1. step \in Int  BY <1>2, LastEntry
    <3> QED BY <3>1, <1>2 DEF StepFails
  <2>2. billed = StepBill(total, step)  BY <1>2 DEF BilledVolume
  <2> HIDE DEF total, step, billed
  <2>3. StepBill(total, step) \in Int /\ StepBill(total, step) - total \in 0 .. step - 1
    BY <1>1, <2>1, StepBillIsTheNextStep
  <2> QED BY <1>1, <1>2, <2>1, <2>2, <2>3 DEF Added, total, step, billed
<1>3. CASE ~ (DOMAIN ledger # {} /\ Stepped(d, step, idle))
  <2>1. billed = total  BY <1>3 DEF BilledVolume
  <2> QED BY <1>1, <2>1 DEF Added
<1> QED BY <1>2, <1>3

\* What is billed differs from the ledger in the last volume only.
LEMMA WithStepFacts ==
    ASSUME NEW d, NEW ledger, IsLedger(ledger), NEW idle, ~ StepFails(d, ledger, idle)
    PROVE  /\ IsLedger(WithStep(d, ledger, idle))
           /\ DOMAIN WithStep(d, ledger, idle) = DOMAIN ledger
           /\ \A i \in DOMAIN ledger :
                /\ WithStep(d, ledger, idle)[i].comp = ledger[i].comp
                /\ WithStep(d, ledger, idle)[i].volume =
                     ledger[i].volume + IF i = Max(DOMAIN ledger) THEN Added(d, ledger, idle) ELSE 0
<1> DEFINE l == WithStep(d, ledger, idle)
           delta == Added(d, ledger, idle)
           last == Max(DOMAIN ledger)
<1>1. delta \in Nat /\ (delta # 0 => DOMAIN ledger # {})  BY AddedFacts
<1>2. \A i \in DOMAIN ledger :
        /\ ledger[i] \in LedgerEntries /\ ledger[i].volume \in Int
        /\ ledger[i].comp \in PriceComponents
        /\ ledger[i] = [volume |-> ledger[i].volume, comp |-> ledger[i].comp]
  BY DEF IsLedger, LedgerEntries
<1>3. CASE delta = 0
  <2>1. l = ledger  BY <1>3 DEF WithStep, Added
  <2> HIDE DEF l, delta, last
  <2> QED BY <1>2, <1>3, <2>1 DEF l, delta, last
<1>4. CASE delta # 0
  <2>1. last \in DOMAIN ledger  BY <1>1, <1>4, LastEntry
  <2>2. l = [ledger EXCEPT ![last].volume = @ + delta]
    BY <1>1, <1>4 DEF WithStep, Added
  <2> HIDE DEF l, last, delta
  <2>3. l = [i \in DOMAIN ledger |->
                IF i = last THEN [ledger[i] EXCEPT !.volume = @ + delta] ELSE ledger[i]]
    BY <2>1, <2>2 DEF IsLedger
  <2>4. DOMAIN l = DOMAIN ledger /\ l = [i \in DOMAIN l |-> l[i]]  BY <2>3
  <2>5. ASSUME NEW i \in DOMAIN ledger
        PROVE  /\ l[i] \in LedgerEntries /\ l[i].comp = ledger[i].comp
               /\ l[i].volume = ledger[i].volume + IF i = last THEN delta ELSE 0
    <3>1. CASE i = last
      <4>1. l[i] = [volume |-> ledger[i].volume + delta, comp |-> ledger[i].comp]
        BY <1>2, <2>3, <3>1
      <4>2. ledger[i].volume + delta \in Int  BY <1>1, <1>2
      <4> QED BY <1>2, <3>1, <4>1, <4>2 DEF LedgerEntries
    <3>2. CASE i # last
      <4>1. l[i] = ledger[i]  BY <2>3, <3>2
      <4>2. ledger[i].volume + 0 = ledger[i].volume  BY <1>2
      <4> QED BY <1>2, <3>2, <4>1, <4>2
    <3> QED BY <3>1, <3>2
  <2>6. IsLedger(l)  BY <2>4, <2>5 DEF IsLedger
  <2> QED BY <2>4, <2>5, <2>6 DEF l, last, delta
<1> QED BY <1>3, <1>4

\* Before any step, what the volumes of a ledger cost.
Raw(ledger) == SumFunction([i \in DOMAIN ledger |-> ledger[i].volume * ledger[i].comp.price])

\* The cost of the volumes themselves is a number.
LEMMA RawTyped ==
    ASSUME NEW ledger, IsLedger(ledger)
    PROVE  Raw(ledger) \in Int
<1> DEFINE f == [i \in DOMAIN ledger |-> ledger[i].volume * ledger[i].comp.price]
<1>1. \A i \in DOMAIN ledger : ledger[i].volume \in Int /\ ledger[i].comp.price \in Int
  BY DEF IsLedger, LedgerEntries, PriceComponents
<1>2. DOMAIN f = DOMAIN ledger /\ \A i \in DOMAIN f : f[i] \in Int
  BY <1>1
<1>3. IsFiniteSet(DOMAIN f)  BY <1>2 DEF IsLedger
<1> HIDE DEF f
<1> QED BY <1>2, <1>3, SumIsInt DEF Raw, SumFunction, f

\* priceSessionDimension: the volumes' cost and that of what the step adds.
LEMMA SessionCostFacts ==
    ASSUME NEW d \in Volumed, NEW ledger, IsLedger(ledger), NEW idle, ~ StepFails(d, ledger, idle)
    PROVE  /\ SessionCost(d, ledger, idle) \in Moneys
           /\ SessionCost(d, ledger, idle).before =
                RoundBank(Raw(WithStep(d, ledger, idle)), Base[d])
           /\ DOMAIN ledger # {} =>
                Raw(WithStep(d, ledger, idle)) = Raw(ledger)
                    + Added(d, ledger, idle) * ledger[Max(DOMAIN ledger)].comp.price
<1> DEFINE l == WithStep(d, ledger, idle)
           delta == Added(d, ledger, idle)
           last == Max(DOMAIN ledger)
           cost(i) == l[i].volume * l[i].comp.price
           f == [i \in DOMAIN l |-> cost(i)]
           entries == [i \in DOMAIN l |-> [before |-> RoundBank(cost(i), Base[d]),
                                           taxes |-> l[i].comp.taxes]]
<1>1. /\ IsLedger(l) /\ DOMAIN l = DOMAIN ledger
      /\ \A i \in DOMAIN ledger :
           /\ l[i].comp = ledger[i].comp
           /\ l[i].volume = ledger[i].volume + IF i = last THEN delta ELSE 0
  BY WithStepFacts
<1>2. delta \in Nat  BY AddedFacts
<1>3. Base[d] \in Nat \ {0}  BY BaseAssumption
<1> HIDE DEF l, delta
<1>4. \A i \in DOMAIN l :
        l[i].volume \in Int /\ l[i].comp.price \in Int /\ l[i].comp.taxes \in Seq(TaxAmounts)
  BY <1>1 DEF IsLedger, LedgerEntries, PriceComponents
<1>5. \A i \in DOMAIN l : cost(i) \in Int  BY <1>4
<1>6. Raw(l) = SumFunction(f) /\ Raw(l) \in Int  BY <1>1, RawTyped DEF Raw
<1>7. SessionCost(d, ledger, idle) = DimensionMoney(RoundBank(Raw(l), Base[d]), entries)
  BY <1>6 DEF SessionCost, l
<1>8. RoundBank(Raw(l), Base[d]) \in Int  BY <1>3, <1>6, RoundBankIsNearest
<1>9. DimensionMoney(RoundBank(Raw(l), Base[d]), entries) \in Moneys
  <2>1. ASSUME NEW i \in DOMAIN l
        PROVE  entries[i] \in Entries
    <3>1. cost(i) \in Int  BY <1>5
    <3> HIDE DEF cost
    <3>2. RoundBank(cost(i), Base[d]) \in Int  BY <3>1, <1>3, RoundBankIsNearest
    <3> QED BY <3>2, <1>4 DEF Entries
  <2>2. DOMAIN entries = DOMAIN l /\ IsFiniteSet(DOMAIN l)  BY <1>1 DEF IsLedger
  <2> HIDE DEF entries
  <2> QED BY <1>8, <2>1, <2>2, DimensionMoneyTyped
<1>10. DimensionMoney(RoundBank(Raw(l), Base[d]), entries).before = RoundBank(Raw(l), Base[d])
  BY DEF DimensionMoney
<1>11. ASSUME DOMAIN ledger # {}
       PROVE  Raw(l) = Raw(ledger) + delta * ledger[last].comp.price
  <2> DEFINE g == [i \in DOMAIN ledger |-> ledger[i].volume * ledger[i].comp.price]
             price == ledger[last].comp.price
  <2>1. last \in DOMAIN ledger  BY <1>11, LastEntry
  <2>2. \A i \in DOMAIN ledger : ledger[i].volume \in Int /\ ledger[i].comp.price \in Int
    BY DEF IsLedger, LedgerEntries, PriceComponents
  <2>3. IsFiniteSet(DOMAIN ledger)  BY DEF IsLedger
  <2>4. \A i \in DOMAIN ledger : f[i] \in Int /\ g[i] \in Int  BY <1>1, <1>5, <2>2
  <2>5. ASSUME NEW i \in DOMAIN ledger, i # last
        PROVE  f[i] = g[i]
    <3>1. l[i].volume = ledger[i].volume  BY <1>1, <2>2, <2>5
    <3> QED BY <3>1, <1>1
  <2>6. f[last] = (ledger[last].volume + delta) * price  BY <1>1, <2>1
  <2>7. g[last] = ledger[last].volume * price  BY <2>1
  <2>8. f[last] - g[last] = delta * price
    <3> DEFINE v == ledger[last].volume
    <3>1. v \in Int /\ price \in Int  BY <2>1, <2>2
    <3> HIDE DEF v, price
    <3>2. (v + delta) * price - v * price = delta * price  BY <3>1, <1>2
    <3> QED BY <2>6, <2>7, <3>2 DEF v
  <2>9. SumFunction(f) = SumFunctionOnSet(f, DOMAIN ledger)
        /\ SumFunction(g) = SumFunctionOnSet(g, DOMAIN ledger)
    BY <1>1 DEF SumFunction
  <2>10. Raw(ledger) = SumFunction(g) /\ Raw(ledger) \in Int  BY RawTyped DEF Raw
  <2> HIDE DEF f, g, last
  <2>11. SumFunctionOnSet(f, DOMAIN ledger) - f[last] = SumFunctionOnSet(g, DOMAIN ledger) - g[last]
    BY <2>1, <2>3, <2>4, <2>5, SumWithOneChange
  <2>12. f[last] \in Int /\ g[last] \in Int  BY <2>1, <2>4
  <2> DEFINE R == Raw(ledger)
             T == Raw(l)
             dp == delta * price
  <2>13. T - f[last] = R - g[last] /\ f[last] - g[last] = dp /\ R \in Int /\ T \in Int
    BY <1>6, <2>8, <2>9, <2>10, <2>11
  <2>14. dp \in Int  BY <2>8, <2>12
  <2> HIDE DEF R, T, dp
  <2>15. T = R + dp  BY <2>12, <2>13, <2>14
  <2> QED BY <2>15 DEF R, T, dp
<1> QED BY <1>7, <1>9, <1>10, <1>11 DEF l, delta

\* The fees of a session are finitely many.
LEMMA FlatsTyped ==
    ASSUME NEW ps \in Seq(Periods), NEW act, IsActive(act, ps)
    PROVE  IsFiniteSet(Flats(act)) /\ Flats(act) \subseteq MatchTypes
<1> DEFINE D == DOMAIN ps
           fees == [i \in D |-> act[i]["FLAT"]]
           F == {act[i]["FLAT"] : i \in D}
<1>1. DOMAIN act = D /\ \A i \in D : act[i]["FLAT"] \in Opt(MatchTypes)
  BY DEF IsActive, Dims
<1>2. IsFiniteSet(D)  BY PlacesAreFinite
<1>3. Flats(act) = UNION F  BY <1>1 DEF Flats
<1>4. IsFiniteSet(F)
  <2>1. fees \in Surjection(D, F)  BY DEF Surjection
  <2> HIDE DEF fees, F, D
  <2> QED BY <1>2, <2>1, FS_Surjection
<1>5. \A s \in F : IsFiniteSet(s) /\ s \subseteq MatchTypes
  <2>1. \A s \in F : s \in Opt(MatchTypes)  BY <1>1
  <2> HIDE DEF F
  <2> QED BY <2>1, OptFacts
<1> HIDE DEF F
<1>6. IsFiniteSet(UNION F)  BY <1>4, <1>5, FS_UNION
<1> QED BY <1>3, <1>5, <1>6

\* priceFlatDimension.
LEMMA FlatCostTyped ==
    ASSUME NEW flats, IsFiniteSet(flats), flats \subseteq MatchTypes
    PROVE  /\ FlatCost(flats) \in Moneys
           /\ FlatCost(flats).before = SumFunctionOnSet([fee \in flats |-> fee.comp.price], flats)
<1> DEFINE f == [fee \in flats |-> fee.comp.price]
           entries == [fee \in flats |-> [before |-> fee.comp.price, taxes |-> fee.comp.taxes]]
<1>1. \A fee \in flats : fee.comp.price \in Int /\ fee.comp.taxes \in Seq(TaxAmounts)
  BY DEF MatchTypes, PriceComponents
<1>2. SumFunction(f) = SumFunctionOnSet(f, flats)  BY DEF SumFunction
<1>3. SumFunctionOnSet(f, flats) \in Int
  <2>1. \A x \in flats : f[x] \in Int  BY <1>1
  <2> HIDE DEF f
  <2> QED BY <2>1, SumIsInt
<1>4. FlatCost(flats) = DimensionMoney(SumFunction(f), entries)  BY DEF FlatCost
<1>5. DOMAIN entries = flats /\ \A i \in flats : entries[i] \in Entries  BY <1>1 DEF Entries
<1> HIDE DEF f, entries
<1>6. FlatCost(flats) \in Moneys  BY <1>2, <1>3, <1>4, <1>5, DimensionMoneyTyped
<1>7. FlatCost(flats).before = SumFunction(f)  BY <1>4 DEF DimensionMoney
<1> QED BY <1>2, <1>6, <1>7 DEF f

\* There are four dimensions.
LEMMA DimsAreFinite == IsFiniteSet(Dims)
<1>1. IsFiniteSet({"ENERGY"} \cup {"TIME"} \cup {"PARKING_TIME"} \cup {"FLAT"})
  BY FS_Singleton, FS_Union
<1>2. Dims = {"ENERGY"} \cup {"TIME"} \cup {"PARKING_TIME"} \cup {"FLAT"}  BY DEF Dims, Volumed
<1> QED BY <1>1, <1>2

\* The sum of the dimensions.
LEMMA UnclampedTyped ==
    ASSUME NEW cost \in [Dims -> Moneys]
    PROVE  /\ Unclamped(cost) \in Moneys
           /\ Unclamped(cost).before = SumFunction([d \in Dims |-> cost[d].before])
<1> DEFINE counted == {d \in Dims : cost[d] # NoMoney}
           f == [d \in Dims |-> cost[d].before]
           g == [d \in counted |-> CHOOSE x \in AfterTax(cost[d]) : TRUE]
           after == IF \E d \in counted : AfterTax(cost[d]) = {} THEN {} ELSE {SumFunction(g)}
<1>1. Unclamped(cost) = [before |-> SumFunction(f), taxes |-> <<>>, after |-> after]
  BY DEF Unclamped
<1>2. SumFunction(f) \in Int
  <2>1. DOMAIN f = Dims /\ \A d \in Dims : f[d] \in Int  BY DEF Moneys
  <2> HIDE DEF f
  <2> QED BY <2>1, DimsAreFinite, SumIsInt DEF SumFunction
<1>3. after \in Opt(Int)
  <2>1. CASE \E d \in counted : AfterTax(cost[d]) = {}
    <3>1. after = {}  BY <2>1
    <3> HIDE DEF after
    <3> QED BY <3>1 DEF Opt
  <2>2. CASE ~ \E d \in counted : AfterTax(cost[d]) = {}
    <3>1. \A d \in counted : g[d] \in Int
      <4> SUFFICES ASSUME NEW d \in counted PROVE g[d] \in Int  OBVIOUS
      <4>1. AfterTax(cost[d]) \in Opt(Int) /\ AfterTax(cost[d]) # {}
        BY <2>2, AfterTaxIsOpt
      <4> QED BY <4>1, OptFacts
    <3>2. DOMAIN g = counted /\ IsFiniteSet(counted)
      <4>1. counted \in SUBSET Dims  OBVIOUS
      <4> QED BY <4>1, DimsAreFinite, FS_Subset
    <3>3. after = {SumFunction(g)}  BY <2>2
    <3> HIDE DEF g, counted, after
    <3>4. SumFunction(g) \in Int  BY <3>1, <3>2, SumIsInt DEF SumFunction
    <3> QED BY <3>3, <3>4 DEF Opt
  <2> QED BY <2>1, <2>2
<1> HIDE DEF f, after
<1>4. [before |-> SumFunction(f), taxes |-> <<>>, after |-> after] \in Moneys
  BY <1>2, <1>3 DEF Moneys
<1> QED BY <1>1, <1>4 DEF f

\* The bounds: the total is the sum, or one of the bounds of the one tariff.
BoundsOf(tariffs, used) == UNION {tariffs[t].minPrice \cup tariffs[t].maxPrice : t \in used}

\* The total is the sum of the dimensions, or the bound it was clamped to of the
\* one tariff in use (applyMinMax).
LEMMA TotalCostFacts ==
    ASSUME NEW in \in Inputs, NEW used \in SUBSET DOMAIN in.tariffs, NEW cost
    PROVE  LET sum == Unclamped(cost)
               total == TotalCost(in, used, cost)
               below(t) == {m \in in.tariffs[t].minPrice : sum.before < m.before}
               above(t) == {m \in in.tariffs[t].maxPrice : sum.before > m.before}
           IN  \/ total = sum /\ Cardinality(used) # 1
               \/ \E t \in used :
                    /\ used = {t}
                    /\ \/ below(t) # {} /\ total \in below(t)
                       \/ below(t) = {} /\ above(t) # {} /\ total \in above(t)
                       \/ below(t) = {} /\ above(t) = {} /\ total = sum
<1> DEFINE sum == Unclamped(cost)
           total == TotalCost(in, used, cost)
           below(t) == {m \in in.tariffs[t].minPrice : sum.before < m.before}
           above(t) == {m \in in.tariffs[t].maxPrice : sum.before > m.before}
           Below == UNION {below(t) : t \in used}
           Above == UNION {above(t) : t \in used}
<1>1. total = IF Cardinality(used) # 1 THEN sum
              ELSE IF Below # {} THEN CHOOSE m \in Below : TRUE
              ELSE IF Above # {} THEN CHOOSE m \in Above : TRUE
              ELSE sum
  BY DEF TotalCost
<1>2. CASE Cardinality(used) # 1  BY <1>1, <1>2
<1>3. CASE Cardinality(used) = 1
  <2>1. IsFiniteSet(used)
    <3>1. IsFiniteSet(DOMAIN in.tariffs)  BY PlacesAreFinite DEF Inputs
    <3> QED BY <3>1, FS_Subset
  <2>2. PICK t \in used : used = {t}  BY <2>1, <1>3, FS_Singleton
  <2>3. Below = below(t) /\ Above = above(t)  BY <2>2
  <2> HIDE DEF Below, Above, below, above, sum, total
  <2>4. \/ below(t) # {} /\ total \in below(t)
        \/ below(t) = {} /\ above(t) # {} /\ total \in above(t)
        \/ below(t) = {} /\ above(t) = {} /\ total = sum
    BY <1>1, <1>3, <2>3
  <2> QED BY <2>2, <2>4 DEF below, above, sum, total
<1> QED BY <1>2, <1>3

\* The total is an amount of money.
LEMMA TotalCostTyped ==
    ASSUME NEW in \in Inputs, NEW used \in SUBSET DOMAIN in.tariffs, NEW cost \in [Dims -> Moneys]
    PROVE  TotalCost(in, used, cost) \in Moneys
<1>1. Unclamped(cost) \in Moneys  BY UnclampedTyped
<1>2. \A t \in used : in.tariffs[t].minPrice \subseteq Moneys /\ in.tariffs[t].maxPrice \subseteq Moneys
  <2> SUFFICES ASSUME NEW t \in used
               PROVE in.tariffs[t].minPrice \subseteq Moneys /\ in.tariffs[t].maxPrice \subseteq Moneys
    OBVIOUS
  <2>1. in.tariffs \in Seq(Tariffs)  BY DEF Inputs
  <2>2. in.tariffs[t] \in Tariffs  BY <2>1, PlacesAreFinite
  <2> QED BY <2>2, OptFacts DEF Tariffs
<1> DEFINE total == TotalCost(in, used, cost)
           sum == Unclamped(cost)
<1>3. total = sum \/ \E t \in used : total \in in.tariffs[t].minPrice \cup in.tariffs[t].maxPrice
  BY TotalCostFacts
<1> HIDE DEF total, sum
<1> QED BY <1>1, <1>2, <1>3 DEF total, sum

\* roundCurrency gives a number.
LEMMA RoundCurrencyTyped ==
    ASSUME NEW x \in Int, NEW unit \in Nat \ {0}
    PROVE  RoundCurrency(x, unit) \in Int
<1>1. 2 * unit \in Nat \ {0} /\ 2 * x + unit \in Int /\ unit - 2 * x \in Int  OBVIOUS
<1>2. (2 * x + unit) \div (2 * unit) \in Int /\ (unit - 2 * x) \div (2 * unit) \in Int
  BY <1>1, DivisionFacts
<1> DEFINE q == (2 * x + unit) \div (2 * unit)
           r == (unit - 2 * x) \div (2 * unit)
<1>3. RoundCurrency(x, unit) = IF x >= 0 THEN q * unit ELSE -(r * unit)
  BY DEF RoundCurrency
<1>4. q \in Int /\ r \in Int  BY <1>2
<1> HIDE DEF q, r
<1> QED BY <1>3, <1>4

\* roundMoney gives an amount.
LEMMA RoundMoneyTyped ==
    ASSUME NEW m \in Moneys, NEW unit \in Nat \ {0}
    PROVE  RoundMoney(m, unit) \in Moneys
<1> DEFINE after == {RoundCurrency(x, 100 * unit) : x \in m.after}
           tax(i) == IF m.taxes[i].kind = "amount"
                     THEN [m.taxes[i] EXCEPT !.value = RoundCurrency(@, 100 * unit)]
                     ELSE m.taxes[i]
           taxes == [i \in DOMAIN m.taxes |-> tax(i)]
<1>1. RoundMoney(m, unit) = [before |-> RoundCurrency(m.before, unit), after |-> after, taxes |-> taxes]
  BY DEF RoundMoney
<1>2. 100 * unit \in Nat \ {0}  OBVIOUS
<1>3. m.before \in Int /\ m.taxes \in Seq(TaxAmounts) /\ m.after \in Opt(Int)  BY DEF Moneys
<1>4. RoundCurrency(m.before, unit) \in Int  BY <1>3, RoundCurrencyTyped
<1>5. after \in Opt(Int)
  <2>1. \A x \in m.after : x \in Int  BY <1>3 DEF Opt
  <2>2. \A x \in m.after : RoundCurrency(x, 100 * unit) \in Int
    BY <1>2, <2>1, RoundCurrencyTyped
  <2>3. \A x, y \in m.after : x = y  BY <1>3 DEF Opt
  <2> QED BY <2>2, <2>3 DEF Opt
<1>6. taxes \in Seq(TaxAmounts)
  <2>1. \A i \in DOMAIN m.taxes : tax(i) \in TaxAmounts
    <3> SUFFICES ASSUME NEW i \in DOMAIN m.taxes PROVE tax(i) \in TaxAmounts  OBVIOUS
    <3>1. m.taxes[i] \in TaxAmounts  BY <1>3
    <3>2. RoundCurrency(m.taxes[i].value, 100 * unit) \in Int
      BY <1>2, <3>1, RoundCurrencyTyped DEF TaxAmounts
    <3>3. [m.taxes[i] EXCEPT !.value = RoundCurrency(@, 100 * unit)] \in TaxAmounts
      BY <3>1, <3>2 DEF TaxAmounts
    <3> QED BY <3>1, <3>3
  <2>2. DOMAIN m.taxes = 1 .. Len(m.taxes) /\ Len(m.taxes) \in Nat  BY <1>3
  <2> HIDE DEF tax
  <2> QED BY <2>1, <2>2
<1> HIDE DEF after, taxes
<1> QED BY <1>1, <1>4, <1>5, <1>6 DEF Moneys

-----------------------------------------------------------------------------
(* Calculate, its intermediate results named.                               *)

PeriodsOf(in) == SortedPeriods(in.periods)
ZoneOf(in, o) == CHOOSE x \in ResolveZone(in, o) : TRUE
ActiveOf(in, o) == Active(in, PeriodsOf(in), ZoneOf(in, o))
LedgerOf(in, o, d) == Ledger(PeriodsOf(in), ActiveOf(in, o), d)
IdleOf(in, o) == HasIdleStep(PeriodsOf(in), ActiveOf(in, o))
UsedBy(in) == UsedTariffs(PeriodsOf(in))
CostOf(in, o) ==
    [d \in Dims |-> IF d = "FLAT" THEN FlatCost(Flats(ActiveOf(in, o)))
                    ELSE SessionCost(d, LedgerOf(in, o, d), IdleOf(in, o))]
TotalOf(in, o) == TotalCost(in, UsedBy(in), CostOf(in, o))
RoundedTo(m, o) == IF o.precision = {} THEN m
                   ELSE RoundMoney(m, CHOOSE u \in o.precision : TRUE)
Refused(in, o) == ~ Valid(in) \/ ResolveZone(in, o) = {}
StepRefused(in, o) == \E d \in Volumed : StepFails(d, LedgerOf(in, o, d), IdleOf(in, o))
WarningsOf(in, o) ==
    Warnings(in, o, PeriodsOf(in),
        [by |-> ActiveOf(in, o),
         snap |-> Snapshots(in.start, in.end, PeriodsOf(in), ZoneOf(in, o))],
        [d \in Volumed |-> LedgerOf(in, o, d)], UsedBy(in))

\* Calculate refuses its input, or refuses a step, or answers with the costs of
\* the dimensions and their total.
LEMMA CalculateFacts ==
    ASSUME NEW in, NEW o
    PROVE  /\ Refused(in, o) => Calculate(in, o) = NoReport("invalid")
           /\ ~ Refused(in, o) /\ StepRefused(in, o) => Calculate(in, o) = NoReport("step")
           /\ ~ Refused(in, o) /\ ~ StepRefused(in, o) =>
                Calculate(in, o) =
                    [error |-> "none",
                     cost  |-> [d \in Dims |-> RoundedTo(CostOf(in, o)[d], o)],
                     total |-> RoundedTo(TotalOf(in, o), o),
                     volume |-> [d \in Dims |->
                         IF d = "FLAT" THEN Cardinality(Flats(ActiveOf(in, o)))
                         ELSE TotalVolume(LedgerOf(in, o, d))],
                     warnings |-> WarningsOf(in, o)]
<1> DEFINE ledger == [d \in Volumed |-> LedgerOf(in, o, d)]
           cost == [d \in Dims |-> IF d = "FLAT" THEN FlatCost(Flats(ActiveOf(in, o)))
                                   ELSE SessionCost(d, ledger[d], IdleOf(in, o))]
           volume == [d \in Dims |-> IF d = "FLAT" THEN Cardinality(Flats(ActiveOf(in, o)))
                                     ELSE TotalVolume(ledger[d])]
<1>1. Calculate(in, o) =
        IF Refused(in, o) THEN NoReport("invalid")
        ELSE IF \E d \in Volumed : StepFails(d, ledger[d], IdleOf(in, o)) THEN NoReport("step")
        ELSE [error |-> "none", cost |-> [d \in Dims |-> RoundedTo(cost[d], o)],
              total |-> RoundedTo(TotalCost(in, UsedBy(in), cost), o),
              volume |-> volume, warnings |-> WarningsOf(in, o)]
  BY Zenon DEF Calculate, Refused, PeriodsOf, ZoneOf, ActiveOf, LedgerOf, IdleOf, UsedBy, RoundedTo,
         WarningsOf
<1>2. \A d \in Volumed : ledger[d] = LedgerOf(in, o, d)  OBVIOUS
<1>3. \A d \in Dims : d # "FLAT" => d \in Volumed  BY DEF Dims
<1>4. cost = CostOf(in, o)  BY <1>2, <1>3 DEF CostOf
<1>5. volume = [d \in Dims |-> IF d = "FLAT" THEN Cardinality(Flats(ActiveOf(in, o)))
                               ELSE TotalVolume(LedgerOf(in, o, d))]
  BY <1>2, <1>3
<1>6. (\E d \in Volumed : StepFails(d, ledger[d], IdleOf(in, o))) <=> StepRefused(in, o)
  BY <1>2 DEF StepRefused
<1> HIDE DEF cost, volume, ledger
<1> QED BY <1>1, <1>4, <1>5, <1>6 DEF TotalOf

\* What a bill depends on: not on the totals a CDR reports, nor on what was
\* noticed when it was read; the warnings depend on the latter too.
SamePricing(a, b) ==
    /\ a.start = b.start /\ a.end = b.end /\ a.tariffs = b.tariffs
    /\ a.countryZone = b.countryZone /\ PeriodsOf(a) = PeriodsOf(b)
    /\ Valid(a) <=> Valid(b)

\* The costs depend on nothing of an input but what SamePricing lists.
LEMMA PricingDependsOn ==
    ASSUME NEW a, NEW b, SamePricing(a, b), NEW o
    PROVE  /\ Calculate(a, o).error = Calculate(b, o).error
           /\ Calculate(a, o).cost = Calculate(b, o).cost
           /\ Calculate(a, o).total = Calculate(b, o).total
           /\ a.warnings = b.warnings => Calculate(a, o) = Calculate(b, o)
<1>1. /\ a.start = b.start /\ a.end = b.end /\ a.tariffs = b.tariffs
      /\ a.countryZone = b.countryZone /\ PeriodsOf(a) = PeriodsOf(b)
      /\ Valid(a) <=> Valid(b)
  BY DEF SamePricing
<1>2. ResolveZone(a, o) = ResolveZone(b, o)  BY <1>1 DEF ResolveZone
<1>3. ZoneOf(a, o) = ZoneOf(b, o)  BY <1>2 DEF ZoneOf
<1>4. Refused(a, o) <=> Refused(b, o)  BY <1>1, <1>2 DEF Refused
<1>5. ActiveOf(a, o) = ActiveOf(b, o)
  <2> DEFINE F(ts, start, end, ps, zone) ==
               LET snap == Snapshots(start, end, ps, zone)
               IN  [i \in DOMAIN ps |->
                      IF ps[i].tariff = {} THEN [d \in Dims |-> {}]
                      ELSE ActiveComponents(ts, CHOOSE t \in ps[i].tariff : TRUE, snap[i - 1], ps[i])]
  <2>1. \A in, ps, zone : Active(in, ps, zone) = F(in.tariffs, in.start, in.end, ps, zone)
    BY Zenon DEF Active
  <2> HIDE DEF F
  <2> QED BY <2>1, <1>1, <1>3 DEF ActiveOf
<1>6. /\ \A d \in Volumed : LedgerOf(a, o, d) = LedgerOf(b, o, d)
      /\ IdleOf(a, o) = IdleOf(b, o) /\ UsedBy(a) = UsedBy(b)
  BY <1>1, <1>5, Zenon DEF LedgerOf, IdleOf, UsedBy
<1>7. StepRefused(a, o) <=> StepRefused(b, o)  BY <1>6 DEF StepRefused
<1>8. CostOf(a, o) = CostOf(b, o)
  <2>1. \A d \in Dims : d # "FLAT" => d \in Volumed  BY DEF Dims
  <2> DEFINE c(x) == [d \in Dims |-> IF d = "FLAT" THEN FlatCost(Flats(ActiveOf(x, o)))
                                     ELSE SessionCost(d, LedgerOf(x, o, d), IdleOf(x, o))]
  <2>2. c(a) = c(b)  BY <2>1, <1>5, <1>6
  <2> QED BY <2>2 DEF CostOf
<1>9. TotalOf(a, o) = TotalOf(b, o)
  <2> DEFINE F(ts, used, cost) ==
               LET sum == Unclamped(cost)
                   below == UNION {{m \in ts[t].minPrice : sum.before < m.before} : t \in used}
                   above == UNION {{m \in ts[t].maxPrice : sum.before > m.before} : t \in used}
               IN  IF Cardinality(used) # 1 THEN sum
                   ELSE IF below # {} THEN CHOOSE m \in below : TRUE
                   ELSE IF above # {} THEN CHOOSE m \in above : TRUE
                   ELSE sum
  <2>1. \A in, used, cost : TotalCost(in, used, cost) = F(in.tariffs, used, cost)
    BY Zenon DEF TotalCost
  <2> HIDE DEF F
  <2> QED BY <2>1, <1>1, <1>6, <1>8 DEF TotalOf
<1> DEFINE V(x) == [d \in Dims |-> IF d = "FLAT" THEN Cardinality(Flats(ActiveOf(x, o)))
                                   ELSE TotalVolume(LedgerOf(x, o, d))]
           R(x) == [error |-> "none", cost |-> [d \in Dims |-> RoundedTo(CostOf(x, o)[d], o)],
                    total |-> RoundedTo(TotalOf(x, o), o), volume |-> V(x),
                    warnings |-> WarningsOf(x, o)]
<1>10. V(a) = V(b)
  <2>1. \A d \in Dims : d # "FLAT" => d \in Volumed  BY DEF Dims
  <2> QED BY <2>1, <1>5, <1>6
<1>11. a.warnings = b.warnings => WarningsOf(a, o) = WarningsOf(b, o)
  <2> DEFINE L(x) == [d \in Volumed |-> LedgerOf(x, o, d)]
             A(x) == [by |-> ActiveOf(x, o),
                      snap |-> Snapshots(x.start, x.end, PeriodsOf(x), ZoneOf(x, o))]
  <2>1. L(a) = L(b)  BY <1>6
  <2>2. A(a) = A(b)  BY <1>1, <1>3, <1>5
  <2>3. \A x : WarningsOf(x, o) = Warnings(x, o, PeriodsOf(x), A(x), L(x), UsedBy(x))
    BY DEF WarningsOf
  <2>4. TariffWindowWarnings(a, UsedBy(a)) = TariffWindowWarnings(b, UsedBy(a))
    BY <1>1, Zenon DEF TariffWindowWarnings
  <2> HIDE DEF A, L
  <2>5. a.warnings = b.warnings =>
          Warnings(a, o, PeriodsOf(a), A(a), L(a), UsedBy(a))
            = Warnings(b, o, PeriodsOf(a), A(a), L(a), UsedBy(a))
    BY <1>1, <2>4, Zenon DEF Warnings
  <2> QED BY <2>1, <2>2, <2>3, <2>5, <1>1, <1>6
<1> HIDE DEF V
<1>12. CASE Refused(a, o)  BY <1>4, <1>12, CalculateFacts
<1>13. CASE ~ Refused(a, o) /\ StepRefused(a, o)  BY <1>4, <1>7, <1>13, CalculateFacts
<1>14. CASE ~ Refused(a, o) /\ ~ StepRefused(a, o)
  <2>1. Calculate(a, o) = R(a)  BY <1>14, CalculateFacts DEF V
  <2>2. Calculate(b, o) = R(b)  BY <1>4, <1>7, <1>14, CalculateFacts DEF V
  <2> QED BY <2>1, <2>2, <1>8, <1>9, <1>10, <1>11
<1> QED BY <1>12, <1>13, <1>14

\* A valid session's periods refer to tariffs there are, in whatever order.
LEMMA ValidInputs ==
    ASSUME NEW in \in Inputs, Valid(in), NEW o
    PROVE  /\ PeriodsOf(in) \in Seq(Periods) /\ InOrder(PeriodsOf(in))
           /\ UsedBy(in) \subseteq DOMAIN in.tariffs
           /\ \A i \in DOMAIN PeriodsOf(in) : PeriodsOf(in)[i].tariff \subseteq DOMAIN in.tariffs
           /\ IsActive(ActiveOf(in, o), PeriodsOf(in))
<1> DEFINE ps == in.periods
           qs == PeriodsOf(in)
<1>1. ps \in Seq(Periods)  BY DEF Inputs
<1>2. qs \in Seq(Periods) /\ InOrder(qs) /\ {qs[i] : i \in DOMAIN qs} = {ps[i] : i \in DOMAIN ps}
  <2> HIDE DEF ps
  <2> QED BY <1>1, SortedPeriodsTyped DEF PeriodsOf, ps
<1>3. \A i \in DOMAIN ps : ps[i].tariff \subseteq DOMAIN in.tariffs  BY DEF Valid
<1> HIDE DEF qs, ps
<1>4. \A i \in DOMAIN qs : qs[i].tariff \subseteq DOMAIN in.tariffs
  <2> SUFFICES ASSUME NEW i \in DOMAIN qs PROVE qs[i].tariff \subseteq DOMAIN in.tariffs  OBVIOUS
  <2>1. qs[i] \in {ps[j] : j \in DOMAIN ps}  BY <1>2
  <2> QED BY <2>1, <1>3
<1>5. UsedTariffs(qs) \subseteq DOMAIN in.tariffs  BY <1>4 DEF UsedTariffs
<1>6. IsActive(Active(in, qs, ZoneOf(in, o)), qs)  BY <1>2, <1>4, ActiveTyped
<1> QED BY <1>2, <1>4, <1>5, <1>6 DEF qs, UsedBy, ActiveOf

\* The same periods, in any order, make a session as valid.
LEMMA ValidInAnyOrder ==
    ASSUME NEW a, NEW b, a.tariffs = b.tariffs, a.currency = b.currency,
           {a.periods[i] : i \in DOMAIN a.periods} = {b.periods[i] : i \in DOMAIN b.periods}
    PROVE  Valid(a) <=> Valid(b)
<1> DEFINE P(in) == {in.periods[i] : i \in DOMAIN in.periods}
           OK(in) == /\ in.tariffs # <<>>
                     /\ \A t \in DOMAIN in.tariffs :
                          /\ in.tariffs[t].elements # <<>>
                          /\ in.tariffs[t].currency = in.currency
                          /\ \A e \in DOMAIN in.tariffs[t].elements :
                                LET cs == in.tariffs[t].elements[e].components
                                IN  \A j \in DOMAIN cs :
                                       /\ cs[j].type = "ENERGY" => cs[j].step >= 0
                                       /\ cs[j].type \in {"TIME", "PARKING_TIME"} => cs[j].step > 0
           Fits(p, in) == p.tariff \subseteq DOMAIN in.tariffs
                          /\ \A v \in p.volume["ENERGY"] : v >= 0
<1>1. \A in : Valid(in) <=> OK(in) /\ \A p \in P(in) : Fits(p, in)
  <2> SUFFICES ASSUME NEW in PROVE Valid(in) <=> OK(in) /\ \A p \in P(in) : Fits(p, in)
    OBVIOUS
  <2>1. (\A p \in P(in) : Fits(p, in)) <=> \A i \in DOMAIN in.periods : Fits(in.periods[i], in)
    <3> HIDE DEF Fits
    <3> QED OBVIOUS
  <2>2. Valid(in) <=> OK(in) /\ \A i \in DOMAIN in.periods : Fits(in.periods[i], in)
    BY Zenon DEF Valid
  <2> HIDE DEF OK, P, Fits
  <2> QED BY <2>1, <2>2
<1>2. OK(a) <=> OK(b)  BY Zenon
<1>3. \A p : Fits(p, a) <=> Fits(p, b)  OBVIOUS
<1>4. P(a) = P(b)  OBVIOUS
<1> HIDE DEF OK, P, Fits
<1> QED BY <1>1, <1>2, <1>3, <1>4

\* What is computed for a session are amounts.
LEMMA CostsTyped ==
    ASSUME NEW in \in Inputs, NEW o, ~ Refused(in, o), ~ StepRefused(in, o)
    PROVE  /\ CostOf(in, o) \in [Dims -> Moneys]
           /\ TotalOf(in, o) \in Moneys
           /\ \A d \in Volumed : CostOf(in, o)[d] = SessionCost(d, LedgerOf(in, o, d), IdleOf(in, o))
<1> DEFINE ps == PeriodsOf(in)
           act == ActiveOf(in, o)
<1>1. Valid(in)  BY DEF Refused
<1>2. /\ ps \in Seq(Periods) /\ IsActive(act, ps)
      /\ UsedBy(in) \subseteq DOMAIN in.tariffs
  BY <1>1, ValidInputs
<1> HIDE DEF ps, act
<1>3. \A d \in Volumed : IsLedger(Ledger(ps, act, d))  BY <1>2, LedgerTyped
<1>4. \A d \in Volumed : SessionCost(d, LedgerOf(in, o, d), IdleOf(in, o)) \in Moneys
  BY <1>3, SessionCostFacts DEF StepRefused, LedgerOf, ps, act
<1>5. FlatCost(Flats(act)) \in Moneys  BY <1>2, FlatsTyped, FlatCostTyped
<1> DEFINE c(d) == IF d = "FLAT" THEN FlatCost(Flats(act))
                   ELSE SessionCost(d, LedgerOf(in, o, d), IdleOf(in, o))
<1>6. CostOf(in, o) = [d \in Dims |-> c(d)]  BY DEF CostOf, act
<1>7. \A d \in Dims : c(d) \in Moneys  BY <1>4, <1>5 DEF Dims
<1>8. \A d \in Volumed : d \in Dims /\ c(d) = SessionCost(d, LedgerOf(in, o, d), IdleOf(in, o))
  BY DEF Dims, Volumed
<1> HIDE DEF c
<1>9. CostOf(in, o) \in [Dims -> Moneys]  BY <1>6, <1>7
<1>10. TotalOf(in, o) \in Moneys  BY <1>2, <1>9, TotalCostTyped DEF TotalOf
<1> QED BY <1>6, <1>8, <1>9, <1>10

\* Calculate's report carries amounts, or an error and none.
THEOREM ReportsAreTyped ==
    ASSUME NEW in \in Inputs, NEW o \in EngineOptions
    PROVE  /\ Calculate(in, o).cost \in [Dims -> Moneys]
           /\ Calculate(in, o).total \in Moneys
           /\ Calculate(in, o).error = "none" <=> ~ Refused(in, o) /\ ~ StepRefused(in, o)
<1>1. [d \in Dims |-> NoMoney] \in [Dims -> Moneys]  BY NoMoneyTyped
<1>2. ASSUME NEW e \in {"invalid", "step"}, Calculate(in, o) = NoReport(e)
      PROVE  /\ Calculate(in, o).cost \in [Dims -> Moneys]
             /\ Calculate(in, o).total \in Moneys
             /\ Calculate(in, o).error # "none"
  BY <1>1, <1>2, NoMoneyTyped DEF NoReport
<1>3. CASE Refused(in, o)  BY <1>2, <1>3, CalculateFacts
<1>4. CASE ~ Refused(in, o) /\ StepRefused(in, o)  BY <1>2, <1>4, CalculateFacts
<1>5. CASE ~ Refused(in, o) /\ ~ StepRefused(in, o)
  <2>1. CostOf(in, o) \in [Dims -> Moneys] /\ TotalOf(in, o) \in Moneys
    BY <1>5, CostsTyped
  <2>2. \A m \in Moneys : RoundedTo(m, o) \in Moneys
    <3>1. o.precision \in Opt(Nat \ {0})  BY DEF EngineOptions
    <3> DEFINE u == CHOOSE x \in o.precision : TRUE
    <3>2. o.precision # {} => u \in Nat \ {0}
      <4> DEFINE q == o.precision
      <4>1. q \in Opt(Nat \ {0})  BY <3>1
      <4> HIDE DEF q
      <4>2. q # {} => (CHOOSE x \in q : TRUE) \in Nat \ {0}  BY <4>1, OptFacts
      <4> QED BY <4>2 DEF q
    <3>3. \A m : RoundedTo(m, o) = IF o.precision = {} THEN m ELSE RoundMoney(m, u)
      BY DEF RoundedTo
    <3> HIDE DEF u
    <3> QED BY <3>2, <3>3, RoundMoneyTyped
  <2>3. [d \in Dims |-> RoundedTo(CostOf(in, o)[d], o)] \in [Dims -> Moneys]
    BY <2>1, <2>2
  <2>4. RoundedTo(TotalOf(in, o), o) \in Moneys  BY <2>1, <2>2
  <2> QED BY <1>5, <2>3, <2>4, CalculateFacts
<1> QED BY <1>3, <1>4, <1>5

\* The instant at which period i ends.
EndOfPeriod(ps, i, end) == IF i < Len(ps) THEN ps[i + 1].start ELSE end

\* The snapshot at a period's end is that at its start, advanced by the period.
LEMMA SnapshotsUnfold ==
    ASSUME NEW start, NEW end, NEW ps, Len(ps) \in Nat, NEW zone
    PROVE  /\ Snapshots(start, end, ps, zone)[0] = NewSnapshot(start, zone)
           /\ \A i \in 1 .. Len(ps) :
                Snapshots(start, end, ps, zone)[i] =
                    Advance(Snapshots(start, end, ps, zone)[i - 1], ps[i], EndOfPeriod(ps, i, end))
<1> DEFINE n == Len(ps)
           body(i, f) == IF i = 0 THEN NewSnapshot(start, zone)
                         ELSE Advance(f[i - 1], ps[i], EndOfPeriod(ps, i, end))
           B == {m \in Nat : \E f : f = [i \in 0 .. m |-> body(i, f)]}
           snap == Snapshots(start, end, ps, zone)
<1>1. 0 \in B
  <2> DEFINE f == [i \in 0 .. 0 |-> NewSnapshot(start, zone)]
  <2>1. f = [i \in 0 .. 0 |-> body(i, f)]  OBVIOUS
  <2> HIDE DEF f, body
  <2> QED BY <2>1
<1>2. ASSUME NEW m \in Nat, m \in B
      PROVE  m + 1 \in B
  <2>1. PICK f : f = [i \in 0 .. m |-> body(i, f)]  BY <1>2
  <2> DEFINE g == [i \in 0 .. m + 1 |-> body(i, f)]
  <2>2. ASSUME NEW i \in 0 .. m + 1
        PROVE  g[i] = body(i, g)
    <3>1. CASE i = 0  BY <3>1
    <3>2. CASE i # 0
      <4>1. i - 1 \in 0 .. m /\ i - 1 \in 0 .. m + 1  BY <3>2
      <4>2. f[i - 1] = body(i - 1, f)
        <5> HIDE DEF body
        <5> QED BY <2>1, <4>1
      <4>3. g[i - 1] = body(i - 1, f) /\ g[i] = body(i, f)
        <5> HIDE DEF body
        <5> QED BY <4>1
      <4>4. f[i - 1] = g[i - 1]  BY <4>2, <4>3
      <4> HIDE DEF g
      <4>5. body(i, f) = body(i, g)  BY <3>2, <4>4
      <4> QED BY <4>3, <4>5
    <3> QED BY <3>1, <3>2
  <2>3. g = [i \in 0 .. m + 1 |-> g[i]]
    <3> HIDE DEF body
    <3> QED OBVIOUS
  <2> HIDE DEF g, body
  <2>4. g = [i \in 0 .. m + 1 |-> body(i, g)]  BY <2>2, <2>3
  <2> QED BY <2>4
<1> HIDE DEF B
<1>3. n \in B  BY <1>1, <1>2, NatSetInduction
<1>4. snap = CHOOSE f : f = [i \in 0 .. n |-> body(i, f)]
  BY DEF Snapshots, EndOfPeriod
<1> HIDE DEF body
<1>5. \E f : f = [i \in 0 .. n |-> body(i, f)]  BY <1>3 DEF B
<1> HIDE DEF snap
<1>6. snap = [i \in 0 .. n |-> body(i, snap)]  BY <1>4, <1>5
<1>7. \A i \in 0 .. n : snap[i] = body(i, snap)  BY <1>6
<1>8. snap[0] = NewSnapshot(start, zone)  BY <1>7 DEF body
<1>9. ASSUME NEW i \in 1 .. n
      PROVE  snap[i] = Advance(snap[i - 1], ps[i], EndOfPeriod(ps, i, end))
  <2>1. i \in 0 .. n /\ i # 0  OBVIOUS
  <2> QED BY <1>7, <2>1 DEF body
<1> QED BY <1>8, <1>9 DEF snap

\* Two lists of periods whose first m charge the same and end at the same time.
SameUpTo(ps, e, qs, f, m) ==
    /\ Len(ps) \in Nat /\ Len(qs) \in Nat /\ m \in 0 .. Len(ps) /\ m \in 0 .. Len(qs)
    /\ \A i \in 1 .. m : /\ Volume(ps[i], "ENERGY") = Volume(qs[i], "ENERGY")
                          /\ EndOfPeriod(ps, i, e) = EndOfPeriod(qs, i, f)

\* Snapshots depend on when the periods are, and on their energies.
LEMMA SnapshotsDependOn ==
    ASSUME NEW ps, NEW e, NEW qs, NEW f, NEW m, SameUpTo(ps, e, qs, f, m), NEW start, NEW zone
    PROVE  Snapshots(start, e, ps, zone)[m] = Snapshots(start, f, qs, zone)[m]
<1> USE DEF SameUpTo
<1> DEFINE s == Snapshots(start, e, ps, zone)
           t == Snapshots(start, f, qs, zone)
           B == {i \in Nat : i <= m => s[i] = t[i]}
<1>1. /\ s[0] = NewSnapshot(start, zone)
      /\ \A i \in 1 .. Len(ps) : s[i] = Advance(s[i - 1], ps[i], EndOfPeriod(ps, i, e))
  BY SnapshotsUnfold
<1>2. /\ t[0] = NewSnapshot(start, zone)
      /\ \A i \in 1 .. Len(qs) : t[i] = Advance(t[i - 1], qs[i], EndOfPeriod(qs, i, f))
  BY SnapshotsUnfold
<1> HIDE DEF s, t
<1>3. 0 \in B  BY <1>1, <1>2
<1>4. ASSUME NEW i \in Nat, i \in B
      PROVE  i + 1 \in B
  <2>1. CASE i + 1 <= m
    <3>1. s[i] = t[i]  BY <1>4, <2>1
    <3>2. i + 1 \in 1 .. Len(ps) /\ i + 1 \in 1 .. Len(qs) /\ i + 1 \in 1 .. m /\ i + 1 - 1 = i
      BY <2>1
    <3>3. s[i + 1] = Advance(s[i], ps[i + 1], EndOfPeriod(ps, i + 1, e))  BY <1>1, <3>2
    <3>4. t[i + 1] = Advance(t[i], qs[i + 1], EndOfPeriod(qs, i + 1, f))  BY <1>2, <3>2
    <3>5. Volume(ps[i + 1], "ENERGY") = Volume(qs[i + 1], "ENERGY")
          /\ EndOfPeriod(ps, i + 1, e) = EndOfPeriod(qs, i + 1, f)
      BY <3>2
    <3>6. s[i + 1] = t[i + 1]  BY <3>1, <3>3, <3>4, <3>5 DEF Advance
    <3> QED BY <3>6
  <2>2. CASE ~ (i + 1 <= m)  BY <2>2
  <2> QED BY <2>1, <2>2
<1> HIDE DEF B
<1>5. Nat \subseteq B  BY <1>3, <1>4, NatSetInduction
<1>6. m \in B /\ m <= m  BY <1>5
<1> QED BY <1>6 DEF B, s, t

\* What prices a period depends on the snapshot, its tariff and its readings.
SameReadings(p, q) ==
    /\ p.minPower = q.minPower /\ p.maxPower = q.maxPower
    /\ p.minCurrent = q.minCurrent /\ p.maxCurrent = q.maxCurrent

\* Which component matches a period depends on its readings only, not on its
\* volumes (matches).
LEMMA MatchDependsOn ==
    ASSUME NEW ts, NEW t, NEW s, NEW p, NEW q, SameReadings(p, q)
    PROVE  ActiveComponents(ts, t, s, p) = ActiveComponents(ts, t, s, q)
<1>1. \A r : Matches(r, s, p) <=> Matches(r, s, q)  BY DEF Matches, SameReadings
<1>2. \A els, d : Candidates(els, s, p, d) = Candidates(els, s, q, d)  BY <1>1 DEF Candidates
<1>3. \A d : FirstMatch(ts, t, s, p, d) = FirstMatch(ts, t, s, q, d)  BY <1>2 DEF FirstMatch
<1> QED BY <1>3 DEF ActiveComponents

\* Period i of the one session, period j of the other, so far the same.
MatchedAlike(a, ps, i, b, qs, j, zone) ==
    /\ a.tariffs = b.tariffs /\ i \in DOMAIN ps /\ j \in DOMAIN qs
    /\ ps[i].tariff = qs[j].tariff /\ SameReadings(ps[i], qs[j])
    /\ Snapshots(a.start, a.end, ps, zone)[i - 1] = Snapshots(b.start, b.end, qs, zone)[j - 1]

\* So two periods matched at the same snapshot with the same readings are priced
\* by the same components.
LEMMA ActiveDependsOn ==
    ASSUME NEW a, NEW ps, NEW i, NEW b, NEW qs, NEW j, NEW zone,
           MatchedAlike(a, ps, i, b, qs, j, zone)
    PROVE  Active(a, ps, zone)[i] = Active(b, qs, zone)[j]
<1> DEFINE F(ts, tariff, snap, p) ==
               IF tariff = {} THEN [d \in Dims |-> {}]
               ELSE ActiveComponents(ts, CHOOSE t \in tariff : TRUE, snap, p)
           S(in, rs) == Snapshots(in.start, in.end, rs, zone)
<1>1. \A in, rs : \A k \in DOMAIN rs :
        Active(in, rs, zone)[k] = F(in.tariffs, rs[k].tariff, S(in, rs)[k - 1], rs[k])
  BY Zenon DEF Active
<1>2. /\ S(a, ps)[i - 1] = S(b, qs)[j - 1] /\ a.tariffs = b.tariffs
      /\ ps[i].tariff = qs[j].tariff /\ i \in DOMAIN ps /\ j \in DOMAIN qs
  BY DEF MatchedAlike
<1>3. \A ts, tariff, snap : F(ts, tariff, snap, ps[i]) = F(ts, tariff, snap, qs[j])
  <2>1. SameReadings(ps[i], qs[j])  BY DEF MatchedAlike
  <2> QED BY <2>1, MatchDependsOn
<1> HIDE DEF F, S
<1>4. Active(a, ps, zone)[i] = F(a.tariffs, ps[i].tariff, S(a, ps)[i - 1], ps[i])  BY <1>1, <1>2
<1>5. Active(b, qs, zone)[j] = F(b.tariffs, qs[j].tariff, S(b, qs)[j - 1], qs[j])  BY <1>1, <1>2
<1> QED BY <1>2, <1>3, <1>4, <1>5

-----------------------------------------------------------------------------
(* Sessions that are the same but for the places of their tariffs.          *)

RenamedPeriod(x, y, p) ==
    /\ x.start = y.start /\ x.volume = y.volume /\ SameReadings(x, y)
    /\ x.tariff = {p[t] : t \in y.tariff}

\* a is b, the tariff at place t of b being at place p[t] of a; a may have more.
Renames(p, a, b) ==
    /\ p \in [DOMAIN b.tariffs -> DOMAIN a.tariffs]
    /\ \A t, u \in DOMAIN b.tariffs : p[t] = p[u] => t = u
    /\ \A t \in DOMAIN b.tariffs : a.tariffs[p[t]] = b.tariffs[t]
    /\ a.start = b.start /\ a.end = b.end
    /\ DOMAIN a.periods = DOMAIN b.periods
    /\ \A i \in DOMAIN b.periods : RenamedPeriod(a.periods[i], b.periods[i], p)

\* Sorting does not look at tariffs.
LEMMA SortedAlike ==
    ASSUME NEW ps \in Seq(Periods), NEW qs \in Seq(Periods), NEW p,
           DOMAIN ps = DOMAIN qs, \A i \in DOMAIN qs : RenamedPeriod(ps[i], qs[i], p)
    PROVE  /\ DOMAIN SortedPeriods(ps) = DOMAIN SortedPeriods(qs)
           /\ Len(SortedPeriods(ps)) = Len(SortedPeriods(qs))
           /\ \A i \in DOMAIN SortedPeriods(qs) :
                RenamedPeriod(SortedPeriods(ps)[i], SortedPeriods(qs)[i], p)
<1>1. \A i, j \in DOMAIN qs : Before(ps, i, j) <=> Before(qs, i, j)
  <2>1. \A i \in DOMAIN qs : ps[i].start = qs[i].start  BY DEF RenamedPeriod
  <2> QED BY <2>1 DEF Before
<1>2. \A j \in DOMAIN qs : Earlier(ps, j) = Earlier(qs, j)
  <2>1. \A j \in DOMAIN qs : Earlier(ps, j) \subseteq Earlier(qs, j)  BY <1>1 DEF Earlier
  <2>2. \A j \in DOMAIN qs : Earlier(qs, j) \subseteq Earlier(ps, j)  BY <1>1 DEF Earlier
  <2> QED BY <2>1, <2>2
<1>3. \A k : Nth(ps, k) = Nth(qs, k)
  <2> SUFFICES ASSUME NEW k PROVE Nth(ps, k) = Nth(qs, k)  OBVIOUS
  <2>1. \A j \in DOMAIN qs :
          (Cardinality(Earlier(ps, j)) + 1 = k) <=> (Cardinality(Earlier(qs, j)) + 1 = k)
    BY <1>2
  <2> QED BY <2>1 DEF Nth
<1>4. \A k \in DOMAIN qs : Nth(qs, k) \in DOMAIN qs
  <2>1. PICK r \in Bijection(DOMAIN qs, DOMAIN qs) : \A k \in DOMAIN qs : r[k] = Nth(qs, k)
    BY SortingPermutes
  <2>2. \A k \in DOMAIN qs : r[k] \in DOMAIN qs  BY DEF Bijection, Injection
  <2> QED BY <2>1, <2>2
<1>5. /\ SortedPeriods(ps) = [k \in DOMAIN ps |-> ps[Nth(ps, k)]]
      /\ SortedPeriods(qs) = [k \in DOMAIN qs |-> qs[Nth(qs, k)]]
  BY SortedPeriodsFacts
<1>6. DOMAIN SortedPeriods(ps) = DOMAIN SortedPeriods(qs)  BY <1>5
<1>7. Len(SortedPeriods(ps)) = Len(SortedPeriods(qs))
  <2>1. SortedPeriods(ps) \in Seq(Periods) /\ SortedPeriods(qs) \in Seq(Periods)
    BY SortedPeriodsTyped
  <2>2. \A s, t \in Seq(Periods) : DOMAIN s = DOMAIN t => Len(s) = Len(t)  OBVIOUS
  <2> QED BY <2>1, <2>2, <1>6
<1>8. ASSUME NEW i \in DOMAIN SortedPeriods(qs)
      PROVE  RenamedPeriod(SortedPeriods(ps)[i], SortedPeriods(qs)[i], p)
  <2>1. i \in DOMAIN qs  BY <1>5
  <2>2. SortedPeriods(ps)[i] = ps[Nth(qs, i)] /\ SortedPeriods(qs)[i] = qs[Nth(qs, i)]
    BY <2>1, <1>3, <1>5
  <2> QED BY <2>1, <2>2, <1>4
<1> QED BY <1>6, <1>7, <1>8

\* The match that is m but for its tariff's place.
Moved(m, p) == [tariff |-> p[m.tariff], element |-> m.element, comp |-> m.comp]
AllMoved(ms, p) == {Moved(m, p) : m \in ms}

\* Nor does a tariff's place matter to what it prices.
LEMMA MatchedAtItsPlace ==
    \A ts, us, t, u, p, s, x, y, d :
        u = p[t] /\ ts[u] = us[t] /\ SameReadings(x, y) =>
            FirstMatch(ts, u, s, x, d) = AllMoved(FirstMatch(us, t, s, y, d), p)
<1> SUFFICES ASSUME NEW ts, NEW us, NEW t, NEW u, NEW p, NEW s, NEW x, NEW y, NEW d,
                    u = p[t], ts[u] = us[t], SameReadings(x, y)
             PROVE  FirstMatch(ts, u, s, x, d) = AllMoved(FirstMatch(us, t, s, y, d), p)
  OBVIOUS
<1> DEFINE els == us[t].elements
           es == Candidates(els, s, y, d)
           e == Least(es)
           cs == els[e].components
           c == cs[Least({k \in DOMAIN cs : cs[k].type = d})]
<1>1. \A r : Matches(r, s, x) <=> Matches(r, s, y)  BY DEF Matches, SameReadings
<1>2. Candidates(els, s, x, d) = es  BY <1>1 DEF Candidates
<1>3. FirstMatch(us, t, s, y, d) =
        IF es = {} THEN {} ELSE {[tariff |-> t, element |-> e, comp |-> c]}
  BY DEF FirstMatch
<1>4. FirstMatch(ts, u, s, x, d) =
        IF es = {} THEN {} ELSE {[tariff |-> p[t], element |-> e, comp |-> c]}
  BY <1>2 DEF FirstMatch
<1> HIDE DEF c, cs, e, es, els
<1>5. Moved([tariff |-> t, element |-> e, comp |-> c], p) = [tariff |-> p[t], element |-> e, comp |-> c]
  BY DEF Moved
<1> QED BY <1>3, <1>4, <1>5 DEF AllMoved

\* What is priced in a session, and the same session renamed.
RenamedActive(x, y, D, p) ==
    \A i \in D : \A d \in Dims :
        /\ x[i][d] = AllMoved(y[i][d], p)
        /\ \A m \in y[i][d] : m.tariff \in DOMAIN p

\* With its tariffs at other places, a session's periods are priced by the same
\* components of the same tariffs.
LEMMA ActiveAtItsPlace ==
    ASSUME NEW a \in Inputs, NEW b \in Inputs, NEW p, Renames(p, a, b), Valid(a), Valid(b),
           NEW o, ZoneOf(a, o) = ZoneOf(b, o)
    PROVE  RenamedActive(ActiveOf(a, o), ActiveOf(b, o), DOMAIN PeriodsOf(b), p)
<1> DEFINE ps == PeriodsOf(a)
           qs == PeriodsOf(b)
           z == ZoneOf(b, o)
           S(in, rs) == Snapshots(in.start, in.end, rs, z)
           F(in, rs, i) == IF rs[i].tariff = {} THEN [d \in Dims |-> {}]
                           ELSE ActiveComponents(in.tariffs, CHOOSE t \in rs[i].tariff : TRUE,
                                                 S(in, rs)[i - 1], rs[i])
<1>1. /\ ps \in Seq(Periods) /\ qs \in Seq(Periods)
      /\ \A i \in DOMAIN qs : qs[i].tariff \subseteq DOMAIN b.tariffs
  BY ValidInputs
<1>2. DOMAIN ps = DOMAIN qs /\ Len(ps) = Len(qs)
      /\ \A i \in DOMAIN qs : RenamedPeriod(ps[i], qs[i], p)
  <2>1. /\ a.periods \in Seq(Periods) /\ b.periods \in Seq(Periods)
        /\ DOMAIN a.periods = DOMAIN b.periods
        /\ \A i \in DOMAIN b.periods : RenamedPeriod(a.periods[i], b.periods[i], p)
    BY DEF Inputs, Renames
  <2> QED BY <2>1, SortedAlike DEF PeriodsOf
<1>3. a.start = b.start /\ a.end = b.end /\ DOMAIN p = DOMAIN b.tariffs
      /\ \A t \in DOMAIN b.tariffs : a.tariffs[p[t]] = b.tariffs[t]
  BY DEF Renames
<1>4. /\ \A i \in DOMAIN ps : ActiveOf(a, o)[i] = F(a, ps, i)
      /\ \A i \in DOMAIN qs : ActiveOf(b, o)[i] = F(b, qs, i)
  <2>1. \A in, rs : \A i \in DOMAIN rs : Active(in, rs, z)[i] = F(in, rs, i)
    BY Zenon DEF Active
  <2>2. ActiveOf(a, o) = Active(a, ps, z) /\ ActiveOf(b, o) = Active(b, qs, z)  BY DEF ActiveOf
  <2> HIDE DEF F, z, ps, qs
  <2> QED BY <2>1, <2>2
<1> HIDE DEF ps, qs, z
<1>5. ASSUME NEW i \in DOMAIN qs
      PROVE  S(a, ps)[i - 1] = S(b, qs)[i - 1]
  <2>1. DOMAIN qs = 1 .. Len(qs) /\ Len(qs) \in Nat  BY <1>1, PlacesAreFinite
  <2>2. i \in 1 .. Len(qs) /\ i - 1 \in 0 .. Len(qs)  BY <2>1
  <2>3. ASSUME NEW k \in 1 .. i - 1
        PROVE  /\ Volume(ps[k], "ENERGY") = Volume(qs[k], "ENERGY")
               /\ EndOfPeriod(ps, k, a.end) = EndOfPeriod(qs, k, b.end)
    <3>1. k \in DOMAIN qs /\ k + 1 \in DOMAIN qs  BY <2>1, <2>2
    <3>2. /\ RenamedPeriod(ps[k], qs[k], p) /\ RenamedPeriod(ps[k + 1], qs[k + 1], p)
      BY <3>1, <1>2
    <3>3. ps[k + 1].start = qs[k + 1].start /\ ps[k].volume = qs[k].volume
      BY <3>2 DEF RenamedPeriod
    <3> QED BY <3>3, <1>2, <1>3 DEF Volume, EndOfPeriod
  <2>4. SameUpTo(ps, a.end, qs, b.end, i - 1)  BY <2>1, <2>2, <2>3, <1>2 DEF SameUpTo
  <2> QED BY <2>4, <1>3, SnapshotsDependOn
<1> HIDE DEF S
<1>6. ASSUME NEW i \in DOMAIN qs, NEW d \in Dims
      PROVE  /\ ActiveOf(a, o)[i][d] = AllMoved(ActiveOf(b, o)[i][d], p)
             /\ \A m \in ActiveOf(b, o)[i][d] : m.tariff \in DOMAIN p
  <2>1. RenamedPeriod(ps[i], qs[i], p)  BY <1>2
  <2>2. ps[i].tariff = {p[t] : t \in qs[i].tariff} /\ SameReadings(ps[i], qs[i])
    BY <2>1 DEF RenamedPeriod
  <2>3. ActiveOf(a, o)[i] = F(a, ps, i) /\ ActiveOf(b, o)[i] = F(b, qs, i)  BY <1>2, <1>4
  <2>4. CASE qs[i].tariff = {}
    <3>1. ps[i].tariff = {}  BY <2>2, <2>4
    <3>2. ActiveOf(a, o)[i] = [e \in Dims |-> {}] /\ ActiveOf(b, o)[i] = [e \in Dims |-> {}]
      BY <2>3, <2>4, <3>1
    <3>3. ActiveOf(a, o)[i][d] = {} /\ ActiveOf(b, o)[i][d] = {}  BY <3>2
    <3> QED BY <3>3 DEF AllMoved
  <2>5. CASE qs[i].tariff # {}
    <3> DEFINE tb == CHOOSE x \in qs[i].tariff : TRUE
               ta == CHOOSE x \in ps[i].tariff : TRUE
               sn == S(b, qs)[i - 1]
    <3>1. qs[i].tariff \in Opt(Int)
      <4>1. qs[i] \in Periods  BY <1>1
      <4> QED BY <4>1 DEF Periods
    <3>2. qs[i].tariff = {tb}  BY <2>5, <3>1, OptFacts
    <3>3. tb \in DOMAIN b.tariffs  BY <3>2, <1>1
    <3> HIDE DEF tb
    <3>4. ps[i].tariff = {p[tb]}  BY <2>2, <3>2
    <3>5. ta = p[tb]  BY <3>4
    <3>6. S(a, ps)[i - 1] = sn  BY <1>5
    <3> HIDE DEF sn, ta
    <3>7. ActiveOf(a, o)[i] = ActiveComponents(a.tariffs, ta, sn, ps[i])
      BY <2>3, <3>4, <3>6 DEF ta
    <3>8. ActiveOf(b, o)[i] = ActiveComponents(b.tariffs, tb, sn, qs[i])
      BY <2>3, <3>2 DEF sn, tb
    <3>9. /\ ActiveOf(a, o)[i][d] = FirstMatch(a.tariffs, ta, sn, ps[i], d)
          /\ ActiveOf(b, o)[i][d] = FirstMatch(b.tariffs, tb, sn, qs[i], d)
      BY <3>7, <3>8 DEF ActiveComponents
    <3>10. FirstMatch(a.tariffs, ta, sn, ps[i], d)
             = AllMoved(FirstMatch(b.tariffs, tb, sn, qs[i], d), p)
      <4>1. SameReadings(ps[i], qs[i])  BY <2>2
      <4>2. a.tariffs[ta] = b.tariffs[tb] /\ ta = p[tb]  BY <3>3, <3>5, <1>3
      <4> HIDE DEF F
      <4> QED BY ONLY <4>1, <4>2, MatchedAtItsPlace
    <3>11. \A m \in FirstMatch(b.tariffs, tb, sn, qs[i], d) : m.tariff = tb
      <4>1. b.tariffs \in Seq(Tariffs)  BY DEF Inputs
      <4> QED BY <4>1, <3>3, FirstMatchTyped
    <3> QED BY <3>3, <3>9, <3>10, <3>11, <1>3
  <2> QED BY <2>4, <2>5
<1> QED BY <1>6 DEF RenamedActive, qs

\* The flat fees are the same fees.
LEMMA FlatsAtTheirPlaces ==
    ASSUME NEW x, NEW y, NEW D, DOMAIN x = D, DOMAIN y = D, NEW p, RenamedActive(x, y, D, p)
    PROVE  /\ Flats(x) = AllMoved(Flats(y), p)
           /\ \A m \in Flats(y) : m.tariff \in DOMAIN p
<1>1. \A i \in D : /\ x[i]["FLAT"] = {Moved(m, p) : m \in y[i]["FLAT"]}
                   /\ \A m \in y[i]["FLAT"] : m.tariff \in DOMAIN p
  BY DEF RenamedActive, AllMoved, Dims
<1>2. Flats(x) \subseteq AllMoved(Flats(y), p)
  <2> SUFFICES ASSUME NEW f \in Flats(x) PROVE \E m \in Flats(y) : f = Moved(m, p)
    BY DEF AllMoved
  <2>1. PICK i \in D : f \in x[i]["FLAT"]  BY DEF Flats
  <2>2. PICK m \in y[i]["FLAT"] : f = Moved(m, p)  BY <2>1, <1>1
  <2>3. m \in Flats(y)  BY DEF Flats
  <2> QED BY <2>2, <2>3
<1>3. \A m \in Flats(y) : Moved(m, p) \in Flats(x) /\ m.tariff \in DOMAIN p
  <2> SUFFICES ASSUME NEW m \in Flats(y) PROVE Moved(m, p) \in Flats(x) /\ m.tariff \in DOMAIN p
    OBVIOUS
  <2>1. PICK i \in D : m \in y[i]["FLAT"]  BY DEF Flats
  <2>2. Moved(m, p) \in x[i]["FLAT"] /\ m.tariff \in DOMAIN p  BY <2>1, <1>1
  <2> QED BY <2>2 DEF Flats
<1> QED BY <1>2, <1>3 DEF AllMoved

\* Nor does the money of a dimension depend on what its entries are called.
LEMMA DimensionMoneyRenamed ==
    ASSUME NEW before, NEW e, IsFiniteSet(DOMAIN e), NEW f, NEW r \in Bijection(DOMAIN e, DOMAIN f),
           \A i \in DOMAIN e : e[i] \in Entries /\ f[r[i]] = e[i]
    PROVE  DimensionMoney(before, e) = DimensionMoney(before, f)
<1> DEFINE lists(g) == {g[i].taxes : i \in DOMAIN g}
           sums(g) == [i \in DOMAIN g |-> SumTaxes(g[i].before, g[i].taxes)]
<1>1. /\ r \in [DOMAIN e -> DOMAIN f]
      /\ \A j \in DOMAIN f : \E i \in DOMAIN e : r[i] = j
  BY DEF Bijection, Injection, Surjection
<1>2. lists(e) = lists(f)
  <2>1. lists(e) \subseteq lists(f)
    <3> SUFFICES ASSUME NEW i \in DOMAIN e PROVE e[i].taxes \in lists(f)  OBVIOUS
    <3>1. r[i] \in DOMAIN f /\ f[r[i]].taxes = e[i].taxes  BY <1>1
    <3> QED BY <3>1
  <2>2. lists(f) \subseteq lists(e)
    <3> SUFFICES ASSUME NEW j \in DOMAIN f PROVE f[j].taxes \in lists(e)  OBVIOUS
    <3>1. PICK i \in DOMAIN e : r[i] = j  BY <1>1
    <3>2. f[j].taxes = e[i].taxes  BY <3>1
    <3> QED BY <3>2
  <2> QED BY <2>1, <2>2
<1>3. SumFunction(sums(e)) = SumFunction(sums(f))
  <2>1. ASSUME NEW i \in DOMAIN e
        PROVE  sums(e)[i] \in Int /\ sums(f)[r[i]] = sums(e)[i]
    <3>1. SumTaxes(e[i].before, e[i].taxes) \in Int  BY SumTaxesIsInt DEF Entries
    <3>2. r[i] \in DOMAIN f /\ f[r[i]] = e[i]  BY <1>1
    <3> QED BY <3>1, <3>2
  <2>2. DOMAIN sums(e) = DOMAIN e /\ DOMAIN sums(f) = DOMAIN f  OBVIOUS
  <2> HIDE DEF sums
  <2>3. SumFunctionOnSet(sums(e), DOMAIN e) = SumFunctionOnSet(sums(f), DOMAIN f)
    BY <2>1, SumIsRenamed
  <2> QED BY <2>2, <2>3 DEF SumFunction
<1> DEFINE R(ls, total) ==
      [before |-> before,
       taxes  |-> IF Cardinality(ls) = 1 THEN CHOOSE taxes \in ls : TRUE
                  ELSE IF ls # {} /\ (\A taxes \in ls : TaxesKnown(taxes))
                       THEN <<[kind |-> "amount", value |-> total]>>
                  ELSE <<>>,
       after  |-> {}]
<1>4. \A g : DimensionMoney(before, g) = R(lists(g), SumFunction(sums(g)))
  BY Zenon DEF DimensionMoney
<1> HIDE DEF R, lists, sums
<1> QED BY <1>2, <1>3, <1>4

\* A renaming of finitely many.
LEMMA MovingIsBijective ==
    ASSUME NEW S, NEW T, NEW p, \A t, u \in DOMAIN p : p[t] = p[u] => t = u,
           S \subseteq MatchTypes, \A m \in S : m.tariff \in DOMAIN p, T = AllMoved(S, p)
    PROVE  [m \in S |-> Moved(m, p)] \in Bijection(S, T)
<1> DEFINE b == [m \in S |-> Moved(m, p)]
<1>1. b \in [S -> T]  BY DEF AllMoved
<1>2. \A m, n \in S : b[m] = b[n] => m = n
  <2> SUFFICES ASSUME NEW m \in S, NEW n \in S, Moved(m, p) = Moved(n, p) PROVE m = n
    OBVIOUS
  <2>1. p[m.tariff] = p[n.tariff] /\ m.element = n.element /\ m.comp = n.comp  BY DEF Moved
  <2>2. m.tariff = n.tariff  BY <2>1
  <2> QED BY <2>1, <2>2 DEF MatchTypes
<1>3. \A f \in T : \E m \in S : b[m] = f  BY DEF AllMoved
<1> HIDE DEF b
<1>4. b \in Injection(S, T)  BY <1>1, <1>2 DEF Injection, IsInjective
<1>5. b \in Surjection(S, T)  BY <1>1, <1>3 DEF Surjection
<1>6. b \in Bijection(S, T)  BY <1>4, <1>5 DEF Bijection
<1> QED BY <1>6 DEF b

\* And its fees are the same (priceFlatDimension).
LEMMA FlatCostAtItsPlace ==
    ASSUME NEW S, IsFiniteSet(S), NEW T, NEW p, \A t, u \in DOMAIN p : p[t] = p[u] => t = u,
           S \subseteq MatchTypes, \A m \in S : m.tariff \in DOMAIN p, T = AllMoved(S, p)
    PROVE  FlatCost(S) = FlatCost(T)
<1> DEFINE b == [m \in S |-> Moved(m, p)]
           price(F) == [fee \in F |-> fee.comp.price]
           entries(F) == [fee \in F |-> [before |-> fee.comp.price, taxes |-> fee.comp.taxes]]
<1>1. b \in Bijection(S, T)  BY MovingIsBijective
<1>2. \A m \in S : b[m] \in T /\ b[m].comp = m.comp  BY DEF AllMoved, Moved
<1>3. \A m \in S : m.comp.price \in Int /\ m.comp.taxes \in Seq(TaxAmounts)
  BY DEF MatchTypes, PriceComponents
<1> HIDE DEF b
<1>4. SumFunctionOnSet(price(S), S) = SumFunctionOnSet(price(T), T)
  <2>1. \A m \in S : price(S)[m] \in Int /\ price(T)[b[m]] = price(S)[m]  BY <1>2, <1>3
  <2> HIDE DEF price
  <2> QED BY <1>1, <2>1, SumIsRenamed
<1>5. SumFunction(price(S)) = SumFunction(price(T))
  <2>1. DOMAIN price(S) = S /\ DOMAIN price(T) = T  OBVIOUS
  <2> HIDE DEF price
  <2> QED BY <1>4, <2>1 DEF SumFunction
<1>6. \A before : DimensionMoney(before, entries(S)) = DimensionMoney(before, entries(T))
  <2>1. DOMAIN entries(S) = S /\ DOMAIN entries(T) = T  OBVIOUS
  <2>2. \A m \in S : entries(S)[m] \in Entries /\ entries(T)[b[m]] = entries(S)[m]
    BY <1>2, <1>3 DEF Entries
  <2> HIDE DEF entries
  <2> QED BY <1>1, <2>1, <2>2, DimensionMoneyRenamed
<1>7. \A F : FlatCost(F) = DimensionMoney(SumFunction(price(F)), entries(F))
  BY Zenon DEF FlatCost
<1> HIDE DEF price, entries
<1> QED BY <1>5, <1>6, <1>7

\* Where one match stands for a period and a dimension, its component is all
\* the ledger takes of it.
LEMMA LedgerAtItsPlace ==
    ASSUME NEW ps \in Seq(Periods), NEW qs \in Seq(Periods), NEW p, DOMAIN ps = DOMAIN qs,
           \A i \in DOMAIN qs : RenamedPeriod(ps[i], qs[i], p),
           NEW x, NEW y, IsActive(x, ps), IsActive(y, qs), RenamedActive(x, y, DOMAIN qs, p)
    PROVE  /\ \A d \in Volumed : Ledger(ps, x, d) = Ledger(qs, y, d)
           /\ HasIdleStep(ps, x) <=> HasIdleStep(qs, y)
<1>1. ASSUME NEW i \in DOMAIN qs, NEW d \in Volumed
      PROVE  /\ ps[i].volume = qs[i].volume
             /\ x[i][d] = {} <=> y[i][d] = {}
             /\ x[i][d] # {} => (CHOOSE m \in x[i][d] : TRUE).comp = (CHOOSE m \in y[i][d] : TRUE).comp
             /\ \A m \in x[i][d] : \E n \in y[i][d] : n.comp = m.comp
             /\ \A n \in y[i][d] : \E m \in x[i][d] : n.comp = m.comp
  <2>1. ps[i].volume = qs[i].volume  BY DEF RenamedPeriod
  <2>2. x[i][d] = AllMoved(y[i][d], p)  BY DEF RenamedActive, Dims
  <2>3. x[i][d] \in Opt(MatchTypes) /\ y[i][d] \in Opt(MatchTypes)
    BY DEF IsActive, Dims
  <2>4. \A n : Moved(n, p).comp = n.comp  BY DEF Moved
  <2>5. /\ \A m \in x[i][d] : \E n \in y[i][d] : n.comp = m.comp
        /\ \A n \in y[i][d] : \E m \in x[i][d] : n.comp = m.comp
    BY <2>2, <2>4 DEF AllMoved
  <2>6. x[i][d] = {} <=> y[i][d] = {}  BY <2>2 DEF AllMoved
  <2>7. ASSUME x[i][d] # {}
        PROVE  (CHOOSE m \in x[i][d] : TRUE).comp = (CHOOSE m \in y[i][d] : TRUE).comp
    <3> DEFINE mx == CHOOSE m \in x[i][d] : TRUE
               my == CHOOSE m \in y[i][d] : TRUE
    <3>1. mx \in x[i][d]  BY <2>7
    <3>2. y[i][d] = {my}  BY <2>3, <2>6, <2>7, OptFacts
    <3> HIDE DEF mx, my
    <3>3. mx.comp = my.comp  BY <2>5, <3>1, <3>2
    <3> QED BY <3>3 DEF mx, my
  <2> QED BY <2>1, <2>5, <2>6, <2>7
<1>2. ASSUME NEW d \in Volumed
      PROVE  Ledger(ps, x, d) = Ledger(qs, y, d)
  <2> DEFINE D(rs, act) == {j \in DOMAIN rs : rs[j].volume[d] # {} /\ act[j][d] # {}}
             E(rs, act, i) == [volume |-> Volume(rs[i], d),
                               comp |-> (CHOOSE m \in act[i][d] : TRUE).comp]
  <2>1. D(ps, x) = D(qs, y)
    <3>1. D(ps, x) \subseteq D(qs, y)  BY <1>1
    <3>2. D(qs, y) \subseteq D(ps, x)  BY <1>1
    <3> QED BY <3>1, <3>2
  <2>2. \A i \in D(qs, y) : E(ps, x, i) = E(qs, y, i)
    <3> SUFFICES ASSUME NEW i \in D(qs, y) PROVE E(ps, x, i) = E(qs, y, i)  OBVIOUS
    <3>1. i \in DOMAIN qs /\ x[i][d] # {}  BY <1>1
    <3>2. Volume(ps[i], d) = Volume(qs[i], d)
      <4>1. ps[i].volume = qs[i].volume  BY <3>1, <1>1
      <4> QED BY ONLY <4>1 DEF Volume
    <3>3. (CHOOSE m \in x[i][d] : TRUE).comp = (CHOOSE m \in y[i][d] : TRUE).comp
      BY <3>1, <1>1
    <3> QED BY <3>2, <3>3
  <2>3. \A rs, act : Ledger(rs, act, d) = [i \in D(rs, act) |-> E(rs, act, i)]
    BY Zenon DEF Ledger
  <2> HIDE DEF D, E
  <2> QED BY <2>1, <2>2, <2>3
<1>3. HasIdleStep(ps, x) <=> HasIdleStep(qs, y)
  <2> DEFINE d == "PARKING_TIME"
  <2>1. d \in Volumed  BY DEF Volumed
  <2>2. HasIdleStep(ps, x) => HasIdleStep(qs, y)
    <3> SUFFICES ASSUME HasIdleStep(ps, x) PROVE HasIdleStep(qs, y)  OBVIOUS
    <3>1. PICK i \in DOMAIN ps : ps[i].volume[d] # {} /\ \E m \in x[i][d] : m.comp.step > 0
      BY DEF HasIdleStep
    <3>2. PICK m \in x[i][d] : m.comp.step > 0  BY <3>1
    <3>3. PICK n \in y[i][d] : n.comp = m.comp  BY <2>1, <1>1
    <3>4. qs[i].volume[d] # {} /\ n.comp.step > 0  BY <3>1, <3>2, <3>3, <2>1, <1>1
    <3> QED BY <3>4 DEF HasIdleStep
  <2>3. HasIdleStep(qs, y) => HasIdleStep(ps, x)
    <3> SUFFICES ASSUME HasIdleStep(qs, y) PROVE HasIdleStep(ps, x)  OBVIOUS
    <3>1. PICK i \in DOMAIN qs : qs[i].volume[d] # {} /\ \E m \in y[i][d] : m.comp.step > 0
      BY DEF HasIdleStep
    <3>2. PICK m \in y[i][d] : m.comp.step > 0  BY <3>1
    <3>3. PICK n \in x[i][d] : m.comp = n.comp  BY <2>1, <1>1
    <3>4. ps[i].volume[d] # {} /\ n.comp.step > 0  BY <3>1, <3>2, <3>3, <2>1, <1>1
    <3> QED BY <3>4 DEF HasIdleStep
  <2> QED BY <2>2, <2>3
<1> QED BY <1>2, <1>3

\* The bounds are those of the tariff that is used, wherever it is.
LEMMA TotalAtItsPlace ==
    ASSUME NEW a \in Inputs, NEW b \in Inputs, NEW p, Renames(p, a, b),
           NEW S \in SUBSET DOMAIN b.tariffs, NEW T, T = {p[t] : t \in S}, NEW cost
    PROVE  TotalCost(a, T, cost) = TotalCost(b, S, cost)
<1> DEFINE sum == Unclamped(cost)
           below(in, t) == {m \in in.tariffs[t].minPrice : sum.before < m.before}
           above(in, t) == {m \in in.tariffs[t].maxPrice : sum.before > m.before}
           Below(in, U) == UNION {below(in, t) : t \in U}
           Above(in, U) == UNION {above(in, t) : t \in U}
<1>1. /\ p \in [DOMAIN b.tariffs -> DOMAIN a.tariffs]
      /\ \A t, u \in DOMAIN b.tariffs : p[t] = p[u] => t = u
      /\ \A t \in DOMAIN b.tariffs : a.tariffs[p[t]] = b.tariffs[t]
  BY DEF Renames
<1>2. Cardinality(T) = Cardinality(S)
  <2> DEFINE r == [t \in S |-> p[t]]
  <2>1. r \in [S -> T]  OBVIOUS
  <2>2. \A t, u \in S : r[t] = r[u] => t = u  BY <1>1
  <2>3. \A v \in T : \E t \in S : r[t] = v  OBVIOUS
  <2> HIDE DEF r
  <2>4. r \in Injection(S, T)  BY <2>1, <2>2 DEF Injection, IsInjective
  <2>5. r \in Surjection(S, T)  BY <2>1, <2>3 DEF Surjection
  <2>6. IsFiniteSet(S)
    <3>1. b.tariffs \in Seq(Tariffs)  BY DEF Inputs
    <3>2. IsFiniteSet(DOMAIN b.tariffs)  BY <3>1, PlacesAreFinite
    <3> QED BY <3>2, FS_Subset
  <2> QED BY <2>4, <2>5, <2>6, FS_Surjection
<1>3. \A t \in S : below(a, p[t]) = below(b, t) /\ above(a, p[t]) = above(b, t)
  <2> HIDE DEF sum
  <2> QED BY <1>1
<1> HIDE DEF below, above
<1>4. Below(a, T) = Below(b, S)
  <2>1. {below(a, u) : u \in T} = {below(b, t) : t \in S}
    <3>1. {below(a, u) : u \in T} \subseteq {below(b, t) : t \in S}  BY <1>3
    <3>2. {below(b, t) : t \in S} \subseteq {below(a, u) : u \in T}  BY <1>3
    <3> QED BY <3>1, <3>2
  <2> QED BY <2>1
<1>5. Above(a, T) = Above(b, S)
  <2>1. {above(a, u) : u \in T} = {above(b, t) : t \in S}
    <3>1. {above(a, u) : u \in T} \subseteq {above(b, t) : t \in S}  BY <1>3
    <3>2. {above(b, t) : t \in S} \subseteq {above(a, u) : u \in T}  BY <1>3
    <3> QED BY <3>1, <3>2
  <2> QED BY <2>1
<1> DEFINE F(n, lo, hi) == IF n # 1 THEN sum
                           ELSE IF lo # {} THEN CHOOSE m \in lo : TRUE
                           ELSE IF hi # {} THEN CHOOSE m \in hi : TRUE
                           ELSE sum
<1>6. \A in, U : TotalCost(in, U, cost) = F(Cardinality(U), Below(in, U), Above(in, U))
  BY Zenon DEF TotalCost, below, above
<1> HIDE DEF F, Below, Above
<1> QED BY <1>2, <1>4, <1>5, <1>6

\* A session costs the same wherever its tariffs stand, and whatever tariffs
\* there are that it does not refer to.  (Calculate finds tariffs by index.)
THEOREM RenamingCostsNothing ==
    ASSUME NEW a \in Inputs, NEW b \in Inputs, NEW p, Renames(p, a, b), Valid(a) <=> Valid(b),
           NEW o, ResolveZone(a, o) = ResolveZone(b, o)
    PROVE  /\ Calculate(a, o).error = Calculate(b, o).error
           /\ Calculate(a, o).cost = Calculate(b, o).cost
           /\ Calculate(a, o).total = Calculate(b, o).total
<1>1. ZoneOf(a, o) = ZoneOf(b, o)  BY DEF ZoneOf
<1>2. Refused(a, o) <=> Refused(b, o)  BY DEF Refused
<1>3. CASE Refused(b, o)  BY <1>2, <1>3, CalculateFacts
<1>4. CASE ~ Refused(b, o)
  <2> DEFINE ps == PeriodsOf(a)
             qs == PeriodsOf(b)
             x == ActiveOf(a, o)
             y == ActiveOf(b, o)
  <2>1. Valid(a) /\ Valid(b)  BY <1>4 DEF Refused
  <2>2. /\ ps \in Seq(Periods) /\ qs \in Seq(Periods) /\ IsActive(x, ps) /\ IsActive(y, qs)
        /\ UsedBy(b) \subseteq DOMAIN b.tariffs
    BY <2>1, ValidInputs
  <2>3. DOMAIN ps = DOMAIN qs /\ \A i \in DOMAIN qs : RenamedPeriod(ps[i], qs[i], p)
    <3>1. /\ a.periods \in Seq(Periods) /\ b.periods \in Seq(Periods)
          /\ DOMAIN a.periods = DOMAIN b.periods
          /\ \A i \in DOMAIN b.periods : RenamedPeriod(a.periods[i], b.periods[i], p)
      BY DEF Inputs, Renames
    <3> QED BY <3>1, SortedAlike DEF PeriodsOf
  <2>4. RenamedActive(x, y, DOMAIN qs, p)  BY <1>1, <2>1, ActiveAtItsPlace
  <2> HIDE DEF ps, qs, x, y
  <2>5. /\ \A d \in Volumed : Ledger(ps, x, d) = Ledger(qs, y, d)
        /\ HasIdleStep(ps, x) <=> HasIdleStep(qs, y)
    BY <2>2, <2>3, <2>4, LedgerAtItsPlace
  <2>6. /\ \A d \in Volumed : LedgerOf(a, o, d) = LedgerOf(b, o, d)
        /\ IdleOf(a, o) = IdleOf(b, o)
    <3>1. IdleOf(a, o) \in BOOLEAN /\ IdleOf(b, o) \in BOOLEAN  BY DEF IdleOf, HasIdleStep
    <3>2. IdleOf(a, o) <=> IdleOf(b, o)  BY <2>5 DEF IdleOf, ps, qs, x, y
    <3>3. IdleOf(a, o) = IdleOf(b, o)  BY <3>1, <3>2
    <3> QED BY <2>5, <3>3 DEF LedgerOf, ps, qs, x, y
  <2>7. StepRefused(a, o) <=> StepRefused(b, o)  BY <2>6 DEF StepRefused
  <2>8. FlatCost(Flats(x)) = FlatCost(Flats(y))
    <3>1. DOMAIN x = DOMAIN qs /\ DOMAIN y = DOMAIN qs  BY <2>2, <2>3 DEF IsActive
    <3>2. Flats(x) = AllMoved(Flats(y), p) /\ \A m \in Flats(y) : m.tariff \in DOMAIN p
      BY <3>1, <2>4, FlatsAtTheirPlaces
    <3>3. IsFiniteSet(Flats(y)) /\ Flats(y) \subseteq MatchTypes  BY <2>2, FlatsTyped
    <3>4. \A t, u \in DOMAIN p : p[t] = p[u] => t = u  BY DEF Renames
    <3> QED BY <3>2, <3>3, <3>4, FlatCostAtItsPlace
  <2>9. CostOf(a, o) = CostOf(b, o)
    <3>1. \A d \in Dims : d # "FLAT" => d \in Volumed  BY DEF Dims
    <3> DEFINE c(in) == [d \in Dims |-> IF d = "FLAT" THEN FlatCost(Flats(ActiveOf(in, o)))
                                        ELSE SessionCost(d, LedgerOf(in, o, d), IdleOf(in, o))]
    <3>2. c(a) = c(b)  BY <3>1, <2>6, <2>8 DEF x, y
    <3> QED BY <3>2 DEF CostOf
  <2>10. UsedBy(a) = {p[t] : t \in UsedBy(b)}
    <3>1. \A i \in DOMAIN qs : ps[i].tariff = {p[t] : t \in qs[i].tariff}
      BY <2>3 DEF RenamedPeriod
    <3>2. UsedBy(a) = UNION {ps[i].tariff : i \in DOMAIN qs}
          /\ UsedBy(b) = UNION {qs[i].tariff : i \in DOMAIN qs}
      BY <2>3 DEF UsedBy, UsedTariffs, ps, qs
    <3>3. UsedBy(a) \subseteq {p[t] : t \in UsedBy(b)}
      <4> SUFFICES ASSUME NEW u \in UsedBy(a) PROVE \E t \in UsedBy(b) : u = p[t]  OBVIOUS
      <4>1. PICK i \in DOMAIN qs : u \in ps[i].tariff  BY <3>2
      <4>2. PICK t \in qs[i].tariff : u = p[t]  BY <4>1, <3>1
      <4> QED BY <4>2, <3>2
    <3>4. \A t \in UsedBy(b) : p[t] \in UsedBy(a)
      <4> SUFFICES ASSUME NEW t \in UsedBy(b) PROVE p[t] \in UsedBy(a)  OBVIOUS
      <4>1. PICK i \in DOMAIN qs : t \in qs[i].tariff  BY <3>2
      <4>2. p[t] \in ps[i].tariff  BY <4>1, <3>1
      <4> QED BY <4>2, <3>2
    <3> QED BY <3>3, <3>4
  <2>11. TotalOf(a, o) = TotalOf(b, o)
    <3>1. UsedBy(b) \in SUBSET DOMAIN b.tariffs  BY <2>2
    <3>2. TotalCost(a, UsedBy(a), CostOf(b, o)) = TotalCost(b, UsedBy(b), CostOf(b, o))
      BY <2>10, <3>1, TotalAtItsPlace
    <3> QED BY <2>9, <3>2 DEF TotalOf
  <2>12. CASE StepRefused(b, o)  BY <1>2, <1>4, <2>7, <2>12, CalculateFacts
  <2>13. CASE ~ StepRefused(b, o)
    <3> DEFINE C(in) == [d \in Dims |-> RoundedTo(CostOf(in, o)[d], o)]
    <3>1. \A in : ~ Refused(in, o) /\ ~ StepRefused(in, o) =>
            /\ Calculate(in, o).error = "none" /\ Calculate(in, o).cost = C(in)
            /\ Calculate(in, o).total = RoundedTo(TotalOf(in, o), o)
      BY CalculateFacts
    <3>2. C(a) = C(b)  BY <2>9
    <3> HIDE DEF C
    <3> QED BY <3>1, <3>2, <1>2, <1>4, <2>7, <2>11, <2>13
  <2> QED BY <2>12, <2>13
<1> QED BY <1>3, <1>4

-----------------------------------------------------------------------------
(* Sessions that are the same but for their readings.                       *)

\* The restriction says nothing of power or current.
NeedsNoReadings(r) == r.minPower \cup r.maxPower \cup r.minCurrent \cup r.maxCurrent = {}

SameCharge(p, q) == p.start = q.start /\ p.volume = q.volume /\ p.tariff = q.tariff

\* a is b but for the readings of its periods, which no tariff asks for.
SameButReadings(a, b) ==
    /\ a.start = b.start /\ a.end = b.end /\ a.currency = b.currency
    /\ a.countryZone = b.countryZone /\ a.tariffs = b.tariffs
    /\ DOMAIN a.periods = DOMAIN b.periods
    /\ \A i \in DOMAIN b.periods : SameCharge(a.periods[i], b.periods[i])
    /\ \A t \in DOMAIN b.tariffs : \A e \in DOMAIN b.tariffs[t].elements :
          NeedsNoReadings(b.tariffs[t].elements[e].restrictions)

\* Sorting does not look at readings, nor at anything but the starts.
LEMMA SortedTogether ==
    ASSUME NEW ps \in Seq(Periods), NEW qs \in Seq(Periods), DOMAIN ps = DOMAIN qs,
           \A i \in DOMAIN qs : ps[i].start = qs[i].start
    PROVE  \E r \in [DOMAIN qs -> DOMAIN qs] :
             /\ SortedPeriods(ps) = [k \in DOMAIN qs |-> ps[r[k]]]
             /\ SortedPeriods(qs) = [k \in DOMAIN qs |-> qs[r[k]]]
<1>1. \A i, j \in DOMAIN qs : Before(ps, i, j) <=> Before(qs, i, j)  BY DEF Before
<1>2. \A j \in DOMAIN qs : Earlier(ps, j) = Earlier(qs, j)
  <2>1. \A j \in DOMAIN qs : Earlier(ps, j) \subseteq Earlier(qs, j)  BY <1>1 DEF Earlier
  <2>2. \A j \in DOMAIN qs : Earlier(qs, j) \subseteq Earlier(ps, j)  BY <1>1 DEF Earlier
  <2> QED BY <2>1, <2>2
<1>3. \A k : Nth(ps, k) = Nth(qs, k)
  <2> SUFFICES ASSUME NEW k PROVE Nth(ps, k) = Nth(qs, k)  OBVIOUS
  <2>1. \A j \in DOMAIN qs :
          (Cardinality(Earlier(ps, j)) + 1 = k) <=> (Cardinality(Earlier(qs, j)) + 1 = k)
    BY <1>2
  <2> QED BY <2>1 DEF Nth
<1>4. PICK r \in Bijection(DOMAIN qs, DOMAIN qs) :
             \A k \in DOMAIN qs : r[k] = Nth(qs, k)
  BY SortingPermutes
<1>5. r \in [DOMAIN qs -> DOMAIN qs]  BY <1>4 DEF Bijection, Injection
<1>6. /\ SortedPeriods(ps) = [k \in DOMAIN ps |-> ps[Nth(ps, k)]]
      /\ SortedPeriods(qs) = [k \in DOMAIN qs |-> qs[Nth(qs, k)]]
  BY SortedPeriodsFacts
<1>7. SortedPeriods(ps) = [k \in DOMAIN qs |-> ps[r[k]]]  BY <1>3, <1>4, <1>6
<1>8. SortedPeriods(qs) = [k \in DOMAIN qs |-> qs[r[k]]]  BY <1>4, <1>6
<1> QED BY <1>5, <1>7, <1>8

\* Nothing is valid or not because of its readings (ValidateInput).
LEMMA ValidButReadings ==
    ASSUME NEW a, NEW b, SameButReadings(a, b)
    PROVE  Valid(a) <=> Valid(b)
<1> DEFINE OK(in) == /\ in.tariffs # <<>>
                     /\ \A t \in DOMAIN in.tariffs :
                          /\ in.tariffs[t].elements # <<>>
                          /\ in.tariffs[t].currency = in.currency
                          /\ \A e \in DOMAIN in.tariffs[t].elements :
                                LET cs == in.tariffs[t].elements[e].components
                                IN  \A j \in DOMAIN cs :
                                       /\ cs[j].type = "ENERGY" => cs[j].step >= 0
                                       /\ cs[j].type \in {"TIME", "PARKING_TIME"} => cs[j].step > 0
           Fits(p, in) == p.tariff \subseteq DOMAIN in.tariffs
                          /\ \A v \in p.volume["ENERGY"] : v >= 0
<1>1. \A in : Valid(in) <=> OK(in) /\ \A i \in DOMAIN in.periods : Fits(in.periods[i], in)
  BY Zenon DEF Valid
<1>2. a.tariffs = b.tariffs /\ a.currency = b.currency  BY DEF SameButReadings
<1>3. OK(a) <=> OK(b)  BY <1>2, Zenon
<1>4. /\ DOMAIN a.periods = DOMAIN b.periods
      /\ \A i \in DOMAIN b.periods : Fits(a.periods[i], a) <=> Fits(b.periods[i], b)
  BY <1>2 DEF SameButReadings, SameCharge
<1> HIDE DEF OK, Fits
<1> QED BY <1>1, <1>3, <1>4

\* Sessions priced in the same places by the same components.
PricedAlike(a, b, o) ==
    /\ Refused(a, o) <=> Refused(b, o)
    /\ a.tariffs = b.tariffs /\ UsedBy(a) = UsedBy(b)
    /\ ActiveOf(a, o) = ActiveOf(b, o) /\ IdleOf(a, o) = IdleOf(b, o)
    /\ \A d \in Volumed : LedgerOf(a, o, d) = LedgerOf(b, o, d)

\* They have the same bill.
LEMMA PricedAlikeBilledAlike ==
    ASSUME NEW a, NEW b, NEW o, ~ Refused(b, o) => PricedAlike(a, b, o),
           Refused(a, o) <=> Refused(b, o)
    PROVE  /\ Calculate(a, o).error = Calculate(b, o).error
           /\ Calculate(a, o).cost = Calculate(b, o).cost
           /\ Calculate(a, o).total = Calculate(b, o).total
<1>1. CASE Refused(b, o)  BY <1>1, CalculateFacts
<1>2. CASE ~ Refused(b, o)
  <2>1. PricedAlike(a, b, o) /\ ~ Refused(a, o)  BY <1>2
  <2>2. StepRefused(a, o) <=> StepRefused(b, o)  BY <2>1 DEF StepRefused, PricedAlike
  <2>3. CostOf(a, o) = CostOf(b, o)
    <3>1. \A d \in Dims : d # "FLAT" => d \in Volumed  BY DEF Dims
    <3> DEFINE c(x) == [d \in Dims |-> IF d = "FLAT" THEN FlatCost(Flats(ActiveOf(x, o)))
                                       ELSE SessionCost(d, LedgerOf(x, o, d), IdleOf(x, o))]
    <3>2. c(a) = c(b)  BY <2>1, <3>1 DEF PricedAlike
    <3> QED BY <3>2 DEF CostOf
  <2>4. TotalOf(a, o) = TotalOf(b, o)
    <3> DEFINE F(ts, used, cost) ==
                 LET sum == Unclamped(cost)
                     below == UNION {{m \in ts[t].minPrice : sum.before < m.before} : t \in used}
                     above == UNION {{m \in ts[t].maxPrice : sum.before > m.before} : t \in used}
                 IN  IF Cardinality(used) # 1 THEN sum
                     ELSE IF below # {} THEN CHOOSE m \in below : TRUE
                     ELSE IF above # {} THEN CHOOSE m \in above : TRUE
                     ELSE sum
    <3>1. \A in, used, cost : TotalCost(in, used, cost) = F(in.tariffs, used, cost)
      BY Zenon DEF TotalCost
    <3> HIDE DEF F
    <3> QED BY <2>1, <2>3, <3>1 DEF TotalOf, PricedAlike
  <2>5. CASE StepRefused(b, o)  BY <1>2, <2>1, <2>2, <2>5, CalculateFacts
  <2>6. CASE ~ StepRefused(b, o)
    <3> DEFINE C(x) == [d \in Dims |-> RoundedTo(CostOf(x, o)[d], o)]
               T(x) == RoundedTo(TotalOf(x, o), o)
    <3>1. /\ Calculate(a, o).error = "none" /\ Calculate(a, o).cost = C(a)
          /\ Calculate(a, o).total = T(a)
      BY <2>1, <2>2, <2>6, CalculateFacts
    <3>2. /\ Calculate(b, o).error = "none" /\ Calculate(b, o).cost = C(b)
          /\ Calculate(b, o).total = T(b)
      BY <1>2, <2>6, CalculateFacts
    <3>3. C(a) = C(b) /\ T(a) = T(b)  BY <2>3, <2>4
    <3> HIDE DEF C, T
    <3> QED BY <3>1, <3>2, <3>3
  <2> QED BY <2>5, <2>6
<1> QED BY <1>1, <1>2

\* A restriction that says nothing of readings is met or not whatever they are.
LEMMA MatchedWithoutReadings ==
    \A r, s, p, q : NeedsNoReadings(r) => (Matches(r, s, p) <=> Matches(r, s, q))
<1> SUFFICES ASSUME NEW r, NEW s, NEW p, NEW q, NeedsNoReadings(r)
             PROVE  Matches(r, s, p) <=> Matches(r, s, q)
  OBVIOUS
<1>1. r.minPower = {} /\ r.maxPower = {} /\ r.minCurrent = {} /\ r.maxCurrent = {}
  BY DEF NeedsNoReadings
<1> QED BY <1>1 DEF Matches

\* What a session is billed depends on the readings of its periods only through
\* restrictions on power and current.  (Restrictions.matches)
THEOREM ReadingsCostNothing ==
    ASSUME NEW a, NEW b \in Inputs, a.periods \in Seq(Periods), SameButReadings(a, b), NEW o
    PROVE  /\ Calculate(a, o).error = Calculate(b, o).error
           /\ Calculate(a, o).cost = Calculate(b, o).cost
           /\ Calculate(a, o).total = Calculate(b, o).total
<1> USE DEF SameButReadings
<1>1. ResolveZone(a, o) = ResolveZone(b, o)  BY DEF ResolveZone
<1>2. Refused(a, o) <=> Refused(b, o)  BY <1>1, ValidButReadings DEF Refused
<1> DEFINE ps == PeriodsOf(a)
           qs == PeriodsOf(b)
           z == ZoneOf(b, o)
<1>3. ZoneOf(a, o) = z  BY <1>1 DEF ZoneOf
<1>4. /\ ps \in Seq(Periods) /\ qs \in Seq(Periods) /\ DOMAIN ps = DOMAIN qs
      /\ Len(ps) = Len(qs) /\ \A i \in DOMAIN qs : SameCharge(ps[i], qs[i])
  <2>1. b.periods \in Seq(Periods)  BY DEF Inputs
  <2>2. PICK r \in [DOMAIN b.periods -> DOMAIN b.periods] :
             /\ SortedPeriods(a.periods) = [k \in DOMAIN b.periods |-> a.periods[r[k]]]
             /\ SortedPeriods(b.periods) = [k \in DOMAIN b.periods |-> b.periods[r[k]]]
    <3>1. \A i \in DOMAIN b.periods : a.periods[i].start = b.periods[i].start
      BY DEF SameCharge
    <3> QED BY <2>1, <3>1, SortedTogether
  <2>3. /\ ps = [k \in DOMAIN b.periods |-> a.periods[r[k]]]
        /\ qs = [k \in DOMAIN b.periods |-> b.periods[r[k]]]
    BY <2>2 DEF PeriodsOf
  <2>4. ps \in Seq(Periods) /\ qs \in Seq(Periods)  BY <2>1, SortedPeriodsTyped DEF PeriodsOf
  <2> HIDE DEF ps, qs
  <2>5. DOMAIN ps = DOMAIN qs /\ \A i \in DOMAIN qs : SameCharge(ps[i], qs[i])  BY <2>2, <2>3
  <2>6. \A s, t \in Seq(Periods) : DOMAIN s = DOMAIN t => Len(s) = Len(t)  OBVIOUS
  <2> QED BY <2>4, <2>5, <2>6
<1>5. ASSUME ~ Refused(b, o) PROVE PricedAlike(a, b, o)
  <2>1. Valid(b)  BY <1>5 DEF Refused
  <2>2. \A i \in DOMAIN qs : qs[i].tariff \subseteq DOMAIN b.tariffs  BY <2>1, ValidInputs
  <2> HIDE DEF ps, qs, z
  <2>3. ASSUME NEW i \in DOMAIN qs
        PROVE  Snapshots(a.start, a.end, ps, z)[i - 1] = Snapshots(b.start, b.end, qs, z)[i - 1]
    <3>1. DOMAIN ps = 1 .. Len(ps) /\ DOMAIN qs = 1 .. Len(qs) /\ Len(ps) \in Nat /\ Len(qs) \in Nat
      BY <1>4
    <3>2. \A k \in 1 .. Len(qs) : /\ Volume(ps[k], "ENERGY") = Volume(qs[k], "ENERGY")
                                  /\ EndOfPeriod(ps, k, a.end) = EndOfPeriod(qs, k, b.end)
      <4> SUFFICES ASSUME NEW k \in 1 .. Len(qs)
                   PROVE  /\ Volume(ps[k], "ENERGY") = Volume(qs[k], "ENERGY")
                          /\ EndOfPeriod(ps, k, a.end) = EndOfPeriod(qs, k, b.end)
        OBVIOUS
      <4>1. SameCharge(ps[k], qs[k])  BY <1>4, <3>1
      <4>2. k < Len(qs) => SameCharge(ps[k + 1], qs[k + 1])  BY <1>4, <3>1
      <4>3. a.end = b.end /\ Len(ps) = Len(qs)  BY <1>4
      <4> QED BY <4>1, <4>2, <4>3 DEF SameCharge, Volume, EndOfPeriod
    <3>3. i - 1 \in 0 .. Len(qs) /\ \A k \in 1 .. i - 1 : k \in 1 .. Len(qs)  BY <3>1
    <3>4. SameUpTo(ps, a.end, qs, b.end, i - 1)  BY <1>4, <3>1, <3>2, <3>3 DEF SameUpTo
    <3>5. Snapshots(b.start, a.end, ps, z)[i - 1] = Snapshots(b.start, b.end, qs, z)[i - 1]
      BY <3>4, SnapshotsDependOn
    <3> QED BY <3>5
  <2>4. \A t \in DOMAIN b.tariffs : \A s, p, q :
          ActiveComponents(b.tariffs, t, s, p) = ActiveComponents(b.tariffs, t, s, q)
    <3> SUFFICES ASSUME NEW t \in DOMAIN b.tariffs, NEW s, NEW p, NEW q
                 PROVE  ActiveComponents(b.tariffs, t, s, p) = ActiveComponents(b.tariffs, t, s, q)
      OBVIOUS
    <3> DEFINE els == b.tariffs[t].elements
    <3>1. \A e \in DOMAIN els : Matches(els[e].restrictions, s, p) <=> Matches(els[e].restrictions, s, q)
      BY MatchedWithoutReadings
    <3>2. \A d : Candidates(els, s, p, d) = Candidates(els, s, q, d)
      <4> HIDE DEF els
      <4> QED BY <3>1 DEF Candidates
    <3>3. \A d : FirstMatch(b.tariffs, t, s, p, d) = FirstMatch(b.tariffs, t, s, q, d)
      <4> DEFINE G(es, d) ==
                   IF es = {} THEN {}
                   ELSE LET e  == Least(es)
                            cs == els[e].components
                            j  == Least({k \in DOMAIN cs : cs[k].type = d})
                        IN  {[tariff |-> t, element |-> e, comp |-> cs[j]]}
      <4>1. \A x, d : FirstMatch(b.tariffs, t, s, x, d) = G(Candidates(els, s, x, d), d)
        BY Zenon DEF FirstMatch
      <4> HIDE DEF G, els
      <4> QED BY <3>2, <4>1
    <3> QED BY <3>3 DEF ActiveComponents
  <2>5. Active(a, ps, z) = Active(b, qs, z)
    <3> DEFINE F(ts, tariff, snap, p) ==
                 IF tariff = {} THEN [d \in Dims |-> {}]
                 ELSE ActiveComponents(ts, CHOOSE t \in tariff : TRUE, snap, p)
               S(in, rs) == Snapshots(in.start, in.end, rs, z)
    <3>1. \A in, rs : Active(in, rs, z) =
            [k \in DOMAIN rs |-> F(in.tariffs, rs[k].tariff, S(in, rs)[k - 1], rs[k])]
      BY Zenon DEF Active
    <3>2. \A k \in DOMAIN qs : S(a, ps)[k - 1] = S(b, qs)[k - 1]  BY <2>3
    <3>3. \A k \in DOMAIN qs : \A s : F(b.tariffs, qs[k].tariff, s, ps[k]) = F(b.tariffs, qs[k].tariff, s, qs[k])
      <4> SUFFICES ASSUME NEW k \in DOMAIN qs, NEW s
                   PROVE  F(b.tariffs, qs[k].tariff, s, ps[k]) = F(b.tariffs, qs[k].tariff, s, qs[k])
        OBVIOUS
      <4>1. CASE qs[k].tariff = {}  BY <4>1
      <4>2. CASE qs[k].tariff # {}
        <5>1. (CHOOSE t \in qs[k].tariff : TRUE) \in DOMAIN b.tariffs  BY <2>2, <4>2
        <5> QED BY <2>4, <4>2, <5>1
      <4> QED BY <4>1, <4>2
    <3> HIDE DEF F, S
    <3>4. \A k \in DOMAIN qs : F(a.tariffs, ps[k].tariff, S(a, ps)[k - 1], ps[k])
                                 = F(b.tariffs, qs[k].tariff, S(b, qs)[k - 1], qs[k])
      BY <1>4, <3>2, <3>3 DEF SameCharge
    <3> QED BY <1>4, <3>1, <3>4
  <2>6. ActiveOf(a, o) = ActiveOf(b, o)  BY <1>3, <2>5 DEF ActiveOf, ps, qs, z
  <2> DEFINE act == ActiveOf(b, o)
  <2>7. \A d : Ledger(ps, act, d) = Ledger(qs, act, d)
    <3> HIDE DEF act
    <3> SUFFICES ASSUME NEW d PROVE Ledger(ps, act, d) = Ledger(qs, act, d)  OBVIOUS
    <3> DEFINE D(rs) == {j \in DOMAIN rs : rs[j].volume[d] # {} /\ act[j][d] # {}}
               entry(v, i) == [volume |-> v, comp |-> (CHOOSE m \in act[i][d] : TRUE).comp]
    <3>1. D(ps) = D(qs)  BY <1>4 DEF SameCharge
    <3>2. \A i \in DOMAIN qs : Volume(ps[i], d) = Volume(qs[i], d)
      <4>1. \A x, y : x.volume = y.volume => Volume(x, d) = Volume(y, d)  BY DEF Volume
      <4>2. \A i \in DOMAIN qs : ps[i].volume = qs[i].volume  BY <1>4 DEF SameCharge
      <4> QED BY <4>1, <4>2
    <3>3. \A rs : Ledger(rs, act, d) =
            [i \in D(rs) |-> entry(Volume(rs[i], d), i)]
      BY Zenon DEF Ledger
    <3>4. \A i \in D(qs) : i \in DOMAIN qs  OBVIOUS
    <3> HIDE DEF D, entry
    <3>5. [i \in D(qs) |-> entry(Volume(ps[i], d), i)] = [i \in D(qs) |-> entry(Volume(qs[i], d), i)]
      BY <3>2, <3>4
    <3>6. Ledger(ps, act, d) = [i \in D(ps) |-> entry(Volume(ps[i], d), i)]  BY <3>3
    <3>7. Ledger(qs, act, d) = [i \in D(qs) |-> entry(Volume(qs[i], d), i)]  BY <3>3
    <3> QED BY <3>1, <3>5, <3>6, <3>7
  <2>8. HasIdleStep(ps, act) = HasIdleStep(qs, act)
    <3> HIDE DEF act
    <3>1. HasIdleStep(ps, act) <=> HasIdleStep(qs, act)  BY <1>4 DEF HasIdleStep, SameCharge
    <3>2. HasIdleStep(ps, act) \in BOOLEAN /\ HasIdleStep(qs, act) \in BOOLEAN  BY DEF HasIdleStep
    <3> QED BY <3>1, <3>2
  <2>9. UsedTariffs(ps) = UsedTariffs(qs)
    <3>1. {ps[i].tariff : i \in DOMAIN ps} = {qs[i].tariff : i \in DOMAIN qs}
      BY <1>4 DEF SameCharge
    <3> QED BY <3>1 DEF UsedTariffs
  <2>10. \A d \in Volumed : LedgerOf(a, o, d) = LedgerOf(b, o, d)
    BY <2>6, <2>7 DEF LedgerOf, ps, qs
  <2>11. IdleOf(a, o) = IdleOf(b, o) /\ UsedBy(a) = UsedBy(b)
    BY <2>6, <2>8, <2>9 DEF IdleOf, UsedBy, ps, qs
  <2> QED BY <1>2, <2>6, <2>10, <2>11 DEF PricedAlike
<1> QED BY <1>2, <1>5, PricedAlikeBilledAlike

-----------------------------------------------------------------------------
(* Rounding to the currency.                                                *)

\* The nearest multiple of a unit to a number that is not negative.
LEMMA NearestMultiple ==
    ASSUME NEW x \in Nat, NEW unit \in Nat \ {0}
    PROVE  LET m == ((2 * x + unit) \div (2 * unit)) * unit
           IN  m \in Int /\ 2 * (m - x) <= unit /\ 2 * (x - m) < unit
<1> DEFINE q == (2 * x + unit) \div (2 * unit)
           r == (2 * x + unit) % (2 * unit)
<1>1. 2 * x + unit \in Int /\ 2 * unit \in Nat \ {0}  OBVIOUS
<1>2. q \in Int /\ r \in 0 .. 2 * unit - 1 /\ 2 * x + unit = (2 * unit) * q + r
  BY <1>1, DivisionFacts
<1> HIDE DEF q, r
<1>3. (2 * unit) * q = 2 * (q * unit) /\ q * unit \in Int  BY <1>2
<1>4. q * unit \in Int /\ 2 * (q * unit - x) <= unit /\ 2 * (x - q * unit) < unit  BY <1>2, <1>3
<1> QED BY <1>4 DEF q

\* roundCurrency gives a multiple of the currency's unit that is off by at most
\* half a unit, does not change the sign, and treats charges and credits alike.
THEOREM RoundCurrencyIsNearest ==
    ASSUME NEW x \in Int, NEW unit \in Nat \ {0}
    PROVE  /\ \E k \in Int : RoundCurrency(x, unit) = k * unit
           /\ 2 * (RoundCurrency(x, unit) - x) <= unit
           /\ 2 * (x - RoundCurrency(x, unit)) <= unit
           /\ RoundCurrency(-x, unit) = -RoundCurrency(x, unit)
<1> DEFINE up(y) == ((2 * y + unit) \div (2 * unit)) * unit
<1>1. ASSUME NEW y \in Nat
      PROVE  /\ up(y) \in Int /\ 2 * (up(y) - y) <= unit /\ 2 * (y - up(y)) < unit
             /\ \E k \in Int : up(y) = k * unit
  <2>1. (2 * y + unit) \div (2 * unit) \in Int
    BY DivisionFacts, 2 * y + unit \in Int, 2 * unit \in Nat \ {0}
  <2> QED BY <2>1, NearestMultiple
<1>2. /\ x >= 0 => RoundCurrency(x, unit) = up(x)
      /\ x < 0 => RoundCurrency(x, unit) = -up(-x)
  <2>1. unit - 2 * x = 2 * (-x) + unit  OBVIOUS
  <2>2. RoundCurrency(x, unit) = IF x >= 0 THEN up(x) ELSE -(((unit - 2 * x) \div (2 * unit)) * unit)
    BY DEF RoundCurrency
  <2> QED BY <2>1, <2>2
<1>3. /\ -x >= 0 => RoundCurrency(-x, unit) = up(-x)
      /\ -x < 0 => RoundCurrency(-x, unit) = -up(x)
  <2>1. unit - 2 * (-x) = 2 * x + unit  OBVIOUS
  <2>2. RoundCurrency(-x, unit)
          = IF -x >= 0 THEN up(-x) ELSE -(((unit - 2 * (-x)) \div (2 * unit)) * unit)
    BY DEF RoundCurrency
  <2> QED BY <2>1, <2>2
<1>4. up(0) = 0
  <2>1. up(0) \in Int /\ 2 * up(0) <= unit /\ -2 * up(0) < unit  BY <1>1
  <2>2. PICK k \in Int : up(0) = k * unit  BY <1>1
  <2> HIDE DEF up
  <2>3. k = 0
    <3>1. CASE k >= 1
      <4>1. k * unit >= unit  BY <3>1
      <4> QED BY <2>1, <2>2, <4>1
    <3>2. CASE k <= -1
      <4>1. (-k) * unit >= unit /\ (-k) * unit = -(k * unit)  BY <3>2
      <4> QED BY <2>1, <2>2, <4>1
    <3> QED BY <3>1, <3>2
  <2> QED BY <2>2, <2>3
<1> HIDE DEF up
<1>5. CASE x >= 0
  <2>0. x \in Nat  BY <1>5
  <2>1. up(x) \in Int /\ 2 * (up(x) - x) <= unit /\ 2 * (x - up(x)) < unit  BY <1>1, <2>0
  <2>2. \E k \in Int : up(x) = k * unit  BY <1>1, <2>0
  <2>3. RoundCurrency(-x, unit) = -up(x)
    BY <1>2, <1>3, <1>4, <1>5
  <2> QED BY <1>2, <1>5, <2>1, <2>2, <2>3
<1>6. CASE x < 0
  <2>1. -x \in Nat  BY <1>6
  <2>2. up(-x) \in Int /\ 2 * (up(-x) - (-x)) <= unit /\ 2 * (-x - up(-x)) < unit  BY <1>1, <2>1
  <2>3. PICK k \in Int : up(-x) = k * unit  BY <1>1, <2>1
  <2>4. -up(-x) = (-k) * unit /\ -k \in Int  BY <2>3
  <2>5. RoundCurrency(x, unit) = -up(-x) /\ RoundCurrency(-x, unit) = up(-x)  BY <1>2, <1>3, <1>6
  <2>6. /\ 2 * (-up(-x) - x) <= unit /\ 2 * (x - (-up(-x))) <= unit
        /\ up(-x) = -(-up(-x))
    BY <2>2
  <2> QED BY <2>4, <2>5, <2>6
<1> QED BY <1>5, <1>6

\* A product does not turn an inequality round.
LEMMA Scaled ==
    ASSUME NEW x \in Int, NEW y \in Int, x <= y, NEW k \in Nat
    PROVE  k * x <= k * y
<1>1. y - x \in Nat /\ k * (y - x) >= 0  OBVIOUS
<1>2. k * (y - x) = k * y - k * x  OBVIOUS
<1> QED BY <1>1, <1>2

\* The cost that Calculate reports of a dimension is that of the volumes it bills,
\* exact but for half of the fourth decimal and half a unit of the currency,
\* however many periods the session has: nothing is rounded period by period.
\* (priceSessionDimension, roundReport)
THEOREM CostsAreNearTheExact ==
    ASSUME NEW in \in Inputs, NEW o \in EngineOptions, NEW d \in Volumed,
           Calculate(in, o).error = "none"
    PROVE  LET exact == Raw(WithStep(d, LedgerOf(in, o, d), IdleOf(in, o)))
               cost  == Base[d] * Calculate(in, o).cost[d].before
           IN  /\ o.precision = {} => /\ 2 * (cost - exact) <= Base[d]
                                      /\ 2 * (exact - cost) <= Base[d]
               /\ \A u \in o.precision : /\ 2 * (cost - exact) <= Base[d] * (u + 1)
                                         /\ 2 * (exact - cost) <= Base[d] * (u + 1)
<1> DEFINE exact == Raw(WithStep(d, LedgerOf(in, o, d), IdleOf(in, o)))
           kept == CostOf(in, o)[d].before
           b == Base[d]
<1>1. ~ Refused(in, o) /\ ~ StepRefused(in, o)  BY ReportsAreTyped
<1>2. /\ exact \in Int /\ b \in Nat \ {0} /\ kept = RoundBank(exact, b)
      /\ CostOf(in, o)[d] \in Moneys
  <2>1. Valid(in)  BY <1>1 DEF Refused
  <2>2. IsLedger(LedgerOf(in, o, d))  BY <2>1, ValidInputs, LedgerTyped DEF LedgerOf
  <2>3. ~ StepFails(d, LedgerOf(in, o, d), IdleOf(in, o))  BY <1>1 DEF StepRefused
  <2>4. IsLedger(WithStep(d, LedgerOf(in, o, d), IdleOf(in, o)))  BY <2>2, <2>3, WithStepFacts
  <2>5. exact \in Int  BY <2>4, RawTyped
  <2>6. CostOf(in, o)[d] = SessionCost(d, LedgerOf(in, o, d), IdleOf(in, o))  BY <1>1, CostsTyped
  <2>7. kept = RoundBank(exact, b)  BY <2>2, <2>3, <2>6, SessionCostFacts
  <2>8. CostOf(in, o)[d] \in Moneys  BY <1>1, CostsTyped DEF Dims
  <2> QED BY <2>5, <2>7, <2>8, BaseAssumption
<1>3. Calculate(in, o).cost[d] = RoundedTo(CostOf(in, o)[d], o)
  BY <1>1, CalculateFacts DEF Dims
<1>4. kept \in Int  BY <1>2 DEF Moneys
<1> DEFINE cost == Calculate(in, o).cost[d].before
<1>5. o.precision = {} => cost = kept
  BY <1>3 DEF RoundedTo
<1>6. \A u \in o.precision : u \in Nat \ {0} /\ cost = RoundCurrency(kept, u)
  <2> SUFFICES ASSUME NEW u \in o.precision
               PROVE  u \in Nat \ {0} /\ cost = RoundCurrency(kept, u)
    OBVIOUS
  <2>1. o.precision \in Opt(Nat \ {0})  BY DEF EngineOptions
  <2> DEFINE q == o.precision
             c == CHOOSE x \in q : TRUE
  <2>2. q # {} /\ u \in q  OBVIOUS
  <2>3. q \in Opt(Nat \ {0})  BY <2>1
  <2>4. RoundedTo(CostOf(in, o)[d], o) = RoundMoney(CostOf(in, o)[d], c)
    BY <2>2 DEF RoundedTo
  <2> HIDE DEF q
  <2>5. q \subseteq Nat \ {0} /\ \A x, y \in q : x = y  BY <2>3 DEF Opt
  <2>6. c \in q /\ u = c  BY <2>2, <2>5
  <2> HIDE DEF c
  <2>7. cost = RoundCurrency(kept, u)  BY <1>3, <2>4, <2>6 DEF RoundMoney
  <2> QED BY <2>2, <2>5, <2>7
<1> HIDE DEF exact, kept, b, cost
<1>7. 2 * (b * kept - exact) <= b /\ 2 * (exact - b * kept) <= b
  BY <1>2, RoundBankIsNearest
<1>8. ASSUME NEW u \in o.precision
      PROVE  2 * (b * cost - exact) <= b * (u + 1) /\ 2 * (exact - b * cost) <= b * (u + 1)
  <2>1. /\ u \in Nat \ {0} /\ cost \in Int
        /\ 2 * (cost - kept) <= u /\ 2 * (kept - cost) <= u
    BY <1>4, <1>6, RoundCurrencyTyped, RoundCurrencyIsNearest
  <2>2. b * (2 * (cost - kept)) <= b * u /\ b * (2 * (kept - cost)) <= b * u
    BY <1>2, <1>4, <2>1, Scaled
  <2> DEFINE bc == b * cost
             bk == b * kept
             bu == b * u
  <2>3. /\ b * (2 * (cost - kept)) = 2 * (bc - bk) /\ b * (2 * (kept - cost)) = 2 * (bk - bc)
        /\ b * (u + 1) = bu + b
    BY <1>2, <1>4, <2>1
  <2>4. bc \in Int /\ bk \in Int /\ bu \in Int  BY <1>2, <1>4, <2>1
  <2> HIDE DEF bc, bk, bu
  <2>5. 2 * (bc - bk) <= bu /\ 2 * (bk - bc) <= bu  BY <2>2, <2>3 DEF bu
  <2>6. 2 * (bk - exact) <= b /\ 2 * (exact - bk) <= b  BY <1>7 DEF bk
  <2>7. 2 * (bc - exact) <= bu + b /\ 2 * (exact - bc) <= bu + b
    BY <1>2, <2>4, <2>5, <2>6
  <2> QED BY <2>3, <2>7 DEF bc
<1> QED BY <1>5, <1>7, <1>8 DEF exact, cost, b

-----------------------------------------------------------------------------
(* What the elements of a tariff leave between them.                        *)

\* Two elements whose time windows meet at both ends share the day out: one
\* of them, and one only, holds at every minute, whichever wraps past midnight.
\* A window that ends where it starts holds at none.
THEOREM WindowsShareTheDay ==
    ASSUME NEW a \in Int, NEW b \in Int, NEW minute \in Int
    PROVE  /\ a # b => (MatchesTimeWindow({a}, {b}, minute) <=> ~ MatchesTimeWindow({b}, {a}, minute))
           /\ ~ MatchesTimeWindow({a}, {a}, minute)
<1>1. ASSUME NEW x \in Int, NEW y \in Int
      PROVE  MatchesTimeWindow({x}, {y}, minute) <=>
                 IF y < x THEN minute >= x \/ minute < y ELSE minute >= x /\ minute < y
  BY DEF MatchesTimeWindow
<1> QED BY <1>1

\* The restrictions with a single bound in them.
ConsumptionRestriction(field, x) == [NoRestrictions EXCEPT ![field] = {x}]
Matched(field, x, s, p) == Matches(ConsumptionRestriction(field, x), s, p)

\* Tiers of a tariff meet at their bound: of the element up to x and the one from
\* x on, for the energy or the duration of the session or its date, exactly one
\* holds, whatever the period.
THEOREM TiersMeet ==
    ASSUME NEW x \in Int, NEW p,
           NEW s, s.energy \in Int, s.durSession \in Int, LocalDate(s) \in Int
    PROVE  /\ Matched("minKwh", x, s, p) <=> ~ Matched("maxKwh", x, s, p)
           /\ Matched("minDuration", x, s, p) <=> ~ Matched("maxDuration", x, s, p)
           /\ Matched("fromDate", x, s, p) <=> ~ Matched("untilDate", x, s, p)
<1> USE DEF Matched, ConsumptionRestriction, Matches, NoRestrictions, MatchesTimeWindow
<1>1. Matched("minKwh", x, s, p) <=> s.energy >= x  OBVIOUS
<1>2. Matched("maxKwh", x, s, p) <=> s.energy < x  OBVIOUS
<1>3. Matched("minDuration", x, s, p) <=> s.durSession >= x  OBVIOUS
<1>4. Matched("maxDuration", x, s, p) <=> s.durSession < x  OBVIOUS
<1>5. Matched("fromDate", x, s, p) <=> LocalDate(s) >= x  OBVIOUS
<1>6. Matched("untilDate", x, s, p) <=> LocalDate(s) < x  OBVIOUS
<1> HIDE DEF Matched
<1> QED BY <1>1, <1>2, <1>3, <1>4, <1>5, <1>6

\* Between readings there may be no gap either, but the tiers overlap: the
\* element from x on looks at the period's largest reading, the one up to x at
\* its smallest, and without a reading both hold.  The first one in the tariff
\* then prices the period.
THEOREM ReadingTiersLeaveNoGap ==
    ASSUME NEW x \in Int, NEW s, NEW p \in Periods,
           \A lo \in p.minPower, hi \in p.maxPower : lo <= hi,
           \A lo \in p.minCurrent, hi \in p.maxCurrent : lo <= hi
    PROVE  /\ Matched("minPower", x, s, p) \/ Matched("maxPower", x, s, p)
           /\ Matched("minCurrent", x, s, p) \/ Matched("maxCurrent", x, s, p)
           /\ Matched("minPower", x, s, p) /\ Matched("maxPower", x, s, p) <=>
                  (\A hi \in p.maxPower : x <= hi) /\ (\A lo \in p.minPower : lo < x)
<1>1. p.minPower \subseteq Int /\ p.maxPower \subseteq Int /\ p.minCurrent \subseteq Int
      /\ p.maxCurrent \subseteq Int
  BY DEF Periods, Opt
<1> DEFINE lowP == p.minPower
           highP == p.maxPower
           lowC == p.minCurrent
           highC == p.maxCurrent
<1>2. /\ Matched("minPower", x, s, p) <=> \A q \in highP : q >= x
      /\ Matched("maxPower", x, s, p) <=> \A q \in lowP : q < x
      /\ Matched("minCurrent", x, s, p) <=> \A q \in highC : q >= x
      /\ Matched("maxCurrent", x, s, p) <=> \A q \in lowC : q < x
  BY DEF Matched, ConsumptionRestriction, Matches, NoRestrictions, MatchesTimeWindow
<1>3. /\ \A lo \in lowP, hi \in highP : lo <= hi
      /\ \A lo \in lowC, hi \in highC : lo <= hi
  OBVIOUS
<1> HIDE DEF lowP, highP, lowC, highC
<1>4. lowP \subseteq Int /\ highP \subseteq Int /\ lowC \subseteq Int /\ highC \subseteq Int
  BY <1>1 DEF lowP, highP, lowC, highC
<1>5. \A y, z \in Int : y <= z => ~ (z < x /\ y >= x)  OBVIOUS
<1> QED BY <1>2, <1>3, <1>4 DEF lowP, highP

\* activeComponents takes the component of a dimension from the earliest element
\* that applies and has one, and within it the earliest of its components.
THEOREM EarliestElementPrices ==
    ASSUME NEW ts \in Seq(Tariffs), NEW t \in DOMAIN ts, NEW s, NEW p, NEW d \in Dims
    PROVE  LET els == ts[t].elements
               es  == Candidates(els, s, p, d)
           IN  /\ es = {} => FirstMatch(ts, t, s, p, d) = {}
               /\ \A e \in es : (\A f \in es : e <= f) =>
                    \E j \in DOMAIN els[e].components :
                       /\ els[e].components[j].type = d
                       /\ \A k \in DOMAIN els[e].components :
                             els[e].components[k].type = d => j <= k
                       /\ FirstMatch(ts, t, s, p, d)
                            = {[tariff |-> t, element |-> e, comp |-> els[e].components[j]]}
<1> DEFINE els == ts[t].elements
           es  == Candidates(els, s, p, d)
           js(e) == {k \in DOMAIN els[e].components : els[e].components[k].type = d}
<1>1. FirstMatch(ts, t, s, p, d) =
        IF es = {} THEN {}
        ELSE {[tariff |-> t, element |-> Least(es),
               comp |-> els[Least(es)].components[Least(js(Least(es)))]]}
  BY DEF FirstMatch
<1>2. els \in Seq(Elements)
  <2>1. ts[t] \in Tariffs  BY PlacesAreFinite
  <2> QED BY <2>1 DEF Tariffs
<1>3. es \subseteq DOMAIN els /\ \A e \in es : js(e) # {}  BY DEF Candidates
<1> HIDE DEF els
<1>4. DOMAIN els \subseteq Int /\ \A e \in DOMAIN els : els[e] \in Elements  BY <1>2, PlacesAreFinite
<1> HIDE DEF es
<1>5. ASSUME NEW e \in es, \A f \in es : e <= f
      PROVE  \E j \in js(e) : /\ \A k \in js(e) : j <= k
                              /\ FirstMatch(ts, t, s, p, d)
                                   = {[tariff |-> t, element |-> e, comp |-> els[e].components[j]]}
  <2>1. Least(es) = e
    <3>1. Least(es) \in es /\ \A y \in es : Least(es) <= y  BY <1>5 DEF Least
    <3>2. Least(es) <= e /\ e <= Least(es) /\ e \in Int /\ Least(es) \in Int  BY <1>3, <1>4, <1>5, <3>1
    <3> QED BY <3>2
  <2>2. els[e].components \in Seq(PriceComponents)  BY <1>3, <1>4 DEF Elements
  <2>3. IsFiniteSet(DOMAIN els[e].components) /\ DOMAIN els[e].components \subseteq Int
    BY <2>2, PlacesAreFinite
  <2>4. js(e) \in SUBSET Int /\ IsFiniteSet(js(e)) /\ js(e) # {}
    <3>1. js(e) \subseteq DOMAIN els[e].components /\ js(e) # {}  BY <1>3
    <3> HIDE DEF js
    <3> QED BY <2>3, <3>1, FS_Subset
  <2> HIDE DEF js
  <2>5. Least(js(e)) \in js(e) /\ \A k \in js(e) : Least(js(e)) <= k  BY <2>4, LeastFacts
  <2> QED BY <1>1, <2>1, <2>5
<1>6. \A e \in es : (\A f \in es : e <= f) =>
        \E j \in DOMAIN els[e].components :
           /\ els[e].components[j].type = d
           /\ \A k \in DOMAIN els[e].components : els[e].components[k].type = d => j <= k
           /\ FirstMatch(ts, t, s, p, d)
                = {[tariff |-> t, element |-> e, comp |-> els[e].components[j]]}
  <2> SUFFICES ASSUME NEW e \in es, \A f \in es : e <= f
               PROVE  \E j \in DOMAIN els[e].components :
           /\ els[e].components[j].type = d
           /\ \A k \in DOMAIN els[e].components : els[e].components[k].type = d => j <= k
           /\ FirstMatch(ts, t, s, p, d)
                = {[tariff |-> t, element |-> e, comp |-> els[e].components[j]]}
    OBVIOUS
  <2> QED BY <1>5, Zenon
<1>7. es = {} => FirstMatch(ts, t, s, p, d) = {}  BY <1>1
<1> QED BY <1>6, <1>7, Zenon DEF es, els

\* The elements behind the one that prices a dimension have no part in it: two
\* tariffs that agree up to an element that applies price the dimension alike.
THEOREM LaterElementsPriceNothing ==
    ASSUME NEW ts \in Seq(Tariffs), NEW us \in Seq(Tariffs), NEW t \in DOMAIN ts \cap DOMAIN us,
           NEW s, NEW p, NEW d \in Dims,
           NEW e \in Candidates(ts[t].elements, s, p, d),
           e \in DOMAIN us[t].elements,
           \A f \in 1 .. e : us[t].elements[f] = ts[t].elements[f]
    PROVE  FirstMatch(us, t, s, p, d) = FirstMatch(ts, t, s, p, d)
<1> DEFINE old == ts[t].elements
           new == us[t].elements
           cs == Candidates(old, s, p, d)
           ds == Candidates(new, s, p, d)
           C(els, f) == /\ Matches(els[f].restrictions, s, p)
                        /\ \E j \in DOMAIN els[f].components : els[f].components[j].type = d
           F(es, els) == IF es = {} THEN {}
                         ELSE {[tariff |-> t, element |-> Least(es),
                                comp |-> els[Least(es)].components[
                                    Least({k \in DOMAIN els[Least(es)].components :
                                              els[Least(es)].components[k].type = d})]]}
<1>1. FirstMatch(ts, t, s, p, d) = F(cs, old) /\ FirstMatch(us, t, s, p, d) = F(ds, new)
  BY DEF FirstMatch
<1>2. /\ \A f : f \in cs <=> f \in DOMAIN old /\ C(old, f)
      /\ \A f : f \in ds <=> f \in DOMAIN new /\ C(new, f)
  BY DEF Candidates
<1>3. old \in Seq(Elements) /\ new \in Seq(Elements)
  <2>1. ts[t] \in Tariffs /\ us[t] \in Tariffs  BY PlacesAreFinite
  <2> QED BY <2>1 DEF Tariffs
<1>4. e \in cs /\ e \in DOMAIN new /\ \A f \in 1 .. e : new[f] = old[f]  OBVIOUS
<1> HIDE DEF old, new
<1>5. /\ DOMAIN old = 1 .. Len(old) /\ Len(old) \in Nat /\ IsFiniteSet(DOMAIN old)
      /\ DOMAIN new = 1 .. Len(new) /\ Len(new) \in Nat /\ IsFiniteSet(DOMAIN new)
  BY <1>3, PlacesAreFinite
<1>6. \A f \in 1 .. e : C(old, f) <=> C(new, f)  BY <1>4
<1> HIDE DEF cs, ds, C, F
<1>7. \A f \in 1 .. e : f \in DOMAIN old /\ f \in DOMAIN new
  BY <1>2, <1>4, <1>5
<1>8. \A f \in 1 .. e : f \in cs <=> f \in ds  BY <1>2, <1>6, <1>7
<1>9. e \in 1 .. e  BY <1>2, <1>4, <1>5
<1>10. /\ cs # {} /\ ds # {} /\ cs \in SUBSET Int /\ ds \in SUBSET Int
       /\ IsFiniteSet(cs) /\ IsFiniteSet(ds)
       /\ cs \subseteq Nat \ {0} /\ ds \subseteq Nat \ {0}
  <2>1. cs \subseteq DOMAIN old /\ ds \subseteq DOMAIN new  BY <1>2
  <2>2. cs # {} /\ ds # {}  BY <1>4, <1>8, <1>9
  <2>3. IsFiniteSet(cs) /\ IsFiniteSet(ds)  BY <1>5, <2>1, FS_Subset
  <2>4. DOMAIN old \subseteq Nat \ {0} /\ DOMAIN new \subseteq Nat \ {0}  BY <1>5
  <2> QED BY <2>1, <2>2, <2>3, <2>4
<1>11. Least(cs) \in cs /\ \A y \in cs : Least(cs) <= y  BY <1>10, LeastFacts
<1>12. Least(ds) \in ds /\ \A y \in ds : Least(ds) <= y  BY <1>10, LeastFacts
<1>13. Least(cs) \in 1 .. e /\ Least(ds) \in 1 .. e
  <2>1. e \in cs /\ e \in ds  BY <1>4, <1>8, <1>9
  <2>2. Least(cs) <= e /\ Least(ds) <= e  BY <1>11, <1>12, <2>1
  <2>3. e \in Nat \ {0} /\ Least(cs) \in Nat \ {0} /\ Least(ds) \in Nat \ {0}
    BY <1>10, <1>11, <1>12, <2>1
  <2> QED BY <2>2, <2>3
<1>14. Least(cs) = Least(ds)
  <2>1. Least(cs) \in ds /\ Least(ds) \in cs  BY <1>8, <1>11, <1>12, <1>13
  <2>2. Least(ds) <= Least(cs) /\ Least(cs) <= Least(ds)  BY <1>11, <1>12, <2>1
  <2>3. Least(cs) \in Nat /\ Least(ds) \in Nat  BY <1>10, <1>11, <1>12
  <2> QED BY <2>2, <2>3
<1>15. old[Least(cs)] = new[Least(ds)]  BY <1>4, <1>13, <1>14
<1> QED BY <1>1, <1>10, <1>14, <1>15 DEF F

\* An element without restrictions prices whatever the elements before it do not.
THEOREM UnrestrictedElementsPriceAll ==
    ASSUME NEW ts \in Seq(Tariffs), NEW t \in DOMAIN ts, NEW s, NEW p, NEW d \in Dims,
           NEW e \in DOMAIN ts[t].elements,
           ts[t].elements[e].restrictions = NoRestrictions,
           \E j \in DOMAIN ts[t].elements[e].components : ts[t].elements[e].components[j].type = d
    PROVE  FirstMatch(ts, t, s, p, d) # {}
<1>1. Matches(NoRestrictions, s, p)  BY DEF Matches, NoRestrictions, MatchesTimeWindow
<1>2. Candidates(ts[t].elements, s, p, d) # {}  BY <1>1 DEF Candidates
<1> DEFINE es == Candidates(ts[t].elements, s, p, d)
           m == [tariff |-> t, element |-> Least(es),
                 comp |-> ts[t].elements[Least(es)].components[
                     Least({k \in DOMAIN ts[t].elements[Least(es)].components :
                               ts[t].elements[Least(es)].components[k].type = d})]]
<1>3. FirstMatch(ts, t, s, p, d) = IF es = {} THEN {} ELSE {m}  BY DEF FirstMatch
<1> HIDE DEF m
<1> QED BY <1>2, <1>3
=============================================================================

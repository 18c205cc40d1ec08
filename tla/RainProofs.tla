----------------------------- MODULE RainProofs -----------------------------
(* Theorems about Rain, for every value of its constants.                    *)
EXTENDS Rain, WellFoundedInduction, TLAPS

-----------------------------------------------------------------------------
(* Sums.  SumTo is a recursive function: that its equation has a solution is *)
(* shown with the least number for which it would have none.                 *)

\* Every set of numbers has a least element.
LEMMA LeastNumber ==
    ASSUME NEW T, T \subseteq Nat, T # {}
    PROVE  \E x \in T : \A y \in T : x <= y
<1>1. IsWellFoundedOn(OpToRel(<, Nat), Nat)
  BY NatLessThanWellFounded
<1>2. \E x \in T : \A y \in T : ~(<<y, x>> \in OpToRel(<, Nat))
  BY <1>1, WFMin, Zenon
<1>3. \A x, y \in T : <<y, x>> \in OpToRel(<, Nat) <=> y < x
  BY DEF OpToRel
<1>4. \A x, y \in T : ~(y < x) => x <= y
  OBVIOUS
<1> QED
  BY <1>2, <1>3, <1>4, Zenon

\* Induction, for a set of numbers.
LEMMA Induction ==
    ASSUME NEW T, 0 \in T, \A n \in Nat : n \in T => n + 1 \in T
    PROVE  Nat \subseteq T
<1> DEFINE Bad == Nat \ T
<1> SUFFICES ASSUME Bad # {} PROVE FALSE
  OBVIOUS
<1>1. PICK n \in Bad : \A y \in Bad : n <= y
  BY LeastNumber, Zenon
<1>2. n \in Nat /\ n \notin T /\ n # 0
  OBVIOUS
<1>3. n - 1 \in Nat /\ n - 1 + 1 = n /\ ~(n <= n - 1)
  BY <1>2
<1>4. n - 1 \in T
  BY <1>1, <1>3
<1> QED
  BY <1>2, <1>3, <1>4

\* One step of the sum, and the sum up to n.
Step(f, S, g, n) == Part(f, S, n) + (IF n = 0 THEN 0 ELSE g[n - 1])
Upto(f, S, g, n) == g = [k \in 0..n |-> Step(f, S, g, k)]

LEMMA UptoExists == ASSUME NEW f, NEW S PROVE \A n \in Nat : \E g : Upto(f, S, g, n)
<1> DEFINE T == {n \in Nat : \E g : Upto(f, S, g, n)}
<1>1. 0 \in T
  <2> DEFINE g == [k \in 0..0 |-> Part(f, S, k) + 0]
  <2>1. Upto(f, S, g, 0)
    BY DEF Upto, Step
  <2> QED
    BY <2>1
<1>2. ASSUME NEW n \in Nat, n \in T PROVE n + 1 \in T
  <2>1. PICK g : Upto(f, S, g, n)
    BY <1>2
  <2> DEFINE h == [k \in 0..(n + 1) |-> IF k = n + 1 THEN Part(f, S, n + 1) + g[n] ELSE g[k]]
  <2>2. ASSUME NEW k \in 0..(n + 1) PROVE h[k] = Step(f, S, h, k)
    <3>1. CASE k = n + 1
      <4>1. n + 1 # 0 /\ n \in 0..(n + 1) /\ n # n + 1 /\ k - 1 = n
        BY <3>1
      <4>2. h[n] = g[n] /\ h[k] = Part(f, S, k) + g[n]
        BY <3>1, <4>1
      <4> HIDE DEF h
      <4> QED
        BY <3>1, <4>1, <4>2 DEF Step
    <3>2. CASE k # n + 1
      <4>1. k \in 0..n /\ k # n + 1
        BY <3>2
      <4>2. g[k] = Step(f, S, g, k)
        BY <2>1, <4>1 DEF Upto
      <4>3. k # 0 => k - 1 \in 0..(n + 1) /\ k - 1 # n + 1
        BY <4>1
      <4>4. k # 0 => h[k - 1] = g[k - 1]
        BY <4>3
      <4>5. h[k] = g[k]
        BY <4>1
      <4> HIDE DEF h
      <4> QED
        BY <4>2, <4>4, <4>5 DEF Step
    <3> QED
      BY <3>1, <3>2
  <2>3. Upto(f, S, h, n + 1)
    <3>1. h = [k \in 0..(n + 1) |-> h[k]]
      OBVIOUS
    <3> HIDE DEF h
    <3> QED
      BY <2>2, <3>1 DEF Upto
  <2> QED
    BY <2>3
<1> HIDE DEF T
<1>3. Nat \subseteq T
  BY <1>1, <1>2, Induction
<1> QED
  BY <1>3 DEF T

LEMMA UptoUnique ==
    ASSUME NEW f, NEW S, NEW m \in Nat, NEW n \in Nat, NEW g, NEW h,
           Upto(f, S, g, m), Upto(f, S, h, n)
    PROVE  \A k \in Nat : k <= m /\ k <= n => g[k] = h[k]
<1> DEFINE T == {k \in Nat : k <= m /\ k <= n => g[k] = h[k]}
<1>0. ASSUME NEW k \in Nat, k <= m, k <= n
      PROVE  g[k] = Step(f, S, g, k) /\ h[k] = Step(f, S, h, k)
  <2>1. k \in 0..m /\ k \in 0..n
    BY <1>0
  <2>2. g = [i \in 0..m |-> Step(f, S, g, i)] /\ h = [i \in 0..n |-> Step(f, S, h, i)]
    BY DEF Upto
  <2> QED
    BY <2>1, <2>2, Zenon
<1>1. 0 \in T
  <2>1. g[0] = Step(f, S, g, 0) /\ h[0] = Step(f, S, h, 0)
    BY <1>0
  <2> QED
    BY <2>1 DEF Step
<1>2. ASSUME NEW k \in Nat, k \in T PROVE k + 1 \in T
  <2> SUFFICES ASSUME k + 1 <= m, k + 1 <= n PROVE g[k + 1] = h[k + 1]
    OBVIOUS
  <2>1. g[k] = h[k]
    BY <1>2
  <2>2. k + 1 # 0 /\ (k + 1) - 1 = k
    OBVIOUS
  <2>3. g[k + 1] = Step(f, S, g, k + 1) /\ h[k + 1] = Step(f, S, h, k + 1)
    BY <1>0
  <2> QED
    BY <2>1, <2>2, <2>3 DEF Step
<1> HIDE DEF T
<1>3. Nat \subseteq T
  BY <1>1, <1>2, Induction
<1> QED
  BY <1>3 DEF T

\* SumTo solves its equation.
LEMMA SumUnfolds ==
    ASSUME NEW f, NEW S, NEW n \in Nat
    PROVE  SumTo(f, S)[n] = Part(f, S, n) + (IF n = 0 THEN 0 ELSE SumTo(f, S)[n - 1])
<1> DEFINE U(k) == CHOOSE g : Upto(f, S, g, k)
           F == [k \in Nat |-> U(k)[k]]
<1>1. \A k \in Nat : Upto(f, S, U(k), k)
  BY UptoExists
<1>2. ASSUME NEW k \in Nat PROVE F[k] = Step(f, S, F, k)
  <2>1. U(k)[k] = Step(f, S, U(k), k)
    <3>1. Upto(f, S, U(k), k) /\ k \in 0..k
      BY <1>1
    <3> HIDE DEF U
    <3> QED
      BY <3>1 DEF Upto
  <2>2. k # 0 => U(k)[k - 1] = F[k - 1]
    <3> SUFFICES ASSUME k # 0 PROVE U(k)[k - 1] = F[k - 1]
      OBVIOUS
    <3>1. k - 1 \in Nat /\ k - 1 <= k /\ k - 1 <= k - 1
      OBVIOUS
    <3>2. Upto(f, S, U(k), k) /\ Upto(f, S, U(k - 1), k - 1)
      BY <1>1, <3>1
    <3>3. F[k - 1] = U(k - 1)[k - 1]
      BY <3>1
    <3> HIDE DEF U, F
    <3> QED
      BY <3>1, <3>2, <3>3, UptoUnique
  <2>3. F[k] = U(k)[k]
    OBVIOUS
  <2> HIDE DEF U, F
  <2> QED
    BY <2>1, <2>2, <2>3 DEF Step
<1>3. F = [k \in Nat |-> Part(f, S, k) + (IF k = 0 THEN 0 ELSE F[k - 1])]
  <2>1. F = [k \in Nat |-> F[k]]
    OBVIOUS
  <2> HIDE DEF F
  <2> QED
    BY <1>2, <2>1 DEF Step
<1> HIDE DEF F
<1>4. SumTo(f, S) = [k \in Nat |-> Part(f, S, k) + (IF k = 0 THEN 0 ELSE SumTo(f, S)[k - 1])]
  BY <1>3, Zenon DEF SumTo
<1> HIDE DEF SumTo
<1> QED
  BY <1>4

LEMMA SumFirst == ASSUME NEW f, NEW S PROVE SumTo(f, S)[0] = Part(f, S, 0) + 0
BY SumUnfolds

LEMMA SumNext ==
    ASSUME NEW f, NEW S, NEW n \in Nat
    PROVE  SumTo(f, S)[n + 1] = Part(f, S, n + 1) + SumTo(f, S)[n]
<1>1. n + 1 \in Nat /\ n + 1 # 0 /\ (n + 1) - 1 = n
  OBVIOUS
<1>2. SumTo(f, S)[n + 1] = Part(f, S, n + 1)
                             + (IF n + 1 = 0 THEN 0 ELSE SumTo(f, S)[(n + 1) - 1])
  BY <1>1, SumUnfolds
<1> QED
  BY <1>1, <1>2

LEMMA SumType ==
    ASSUME NEW f, NEW S, \A k \in Nat : Part(f, S, k) \in Nat
    PROVE  \A n \in Nat : SumTo(f, S)[n] \in Nat
<1> DEFINE T == {n \in Nat : SumTo(f, S)[n] \in Nat}
<1>1. 0 \in T
  BY SumFirst
<1>2. ASSUME NEW n \in Nat, n \in T PROVE n + 1 \in T
  <2>1. SumTo(f, S)[n + 1] = Part(f, S, n + 1) + SumTo(f, S)[n]
    BY SumNext
  <2>2. SumTo(f, S)[n] \in Nat /\ Part(f, S, n + 1) \in Nat
    BY <1>2
  <2> QED
    BY <2>1, <2>2
<1> HIDE DEF T
<1>3. Nat \subseteq T
  BY <1>1, <1>2, Induction
<1> QED
  BY <1>3 DEF T

\* A sum of sums.
LEMMA SumAdds ==
    ASSUME NEW f, NEW S, NEW g, NEW R, NEW h, NEW Q,
           \A k \in Nat : Part(f, S, k) \in Nat /\ Part(g, R, k) \in Nat
                            /\ Part(h, Q, k) = Part(f, S, k) + Part(g, R, k)
    PROVE  \A n \in Nat : SumTo(h, Q)[n] = SumTo(f, S)[n] + SumTo(g, R)[n]
<1> DEFINE T == {n \in Nat : SumTo(h, Q)[n] = SumTo(f, S)[n] + SumTo(g, R)[n]}
<1>0. \A n \in Nat : SumTo(f, S)[n] \in Nat /\ SumTo(g, R)[n] \in Nat
  BY SumType
<1>1. 0 \in T
  <2>1. /\ SumTo(h, Q)[0] = Part(h, Q, 0) + 0 /\ SumTo(f, S)[0] = Part(f, S, 0) + 0
        /\ SumTo(g, R)[0] = Part(g, R, 0) + 0
    BY SumFirst
  <2> QED
    BY <2>1
<1>2. ASSUME NEW n \in Nat, n \in T PROVE n + 1 \in T
  <2>1. /\ SumTo(h, Q)[n + 1] = Part(h, Q, n + 1) + SumTo(h, Q)[n]
        /\ SumTo(f, S)[n + 1] = Part(f, S, n + 1) + SumTo(f, S)[n]
        /\ SumTo(g, R)[n + 1] = Part(g, R, n + 1) + SumTo(g, R)[n]
    BY SumNext
  <2>2. SumTo(h, Q)[n] = SumTo(f, S)[n] + SumTo(g, R)[n]
    BY <1>2
  <2>3. /\ Part(f, S, n + 1) \in Nat /\ Part(g, R, n + 1) \in Nat
        /\ Part(h, Q, n + 1) = Part(f, S, n + 1) + Part(g, R, n + 1)
    OBVIOUS
  <2>4. SumTo(f, S)[n] \in Nat /\ SumTo(g, R)[n] \in Nat
    BY <1>0
  <2> QED
    BY <2>1, <2>2, <2>3, <2>4
<1> HIDE DEF T
<1>3. Nat \subseteq T
  BY <1>1, <1>2, Induction
<1> QED
  BY <1>3 DEF T

\* No part is greater: nor is the sum.
LEMMA SumMonotone ==
    ASSUME NEW f, NEW S, NEW g, NEW R,
           \A k \in Nat : Part(f, S, k) \in Nat /\ Part(g, R, k) \in Nat
                            /\ Part(f, S, k) <= Part(g, R, k)
    PROVE  \A n \in Nat : SumTo(f, S)[n] <= SumTo(g, R)[n]
<1> DEFINE T == {n \in Nat : SumTo(f, S)[n] <= SumTo(g, R)[n]}
<1>0. \A n \in Nat : SumTo(f, S)[n] \in Nat /\ SumTo(g, R)[n] \in Nat
  BY SumType
<1>1. 0 \in T
  <2>1. SumTo(f, S)[0] = Part(f, S, 0) + 0 /\ SumTo(g, R)[0] = Part(g, R, 0) + 0
    BY SumFirst
  <2> QED
    BY <2>1
<1>2. ASSUME NEW n \in Nat, n \in T PROVE n + 1 \in T
  <2>1. /\ SumTo(f, S)[n + 1] = Part(f, S, n + 1) + SumTo(f, S)[n]
        /\ SumTo(g, R)[n + 1] = Part(g, R, n + 1) + SumTo(g, R)[n]
    BY SumNext
  <2>2. SumTo(f, S)[n] <= SumTo(g, R)[n]
    BY <1>2
  <2>3. /\ Part(f, S, n + 1) \in Nat /\ Part(g, R, n + 1) \in Nat
        /\ Part(f, S, n + 1) <= Part(g, R, n + 1)
    OBVIOUS
  <2>4. SumTo(f, S)[n] \in Nat /\ SumTo(g, R)[n] \in Nat
    BY <1>0
  <2> QED
    BY <2>1, <2>2, <2>3, <2>4
<1> HIDE DEF T
<1>3. Nat \subseteq T
  BY <1>1, <1>2, Induction
<1> QED
  BY <1>3 DEF T

\* One part is greater by one.
LEMMA SumBump ==
    ASSUME NEW f, NEW S, NEW g, NEW j \in Nat,
           \A k \in Nat : Part(f, S, k) \in Nat
                            /\ Part(g, S, k) = Part(f, S, k) + (IF k = j THEN 1 ELSE 0)
    PROVE  \A n \in Nat : SumTo(g, S)[n] = SumTo(f, S)[n] + (IF j <= n THEN 1 ELSE 0)
<1> DEFINE T == {n \in Nat : SumTo(g, S)[n] = SumTo(f, S)[n] + (IF j <= n THEN 1 ELSE 0)}
<1>0. \A n \in Nat : SumTo(f, S)[n] \in Nat
  BY SumType
<1>1. 0 \in T
  <2>1. SumTo(f, S)[0] = Part(f, S, 0) + 0 /\ SumTo(g, S)[0] = Part(g, S, 0) + 0
    BY SumFirst
  <2>2. Part(f, S, 0) \in Nat /\ Part(g, S, 0) = Part(f, S, 0) + (IF 0 = j THEN 1 ELSE 0)
    OBVIOUS
  <2>3. j <= 0 <=> 0 = j
    OBVIOUS
  <2> QED
    BY <2>1, <2>2, <2>3
<1>2. ASSUME NEW n \in Nat, n \in T PROVE n + 1 \in T
  <2>1. /\ SumTo(f, S)[n + 1] = Part(f, S, n + 1) + SumTo(f, S)[n]
        /\ SumTo(g, S)[n + 1] = Part(g, S, n + 1) + SumTo(g, S)[n]
    BY SumNext
  <2>2. SumTo(g, S)[n] = SumTo(f, S)[n] + (IF j <= n THEN 1 ELSE 0)
    BY <1>2
  <2>3. /\ Part(f, S, n + 1) \in Nat
        /\ Part(g, S, n + 1) = Part(f, S, n + 1) + (IF n + 1 = j THEN 1 ELSE 0)
    OBVIOUS
  <2>4. SumTo(f, S)[n] \in Nat
    BY <1>0
  <2> QED
    BY <2>1, <2>2, <2>3, <2>4
<1> HIDE DEF T
<1>3. Nat \subseteq T
  BY <1>1, <1>2, Induction
<1> QED
  BY <1>3 DEF T

-----------------------------------------------------------------------------
(* The rain of a set of slots.                                               *)

LEMMA RainParts ==
    ASSUME NEW f \in [Time -> Nat], NEW S, S \subseteq Time
    PROVE  \A k \in Nat : Part(f, S, k) \in Nat
BY DEF Part

LEMMA RainType ==
    ASSUME NEW f \in [Time -> Nat], NEW S, S \subseteq Time
    PROVE  Total(f, S) \in Nat
BY RainParts, SumType, RainAssumption DEF Total

LEMMA RainUnion ==
    ASSUME NEW f \in [Time -> Nat], NEW S, S \subseteq Time, NEW R, R \subseteq Time, S \cap R = {}
    PROVE  Total(f, S \cup R) = Total(f, S) + Total(f, R)
<1> DEFINE Q == S \cup R
<1>1. \A k \in Nat : Part(f, S, k) \in Nat /\ Part(f, R, k) \in Nat
  BY RainParts
<1>2. \A k \in Nat : Part(f, Q, k) = Part(f, S, k) + Part(f, R, k)
  BY DEF Part
<1> HIDE DEF Q
<1>3. \A n \in Nat : SumTo(f, Q)[n] = SumTo(f, S)[n] + SumTo(f, R)[n]
  <2>1. \A k \in Nat : Part(f, S, k) \in Nat /\ Part(f, R, k) \in Nat
                         /\ Part(f, Q, k) = Part(f, S, k) + Part(f, R, k)
    BY <1>1, <1>2, Zenon
  <2> QED
    BY <2>1, SumAdds
<1>4. Total(f, Q) = Total(f, S) + Total(f, R)
  BY <1>3, RainAssumption, Zenon DEF Total
<1> QED
  BY <1>4, Zenon DEF Q

LEMMA RainMonotone ==
    ASSUME NEW f \in [Time -> Nat], NEW R, R \subseteq Time, NEW S, S \subseteq R
    PROVE  Total(f, S) <= Total(f, R)
<1>1. \A k \in Nat : Part(f, S, k) \in Nat /\ Part(f, R, k) \in Nat
  BY RainParts
<1>2. \A k \in Nat : Part(f, S, k) <= Part(f, R, k)
  BY DEF Part
<1> QED
  BY <1>1, <1>2, SumMonotone, RainAssumption DEF Total

LEMMA NoRain ==
    ASSUME NEW f, NEW S, \A t \in S : f[t] = 0
    PROVE  Total(f, S) = 0
<1>1. \A k \in Nat : Part(f, S, k) = 0
  BY DEF Part
<1> DEFINE T == {n \in Nat : SumTo(f, S)[n] = 0}
<1>2. 0 \in T
  BY <1>1, SumFirst
<1>3. ASSUME NEW n \in Nat, n \in T PROVE n + 1 \in T
  BY <1>1, <1>3, SumNext
<1> HIDE DEF T
<1>4. Nat \subseteq T
  BY <1>2, <1>3, Induction
<1> QED
  BY <1>4, RainAssumption DEF T, Total

LEMMA RainOfPulse ==
    ASSUME NEW f \in [Time -> Nat], NEW j \in Time, NEW S, S \subseteq Time
    PROVE  Total([f EXCEPT ![j] = @ + 1], S) = Total(f, S) + (IF j \in S THEN 1 ELSE 0)
<1> DEFINE g == [f EXCEPT ![j] = @ + 1]
<1>1. \A k \in Nat : Part(f, S, k) \in Nat
  BY RainParts
<1>2. j \in Nat /\ j <= MaxTime /\ MaxTime \in Nat
  BY RainAssumption DEF Time
<1>3. \A k \in S : g[k] = f[k] + (IF k = j THEN 1 ELSE 0) /\ f[k] \in Nat
  OBVIOUS
<1> HIDE DEF g
<1>4. CASE j \in S
  <2>1. \A k \in Nat : Part(g, S, k) = Part(f, S, k) + (IF k = j THEN 1 ELSE 0)
    BY <1>3, <1>4 DEF Part
  <2>2. SumTo(g, S)[MaxTime] = SumTo(f, S)[MaxTime] + (IF j <= MaxTime THEN 1 ELSE 0)
    BY <1>1, <1>2, <2>1, SumBump
  <2> QED
    BY <1>2, <1>4, <2>2 DEF Total, g
<1>5. CASE j \notin S
  <2>1. \A k \in Nat : Part(g, S, k) = Part(f, S, k) + Part(f, {}, k) /\ Part(f, {}, k) \in Nat
    BY <1>1, <1>3, <1>5 DEF Part
  <2>2. SumTo(g, S)[MaxTime] = SumTo(f, S)[MaxTime] + SumTo(f, {})[MaxTime]
    BY <1>1, <1>2, <2>1, SumAdds
  <2>3. Total(f, {}) = 0
    BY NoRain
  <2> QED
    BY <1>5, <2>2, <2>3 DEF Total, g
<1> QED
  BY <1>4, <1>5

-----------------------------------------------------------------------------
(* The rain of a set of slots, hour by hour.                                 *)

\* The hour of the clock never goes back.
LEMMA HourMonotone ==
    ASSUME NEW a \in Nat, NEW b \in Nat, a <= b
    PROVE  Hour(a) \in Nat /\ Hour(b) \in Nat /\ Hour(a) <= Hour(b)
BY RainAssumption DEF Hour

LEMMA HourOfTime == \A t \in Time : t \in Nat /\ Hour(t) \in Nat /\ Hour(t) \in Hours
                                    /\ Hour(t) <= MaxTime
<1> SUFFICES ASSUME NEW t \in Time
             PROVE  t \in Nat /\ Hour(t) \in Nat /\ Hour(t) \in Hours /\ Hour(t) <= MaxTime
  OBVIOUS
<1>1. t \in Nat /\ MaxTime \in Nat /\ t <= MaxTime /\ Slots \in Nat /\ Slots > 0
  BY RainAssumption DEF Time
<1>2. Hour(t) \in Nat /\ Hour(MaxTime) \in Nat /\ Hour(t) <= Hour(MaxTime)
  BY <1>1, HourMonotone
<1>3. t \div Slots <= t
  <2>1. t \div Slots \in Nat /\ t >= Slots * (t \div Slots)
    BY <1>1
  <2>2. \A a, b \in Nat : a > 0 => a * b >= b
    OBVIOUS
  <2>3. Slots * (t \div Slots) \in Nat /\ Slots * (t \div Slots) >= t \div Slots
    BY <1>1, <2>1, <2>2
  <2> QED
    BY <1>1, <2>1, <2>3
<1> QED
  BY <1>1, <1>2, <1>3 DEF Hours, Hour

InHour(E, k) == {t \in E : Hour(t) = k}
ByHour(f, E) == [k \in Nat |-> Unit * Total(f, InHour(E, k))]

LEMMA ByHourType ==
    ASSUME NEW f \in [Time -> Nat], NEW E, E \subseteq Time, NEW k \in Nat
    PROVE  Total(f, InHour(E, k)) \in Nat /\ ByHour(f, E)[k] \in Nat
                /\ ByHour(f, E)[k] = Unit * Total(f, InHour(E, k))
<1>1. InHour(E, k) \subseteq Time
  BY DEF InHour
<1>2. Total(f, InHour(E, k)) \in Nat
  BY <1>1, RainType
<1>3. \A a, b \in Nat : a * b \in Nat
  OBVIOUS
<1> QED
  BY <1>2, <1>3, RainAssumption DEF ByHour

\* The rain of the hours adds up to the rain of the slots.
LEMMA SumByHour ==
    ASSUME NEW f \in [Time -> Nat], NEW E, E \subseteq Time, NEW S, \A t \in E : Hour(t) \in S
    PROVE  Total(ByHour(f, E), S) = Unit * Total(f, E)
<1> DEFINE g == ByHour(f, E)
           Below(n) == {t \in E : Hour(t) <= n}
           T == {n \in Nat : SumTo(g, S)[n] = Unit * Total(f, Below(n))}
<1>0. Unit \in Nat /\ MaxTime \in Nat
  BY RainAssumption
<1>1. ASSUME NEW n \in Nat PROVE Part(g, S, n) = Unit * Total(f, InHour(E, n))
  <2>1. CASE n \in S
    BY <2>1, ByHourType DEF Part
  <2>2. CASE n \notin S
    <3>1. \A t \in InHour(E, n) : f[t] = 0
      BY <2>2 DEF InHour
    <3>2. Total(f, InHour(E, n)) = 0
      BY <3>1, NoRain
    <3>3. Unit * 0 = 0
      BY <1>0
    <3> QED
      BY <2>2, <3>2, <3>3 DEF Part
  <2> QED
    BY <2>1, <2>2
<1>2. ASSUME NEW n \in Nat
      PROVE  Total(f, Below(n)) \in Nat /\ Total(f, InHour(E, n)) \in Nat
  <2>1. Below(n) \subseteq Time
    OBVIOUS
  <2> HIDE DEF Below
  <2> QED
    BY <2>1, RainType, ByHourType
<1>3. 0 \in T
  <2>1. Below(0) = InHour(E, 0)
    BY HourOfTime DEF InHour
  <2>2. SumTo(g, S)[0] = Part(g, S, 0) + 0 /\ Part(g, S, 0) = Unit * Total(f, InHour(E, 0))
    BY <1>1, SumFirst
  <2>3. \A a, b \in Nat : a * b + 0 = a * b
    OBVIOUS
  <2>4. SumTo(g, S)[0] = Unit * Total(f, Below(0))
    <3> HIDE DEF Below, g
    <3> QED
      BY <1>0, <1>2, <2>1, <2>2, <2>3
  <2> QED
    BY <2>4
<1>4. ASSUME NEW n \in Nat, n \in T PROVE n + 1 \in T
  <2>1. /\ Below(n + 1) = Below(n) \cup InHour(E, n + 1) /\ Below(n) \cap InHour(E, n + 1) = {}
        /\ Below(n) \subseteq Time /\ InHour(E, n + 1) \subseteq Time
    BY HourOfTime DEF InHour
  <2>2. SumTo(g, S)[n] = Unit * Total(f, Below(n))
    BY <1>4
  <2>3. SumTo(g, S)[n + 1] = Part(g, S, n + 1) + SumTo(g, S)[n]
        /\ Part(g, S, n + 1) = Unit * Total(f, InHour(E, n + 1))
    BY <1>1, SumNext
  <2>4. SumTo(g, S)[n + 1] = Unit * Total(f, Below(n + 1))
    <3> HIDE DEF Below, g
    <3>1. Total(f, Below(n + 1)) = Total(f, Below(n)) + Total(f, InHour(E, n + 1))
      BY <2>1, RainUnion
    <3>2. \A a, b, c \in Nat : a * c + a * b = a * (b + c)
      OBVIOUS
    <3>3. Total(f, Below(n)) \in Nat /\ Total(f, InHour(E, n + 1)) \in Nat
      BY <1>2
    <3> QED
      BY <1>0, <2>2, <2>3, <3>1, <3>2, <3>3
  <2> QED
    BY <2>4
<1> HIDE DEF T
<1>5. MaxTime \in T
  BY <1>0, <1>3, <1>4, Induction
<1>6. Below(MaxTime) = E
  BY HourOfTime
<1> QED
  BY <1>5, <1>6 DEF T, Total

-----------------------------------------------------------------------------
(* Hours and rows.                                                           *)

\* "order by date desc limit 1" finds the latest row.
LEMMA LatestFacts ==
    ASSUME NEW S, S \subseteq Nat, NEW h \in S, \A k \in S : k <= h
    PROVE  Latest(S) = h
<1>1. \E x \in S : \A k \in S : k <= x
  OBVIOUS
<1>2. Latest(S) \in S /\ \A k \in S : k <= Latest(S)
  BY <1>1, Zenon DEF Latest
<1>3. Latest(S) <= h /\ h <= Latest(S)
  BY <1>2
<1>4. Latest(S) \in Nat /\ h \in Nat
  BY <1>2, Zenon
<1> QED
  BY <1>3, <1>4

LEMMA SaveFacts ==
    ASSUME Counts, Frozen, now \in Time, pc \notin {"off", "recover"}, Running,
           rows' = WithRow, unsaved' = 0, UNCHANGED <<now, counted, lost>>
    PROVE  Frozen'
<1>1. Hour(now) \in Nat
  BY HourMonotone, RainAssumption DEF Time
<1>2. /\ DOMAIN rows' = DOMAIN rows \cup {Hour(now)}
      /\ rows'[Hour(now)].pt = PT
  BY DEF WithRow
<1>3. DOMAIN rows' \subseteq 0..Hour(now')
  BY <1>1, <1>2 DEF Frozen
<1>4. Hour(now) \in DOMAIN rows' /\ \A k \in DOMAIN rows' : k <= Hour(now)
  BY <1>1, <1>2 DEF Frozen
<1>5. PT = Unit * (counted' - lost' - unsaved')
  BY DEF Running, Counts
<1> QED
  BY <1>2, <1>3, <1>4, <1>5 DEF Frozen, LatestRow

LEMMA NothingLeft == \A a, b, c \in Nat : a - b - c = 0 => a = b + c
OBVIOUS

\* A step that writes no row and leaves the frozen pulses where they are.
LEMMA NoRow ==
    ASSUME Counts, Frozen, rows' = rows, now \in Nat, now' \in Nat, now <= now',
           counted' \in Nat, lost' \in Nat, unsaved' \in Nat,
           counted' - lost' - unsaved' = counted - lost - unsaved
    PROVE  Frozen'
<1>1. DOMAIN rows' \subseteq 0..Hour(now')
  <2>1. Hour(now) \in Nat /\ Hour(now') \in Nat /\ Hour(now) <= Hour(now')
    BY HourMonotone
  <2>2. DOMAIN rows \subseteq 0..Hour(now)
    BY DEF Frozen
  <2> QED
    BY <2>1, <2>2
<1>2. CASE DOMAIN rows = {} /\ counted = lost + unsaved
  <2>1. counted \in Nat /\ lost \in Nat /\ unsaved \in Nat /\ counted = lost + unsaved
    BY <1>2 DEF Counts
  <2>2. counted - lost - unsaved = 0
    BY <2>1
  <2>3. counted' - lost' - unsaved' = 0
    BY <2>2, Zenon
  <2>4. counted' = lost' + unsaved'
    BY <2>3, NothingLeft, Zenon
  <2> QED
    BY <1>1, <1>2, <2>4 DEF Frozen
<1>3. CASE \E h \in DOMAIN rows : LatestRow(h) /\ rows[h].pt = Unit * (counted - lost - unsaved)
  BY <1>1, <1>3 DEF Frozen, LatestRow
<1> QED
  BY <1>2, <1>3 DEF Frozen

LEMMA InitBooks == Init => BooksInv
<1> SUFFICES ASSUME Init PROVE BooksInv
  OBVIOUS
<1>1. DOMAIN rows = {}
  BY DEF Init
<1>2. Counts /\ Frozen
  BY <1>1 DEF Init, Counts, Frozen
<1>3. Running
  BY RainAssumption DEF Init, Running, Time
<1> QED
  BY <1>2, <1>3 DEF BooksInv

LEMMA CountBooks == ASSUME BooksInv, CountPT PROVE BooksInv'
<1>1. /\ PT' = PT + Unit /\ counted' = counted + 1 /\ unsaved' = unsaved + 1
      /\ lost' = lost /\ now' = now /\ rows' = rows /\ pc' = pc /\ recordtime' = recordtime
  BY DEF CountPT, data
<1>2. Counts'
  BY <1>1 DEF BooksInv, Counts
<1>3. Frozen'
  <2>1. counted' - lost' - unsaved' = counted - lost - unsaved
    BY <1>1 DEF BooksInv, Counts
  <2>2. now \in Nat /\ now' \in Nat /\ now <= now'
    BY <1>1, RainAssumption DEF BooksInv, Running, Time
  <2> QED
    BY <1>1, <1>2, <2>1, <2>2, NoRow DEF BooksInv, Counts
<1>4. Unit \in Nat /\ counted \in Nat /\ lost \in Nat /\ unsaved \in Nat
  BY RainAssumption DEF BooksInv, Counts
<1>5. /\ Unit * (unsaved + 1) = Unit * unsaved + Unit
      /\ Unit * (counted + 1 - lost) = Unit * (counted - lost) + Unit
  <2>1. \A a, b \in Int : a * (b + 1) = a * b + a
    OBVIOUS
  <2>2. counted + 1 - lost = (counted - lost) + 1 /\ counted - lost \in Int
    BY <1>4
  <2> QED
    BY <1>4, <2>1, <2>2
<1>6. Running'
  <2>1. pc # "off"
    BY DEF BooksInv, Running, CountPT
  <2>2. CASE pc = "recover"
    BY <1>1, <1>5, <2>2 DEF BooksInv, Running
  <2>3. CASE pc # "recover"
    <3>1. PT = Unit * (counted - lost)
      BY <2>1, <2>3 DEF BooksInv, Running
    <3>2. PT' = Unit * (counted' - lost')
      BY <1>1, <1>4, <1>5, <3>1
    <3> QED
      BY <1>1, <2>1, <2>3, <3>2 DEF BooksInv, Running
  <2> QED
    BY <2>2, <2>3
<1> QED
  BY <1>2, <1>3, <1>6 DEF BooksInv

\* The steps that leave the counts, the rows and the clock alone.
LEMMA QuietBooks ==
    ASSUME BooksInv, UNCHANGED <<now, PT, rows, counted, unsaved, lost>>,
           \/ pc' = pc /\ recordtime' = recordtime /\ (pc = "off" => rp' = rp)
           \/ pc \notin {"off", "recover"} /\ pc' \notin {"off", "recover"}
           \/ pc = "off" /\ pc' = "recover" /\ recordtime' = Hour(now)
    PROVE  BooksInv'
<1>1. Counts'
  BY DEF BooksInv, Counts
<1>2. Frozen'
  BY DEF BooksInv, Frozen, LatestRow
<1>3. Running'
  BY RainAssumption DEF BooksInv, Running
<1> QED
  BY <1>1, <1>2, <1>3 DEF BooksInv

\* devdata_save by the freeze of the data thread or by the hourly report.
LEMMA SaveBooks ==
    ASSUME BooksInv, devdata_save, UNCHANGED <<now, PT>>,
           pc \notin {"off", "recover"}, pc' \notin {"off", "recover"}
    PROVE  BooksInv'
<1>1. rows' = WithRow /\ unsaved' = 0 /\ counted' = counted /\ lost' = lost
  BY DEF devdata_save
<1>2. Counts'
  BY <1>1 DEF BooksInv, Counts
<1>3. Frozen'
  BY <1>1, SaveFacts DEF BooksInv, Running
<1>4. Running'
  BY <1>1 DEF BooksInv, Running
<1> QED
  BY <1>2, <1>3, <1>4 DEF BooksInv

LEMMA ExitBooks == ASSUME BooksInv, Exit PROVE BooksInv'
<1>1. /\ rows' = WithRow /\ unsaved' = 0 /\ counted' = counted /\ lost' = lost /\ now' = now
      /\ PT' = 0 /\ pc' = "off" /\ pc = "top" /\ rp' = "idle"
  BY DEF Exit, Gone
<1>2. Counts'
  BY <1>1 DEF BooksInv, Counts
<1>3. Frozen'
  BY <1>1, SaveFacts DEF BooksInv, Running
<1>4. Running'
  BY <1>1 DEF BooksInv, Running
<1> QED
  BY <1>2, <1>3, <1>4 DEF BooksInv

LEMMA PowerLossBooks == ASSUME BooksInv, PowerLoss PROVE BooksInv'
<1>1. /\ rows' = rows /\ unsaved' = 0 /\ counted' = counted /\ lost' = lost + unsaved
      /\ now' = now /\ PT' = 0 /\ pc' = "off" /\ rp' = "idle"
  BY DEF PowerLoss, Gone
<1>2. Counts'
  BY <1>1 DEF BooksInv, Counts
<1>3. Frozen'
  <2>1. counted' - lost' - unsaved' = counted - lost - unsaved
    BY <1>1 DEF BooksInv, Counts
  <2>2. now \in Nat /\ now' \in Nat /\ now <= now'
    BY <1>1, RainAssumption DEF BooksInv, Running, Time
  <2> QED
    BY <1>1, <1>2, <2>1, <2>2, NoRow DEF BooksInv, Counts
<1>4. Running'
  BY <1>1 DEF BooksInv, Running
<1> QED
  BY <1>2, <1>3, <1>4 DEF BooksInv

LEMMA TickBooks == ASSUME BooksInv, Tick PROVE BooksInv'
<1>1. /\ rows' = rows /\ unsaved' = unsaved /\ counted' = counted /\ lost' = lost
      /\ now' = now + 1 /\ now < MaxTime /\ PT' = PT /\ pc' = pc /\ pc # "recover"
      /\ rp' = rp
  BY DEF Tick, books, devdata, data, rain, On
<1>2. Counts'
  BY <1>1 DEF BooksInv, Counts
<1>3. now \in Nat /\ now' \in Time /\ now' \in Nat /\ now <= now'
  BY <1>1, RainAssumption DEF BooksInv, Running, Time
<1>4. Frozen'
  BY <1>1, <1>2, <1>3, NoRow DEF BooksInv, Counts
<1>5. Running'
  BY <1>1, <1>3 DEF BooksInv, Running
<1> QED
  BY <1>2, <1>4, <1>5 DEF BooksInv

\* PT is restored from the latest row; what was counted meanwhile is lost.
LEMMA RecoverBooks == ASSUME BooksInv, Recover PROVE BooksInv'
<1>1. rows' = rows /\ counted' = counted /\ now' = now /\ pc' = "top" /\ pc = "recover"
  BY DEF Recover
<1>2. CASE DOMAIN rows = {}
  <2>1. PT' = PT /\ unsaved' = unsaved /\ lost' = lost
    BY <1>2 DEF Recover
  <2>2. Counts'
    BY <1>1, <2>1 DEF BooksInv, Counts
  <2>3. Frozen'
    BY <1>1, <2>1 DEF BooksInv, Frozen, LatestRow
  <2>4. counted = lost + unsaved
    BY <1>2 DEF BooksInv, Frozen
  <2>5. unsaved = counted - lost
    BY <2>4 DEF BooksInv, Counts
  <2>6. Running'
    BY <1>1, <2>1, <2>5 DEF BooksInv, Running
  <2> QED
    BY <2>2, <2>3, <2>6 DEF BooksInv
<1>3. CASE DOMAIN rows # {}
  <2>1. PICK h \in DOMAIN rows : LatestRow(h) /\ rows[h].pt = Unit * (counted - lost - unsaved)
    BY <1>3 DEF BooksInv, Frozen
  <2>2. Hour(now) \in Nat
    BY HourMonotone, RainAssumption DEF BooksInv, Running, Time
  <2>3. DOMAIN rows \subseteq Nat
    BY <2>2 DEF BooksInv, Frozen
  <2>4. Latest(DOMAIN rows) = h
    BY <2>1, <2>3, LatestFacts DEF LatestRow
  <2>5. PT' = rows[h].pt /\ lost' = lost + unsaved /\ unsaved' = 0
    BY <1>3, <2>4 DEF Recover
  <2>6. counted' - lost' - unsaved' = counted - lost - unsaved
        /\ counted' - lost' = counted - lost - unsaved
    BY <1>1, <2>5 DEF BooksInv, Counts
  <2>7. PT' = Unit * (counted' - lost')
    BY <2>1, <2>5, <2>6
  <2>8. Counts'
    BY <1>1, <2>5 DEF BooksInv, Counts
  <2>9. Frozen'
    <3>1. now \in Nat
      BY RainAssumption DEF BooksInv, Running, Time
    <3> QED
      BY <1>1, <2>6, <2>8, <3>1, NoRow DEF BooksInv, Counts
  <2>10. Running'
    BY <1>1, <2>7 DEF BooksInv, Running
  <2> QED
    BY <2>8, <2>9, <2>10 DEF BooksInv
<1> QED
  BY <1>2, <1>3

LEMMA NextBooks == ASSUME BooksInv, [Next]_vars PROVE BooksInv'
<1>1. CASE UNCHANGED vars
  BY <1>1, QuietBooks DEF vars, devdata, data, rain, books
<1>2. CASE FirstEvent \/ Pulse \/ CountP1 \/ CountPJ \/ CountDRP
  <2>1. UNCHANGED <<now, PT, rows, counted, unsaved, lost, pc, recordtime>>
    BY <1>2 DEF FirstEvent, Pulse, CountP1, CountPJ, CountDRP, devdata, data, books
  <2>2. pc = "off" => rp' = rp
    BY <1>2 DEF BooksInv, Running, FirstEvent, Pulse, CountP1, CountPJ, CountDRP, On
  <2> QED
    BY <2>1, <2>2, QuietBooks
<1>3. CASE PollFirst \/ SameHour \/ NewHour \/ Sums \/ Warn
  <2>1. UNCHANGED <<now, PT, rows, counted, unsaved, lost>>
    BY <1>3 DEF PollFirst, SameHour, NewHour, Sums, Warn, NoWarn, WarnTime, WarnClear, WarnRead, devdata, books
  <2>2. pc \notin {"off", "recover"} /\ pc' \notin {"off", "recover"}
    BY <1>3 DEF PollFirst, SameHour, NewHour, Sums, Warn, NoWarn, WarnTime, WarnClear, WarnRead
  <2> QED
    BY <2>1, <2>2, QuietBooks
<1>4. CASE Boot
  BY <1>4, QuietBooks DEF Boot, devdata, books
<1>5. CASE Freeze
  <2>1. UNCHANGED <<now, PT>> /\ pc \notin {"off", "recover"} /\ pc' \notin {"off", "recover"}
    BY <1>5 DEF Freeze, devdata
  <2>2. devdata_save \/ UNCHANGED <<rows, counted, unsaved, lost>>
    BY <1>5 DEF Freeze, books
  <2> QED
    BY <2>1, <2>2, SaveBooks, QuietBooks
<1>6. CASE Record
  <2>1. pc # "recover"
    BY <1>6 DEF Record, BooksInv, Running
  <2>2. UNCHANGED <<now, PT>> /\ pc' = pc /\ pc # "off" /\ devdata_save
    BY <1>6 DEF Record, devdata, data, On
  <2> QED
    BY <2>1, <2>2, SaveBooks
<1> QED
  BY <1>1, <1>2, <1>3, <1>4, <1>5, <1>6, CountBooks, ExitBooks, PowerLossBooks, TickBooks,
     RecoverBooks DEF Next, RainThread, DataThread

\* The rain of all time counts no pulse twice, and after a power loss is short of
\* exactly the pulses that came after the last freeze: whatever the two threads,
\* the hourly report and the stops of the process interleave to.
THEOREM TotalRainExact == Spec => []TotalRain
<1>1. BooksInv => TotalRain
  BY DEF BooksInv, Running, TotalRain, Working
<1> QED
  BY <1>1, InitBooks, NextBooks, PTL DEF Spec


-----------------------------------------------------------------------------
(* The slots of an hour and their bytes.                                     *)

LEMMA SlotFacts ==
    ASSUME NEW x \in Nat, NEW y \in Nat
    PROVE  /\ Slot(x) \in 0..(Slots - 1)
           /\ Hour(x) = Hour(y) /\ x # y => Slot(x) # Slot(y)
<1>1. Slots \in Nat /\ Slots > 0
  BY RainAssumption
<1>2. /\ x \div Slots \in Int /\ x % Slots \in 0..(Slots - 1) /\ x = Slots * (x \div Slots) + (x % Slots)
      /\ y \div Slots \in Int /\ y % Slots \in 0..(Slots - 1) /\ y = Slots * (y \div Slots) + (y % Slots)
  BY <1>1
<1>3. (x \div Slots) = (y \div Slots) /\ (x % Slots) = (y % Slots) => x = y
  BY <1>2
<1> QED
  BY <1>2, <1>3 DEF Slot, Hour

LEMMA EmptyType == Empty \in SlotBytes
BY RainAssumption DEF Empty, SlotBytes, FF

\* Nothing fell: the bytes without data are right.
LEMMA DryIsEmpty == ASSUME NEW h, Dry(h), fell \in [Time -> Nat] PROVE Bytes(h, Empty)
<1> SUFFICES ASSUME NEW x \in Of(h) PROVE Empty[Slot(x)] = FF /\ fell[x] = 0
  BY DEF Bytes
<1>1. x \in Nat
  BY RainAssumption DEF Of, Time
<1>2. Slot(x) \in 0..(Slots - 1)
  BY <1>1, SlotFacts
<1> QED
  BY <1>2 DEF Empty, Dry

\* A pulse is added to its byte, which has room for it.
LEMMA NoWrap ==
    ASSUME NEW f \in Nat, NEW d \in 0..FF, f = 0 => d = FF,
           f > 0 /\ Unit * f < FF => d = Unit * f, Unit * (f + 1) < FF
    PROVE  (IF d = FF THEN Unit % Byte ELSE (d + Unit) % Byte) = Unit * (f + 1)
<1>1. Unit \in Nat \ {0} /\ Byte \in Nat \ {0, 1} /\ FF = Byte - 1
  BY RainAssumption DEF FF
<1>2. Unit * (f + 1) = Unit * f + Unit /\ Unit * f \in Nat
  <2>1. \A a, b \in Nat : a * (b + 1) = a * b + a /\ a * b \in Nat
    OBVIOUS
  <2> QED
    BY <1>1, <2>1
<1>3. \A a \in Nat : a < Byte => a % Byte = a
  BY <1>1
<1>4. CASE f = 0
  <2>1. Unit * f = 0
    BY <1>1, <1>4
  <2>2. Unit * (f + 1) = Unit
    BY <1>1, <1>2, <2>1
  <2> QED
    BY <1>1, <1>3, <1>4, <2>2
<1>5. CASE f # 0
  <2>1. Unit * f < FF /\ d = Unit * f
    BY <1>1, <1>2, <1>5
  <2>2. d # FF /\ d + Unit = Unit * (f + 1) /\ d + Unit < Byte /\ d + Unit \in Nat
    BY <1>1, <1>2, <2>1
  <2> QED
    BY <1>3, <2>2
<1> QED
  BY <1>4, <1>5

\* increase_DRP at the moment the pulse is on the books.
LEMMA ByteOfPulse ==
    ASSUME NEW h, Bytes(h, DRP), fell \in [Time -> Nat], DRP \in SlotBytes, rt \in Of(h),
           DRP' = increase_DRP(Slot(rt)), fell' = [fell EXCEPT ![rt] = @ + 1]
    PROVE  Bytes(h, DRP)'

<1> DEFINE v == IF DRP[Slot(rt)] = FF THEN Unit % Byte ELSE (DRP[Slot(rt)] + Unit) % Byte
<1>1. rt \in Time /\ rt \in Nat /\ Hour(rt) = h
  BY RainAssumption DEF Of, Time
<1>2. Slot(rt) \in 0..(Slots - 1)
  BY <1>1, SlotFacts
<1>3. DRP' = [DRP EXCEPT ![Slot(rt)] = v]
  BY DEF increase_DRP
<1>4. Unit * (fell[rt] + 1) < FF => v = Unit * (fell[rt] + 1)
  <2>1. fell[rt] \in Nat /\ DRP[Slot(rt)] \in 0..FF
    BY <1>1, <1>2 DEF SlotBytes
  <2>2. /\ fell[rt] = 0 => DRP[Slot(rt)] = FF
        /\ fell[rt] > 0 /\ Unit * fell[rt] < FF => DRP[Slot(rt)] = Unit * fell[rt]
    BY DEF Bytes
  <2> QED
    BY <2>1, <2>2, NoWrap
<1> HIDE DEF v
<1> SUFFICES ASSUME NEW x \in Of(h)
             PROVE  /\ fell'[x] = 0 => DRP'[Slot(x)] = FF
                    /\ fell'[x] > 0 /\ Unit * fell'[x] < FF => DRP'[Slot(x)] = Unit * fell'[x]
  BY DEF Bytes
<1>5. x \in Time /\ x \in Nat /\ Hour(x) = h
  BY RainAssumption DEF Of, Time
<1>6. CASE x = rt
  <2>1. fell'[rt] = fell[rt] + 1 /\ DRP'[Slot(rt)] = v /\ fell[rt] \in Nat
    BY <1>1, <1>2, <1>3 DEF SlotBytes
  <2>2. fell[rt] + 1 # 0
    BY <2>1
  <2> QED
    BY <1>4, <1>6, <2>1, <2>2
<1>7. CASE x # rt
  <2>1. Slot(x) # Slot(rt) /\ Slot(x) \in 0..(Slots - 1)
    BY <1>1, <1>5, <1>7, SlotFacts
  <2>2. DRP'[Slot(x)] = DRP[Slot(x)] /\ fell'[x] = fell[x]
    BY <1>3, <1>5, <1>7, <2>1 DEF SlotBytes
  <2> QED
    BY <2>2 DEF Bytes
<1> QED
  BY <1>6, <1>7

\* What follows of the clock and the table from the books.
LEMMA ClockFacts ==
    ASSUME BooksInv
    PROVE  /\ now \in Time /\ now \in Nat /\ Hour(now) \in Nat
           /\ DOMAIN rows \subseteq 0..Hour(now)
           /\ pc = "off" => rp = "idle"
BY RainAssumption, HourMonotone DEF BooksInv, Running, Frozen, Time

LEMMA InitSlots == Init => SlotInv
<1> SUFFICES ASSUME Init PROVE SlotInv
  OBVIOUS
<1>1. DOMAIN rows = {} /\ now = 0 /\ now \in Time /\ fell = [t \in Time |-> 0]
  BY RainAssumption DEF Init, Time
<1>2. Hour(now) \in Nat
  BY <1>1, HourMonotone
<1>3. Clocks
  BY <1>1, <1>2, EmptyType DEF Init, Clocks, None
<1>4. Dry(Hour(now))
  BY <1>1 DEF Dry, Of
<1>5. Undisturbed
  BY <1>1, <1>4 DEF Init, Undisturbed, Restorable
<1>6. Alarm
  BY DEF Init, Alarm
<1> QED
  BY <1>3, <1>5, <1>6 DEF SlotInv

\* The steps that leave the bytes, the rows and the rain that fell alone.
LEMMA QuietSlots ==
    ASSUME Clocks, Undisturbed, UNCHANGED <<now, DRP, fell, rows, acc, stray>>,
           upset \subseteq upset', saved' => saved,
           \/ pc' = pc
           \/ pc \notin {"off", "recover"} /\ pc' \notin {"off", "recover"}
           \/ pc = "off" /\ pc' = "recover"
    PROVE  Undisturbed'
<1>1. Held' = Held /\ Restorable' = Restorable
  BY DEF Held, Restorable, Intact, Bytes, Dry
<1> SUFFICES ASSUME Hour(now) \notin upset'
             PROVE  /\ pc' = "recover" => DRP' = Empty
                    /\ pc' \notin {"off", "recover"} => Held'
                    /\ saved' \/ pc' \in {"off", "recover"} => Restorable'
  BY DEF Undisturbed
<1>2. Hour(now) \notin upset
  OBVIOUS
<1>3. /\ pc = "recover" => DRP = Empty
      /\ pc \notin {"off", "recover"} => Held
      /\ saved \/ pc \in {"off", "recover"} => Restorable
  BY <1>2 DEF Undisturbed
<1>4. pc = "off" => DRP = Empty
  BY DEF Clocks
<1> QED
  BY <1>1, <1>3, <1>4


LEMMA QuietClocks ==
    ASSUME Clocks, UNCHANGED <<now, DRP, fell, acc>>, rt' \in 0..now,
           pc' = "off" => pc = "off", pc' \in {"off", "recover"} => pc \in {"off", "recover"},
           lasttime' = lasttime \/ (pc' \notin {"off", "recover"} /\ lasttime' = Hour(now)),
           \/ rows' = rows
           \/ rows' = WithRow
    PROVE  Clocks'
<1>1. \A h \in DOMAIN rows' : rows'[h].drp \in SlotBytes
  <2>1. CASE rows' = rows
    BY <2>1 DEF Clocks
  <2>2. CASE rows' = WithRow
    <3> SUFFICES ASSUME NEW h \in DOMAIN WithRow PROVE WithRow[h].drp \in SlotBytes
      BY <2>2
    <3>1. CASE h = Hour(now)
      BY <3>1 DEF WithRow, Clocks
    <3>2. CASE h # Hour(now)
      BY <3>2 DEF WithRow, Clocks
    <3> QED
      BY <3>1, <3>2
  <2> QED
    BY <2>1, <2>2
<1>2. /\ pc' \in {"off", "recover"} => acc' = None /\ lasttime' = None
      /\ acc' = Hour(now') => lasttime' \in {None, Hour(now')}
      /\ pc' = "off" => DRP' = Empty
  BY DEF Clocks
<1> QED
  BY <1>1, <1>2 DEF Clocks

\* A step that neither adds rain to devdata nor writes a row.
LEMMA PassiveSlots ==
    ASSUME BooksInv, SlotInv,
           FirstEvent \/ Pulse \/ CountP1 \/ CountPJ \/ CountPT \/ PollFirst \/ SameHour \/ Sums \/ Warn
             \/ Boot \/ UNCHANGED vars
    PROVE  Clocks' /\ Undisturbed'
<1>1. UNCHANGED <<now, DRP, fell, rows, acc, stray>>
  BY DEF FirstEvent, Pulse, CountP1, CountPJ, CountPT, PollFirst, SameHour, Sums, Warn, NoWarn, WarnTime, WarnClear, WarnRead, Boot, vars,
         devdata, alarm
<1>2. rt' \in {rt, now, 0}
  BY DEF FirstEvent, Pulse, CountP1, CountPJ, CountPT, PollFirst, SameHour, Sums, Warn, NoWarn, WarnTime, WarnClear, WarnRead, Boot, vars,
         rain
<1>3. rt' \in 0..now
  BY <1>2, ClockFacts DEF SlotInv, Clocks
<1>4. \/ pc' = pc
      \/ pc \notin {"off", "recover"} /\ pc' \notin {"off", "recover"}
      \/ pc = "off" /\ pc' = "recover"
  BY DEF FirstEvent, Pulse, CountP1, CountPJ, CountPT, PollFirst, SameHour, Sums, Warn, NoWarn, WarnTime, WarnClear, WarnRead, Boot, vars,
         data
<1>5. lasttime' = lasttime \/ (pc' \notin {"off", "recover"} /\ lasttime' = Hour(now))
  BY DEF FirstEvent, Pulse, CountP1, CountPJ, CountPT, PollFirst, SameHour, Sums, Warn, NoWarn, WarnTime, WarnClear, WarnRead, Boot, vars,
         data
<1>6. upset \subseteq upset'
  BY DEF FirstEvent, Pulse, CountP1, CountPJ, CountPT, PollFirst, SameHour, Sums, Warn, NoWarn, WarnTime, WarnClear, WarnRead, Boot, vars,
         Upsets
<1>7. saved' => saved
  BY Zenon DEF FirstEvent, Pulse, CountP1, CountPJ, CountPT, PollFirst, SameHour, Sums, Warn, NoWarn, WarnTime, WarnClear, WarnRead, Boot,
         vars
<1>8. Clocks'
  BY <1>1, <1>3, <1>4, <1>5, QuietClocks DEF SlotInv
<1>9. Undisturbed'
  BY <1>1, <1>4, <1>6, <1>7, QuietSlots, Zenon DEF SlotInv
<1> QED
  BY <1>8, <1>9

LEMMA CountDRPSlots ==
    ASSUME BooksInv, SlotInv, CountDRP
    PROVE  Clocks' /\ Undisturbed'
<1>0. PICK off \in Tm :
          /\ DRP' = increase_DRP(off)
          /\ stray' = IF off = Slot(rt) THEN stray ELSE stray \cup {Hour(rt)}
  BY DEF CountDRP
<1>1. /\ fell' = [fell EXCEPT ![rt] = @ + 1] /\ rp = "DRP"
      /\ saved' = FALSE /\ Upsets
      /\ UNCHANGED <<now, rows, pc, lasttime, rt, acc>>
  BY DEF CountDRP, data
<1>2. pc # "off" /\ now \in Nat /\ now \in Time /\ Hour(now) \in Nat
  BY <1>1, ClockFacts
<1>3. rt \in Time /\ rt \in Nat /\ rt <= now /\ fell[rt] \in Nat
  BY <1>2, RainAssumption DEF SlotInv, Clocks, Time
<1>4. fell' \in [Time -> Nat] /\ \A x \in Time : x > now => fell'[x] = 0
  BY <1>1, <1>2, <1>3 DEF SlotInv, Clocks, Time
<1>5. DRP' \in SlotBytes
  <2> DEFINE v == IF DRP[off] = FF THEN Unit % Byte ELSE (DRP[off] + Unit) % Byte
  <2>1. off \in 0..(Slots - 1)
    BY DEF Tm
  <2>2. \A a \in Nat : a % Byte \in 0..FF
    BY RainAssumption DEF FF
  <2>3. DRP \in SlotBytes /\ DRP[off] \in Nat /\ Unit \in Nat
    BY <2>1, RainAssumption DEF SlotInv, Clocks, SlotBytes, FF
  <2>4. v \in 0..FF
    BY <2>2, <2>3
  <2>5. DRP' = [DRP EXCEPT ![off] = v]
    BY <1>0 DEF increase_DRP
  <2> HIDE DEF v
  <2> QED
    BY <2>1, <2>3, <2>4, <2>5 DEF SlotBytes
<1>6. Clocks'
  BY <1>1, <1>2, <1>4, <1>5 DEF SlotInv, Clocks
<1>7. Undisturbed'
  <2> SUFFICES ASSUME Hour(now) \notin upset'
               PROVE  pc # "recover" /\ Held'
    BY <1>1, <1>2 DEF Undisturbed
  <2>1. /\ Hour(now) = Hour(rt) /\ acc = Hour(now) /\ pc # "recover" /\ upset' = upset
    BY <1>1 DEF Upsets
  <2>2. Intact(Hour(now), DRP)
    BY <1>2, <2>1 DEF SlotInv, Undisturbed, Held
  <2>3. rt \in Of(Hour(now))
    BY <1>3, <2>1 DEF Of
  <2>4. ASSUME Hour(now) \notin stray' PROVE Bytes(Hour(now), DRP)'
    <3>1. fell \in [Time -> Nat] /\ DRP \in SlotBytes
      BY DEF SlotInv, Clocks
    <3>2. off = Slot(rt) /\ Hour(now) \notin stray
      BY <1>0, <2>1, <2>4
    <3>3. Bytes(Hour(now), DRP)
      BY <2>2, <3>2 DEF Intact
    <3>4. DRP' = increase_DRP(Slot(rt))
      BY <1>0, <3>2
    <3> QED
      BY <1>1, <2>3, <3>1, <3>3, <3>4, ByteOfPulse DEF Bytes
  <2> QED
    BY <1>1, <2>1, <2>4 DEF Held, Intact
<1> QED
  BY <1>6, <1>7


\* devdata_save by the freeze or by the hourly report: what it says is saved can
\* be restored.
LEMMA SaveSlots ==
    ASSUME BooksInv, SlotInv, devdata_save, UNCHANGED <<now, DRP, fell, acc, rt, lasttime, stray>>,
           pc \notin {"off", "recover"}, pc' \notin {"off", "recover"}
    PROVE  Clocks' /\ Undisturbed'
<1>1. rows' = WithRow /\ upset \subseteq upset'
  BY DEF devdata_save
<1>2. saved' => acc = Hour(now)
  BY DEF devdata_save
<1>3. Clocks'
  BY <1>1, QuietClocks DEF SlotInv, Clocks
<1>4. Undisturbed'
  <2> SUFFICES ASSUME Hour(now) \notin upset'
               PROVE  Held' /\ (saved' => Restorable')
    BY DEF Undisturbed
  <2>1. Held
    BY <1>1 DEF SlotInv, Undisturbed
  <2>2. Held'
    BY <2>1 DEF Held, Intact, Bytes, Dry
  <2>3. Hour(now) \in DOMAIN rows' /\ rows'[Hour(now)].drp = DRP
    BY <1>1 DEF WithRow
  <2>4. ASSUME acc = Hour(now) PROVE Restorable'
    <3>1. Intact(Hour(now), DRP)
      BY <2>1, <2>4 DEF Held
    <3>2. Intact(Hour(now), rows[Hour(now)].drp)'
      BY <2>3, <3>1 DEF Intact, Bytes
    <3> QED
      BY <2>3, <3>2 DEF Restorable
  <2> QED
    BY <1>2, <2>2, <2>4, Zenon
<1> QED
  BY <1>3, <1>4

LEMMA FreezeSlots ==
    ASSUME BooksInv, SlotInv, Freeze
    PROVE  Clocks' /\ Undisturbed'
<1>1. /\ UNCHANGED <<now, DRP, fell, acc, rt, lasttime, stray>>
      /\ pc \notin {"off", "recover"} /\ pc' \notin {"off", "recover"}
  BY DEF Freeze, devdata, rain, alarm
<1>2. devdata_save \/ UNCHANGED <<rows, saved, upset>>
  BY DEF Freeze
<1>3. CASE devdata_save
  BY <1>1, <1>3, SaveSlots
<1>4. CASE UNCHANGED <<rows, saved, upset>>
  <2>1. Clocks'
    BY <1>1, <1>4, QuietClocks DEF SlotInv, Clocks
  <2>2. saved' => saved
    BY <1>4
  <2>3. Undisturbed'
    BY <1>1, <1>4, <2>2, QuietSlots DEF SlotInv
  <2> QED
    BY <2>1, <2>3
<1> QED
  BY <1>2, <1>3, <1>4

LEMMA RecordSlots ==
    ASSUME BooksInv, SlotInv, Record
    PROVE  Clocks' /\ Undisturbed'
<1>1. pc # "recover"
  BY DEF Record, BooksInv, Running
<1>2. UNCHANGED <<now, DRP, fell, acc, rt, lasttime, stray, pc>> /\ pc # "off" /\ devdata_save
  BY DEF Record, devdata, data, rain, alarm, On
<1> QED
  BY <1>1, <1>2, SaveSlots

\* rain_poll empties the bytes only in an hour of which they hold nothing.
LEMMA NewHourSlots ==
    ASSUME BooksInv, SlotInv, NewHour
    PROVE  Clocks' /\ Undisturbed'
<1>1. /\ DRP' = Empty /\ acc' = Hour(now) /\ saved' = FALSE /\ lasttime' = Hour(now)
      /\ pc' = "sums" /\ pc = "poll" /\ lasttime \notin {None, Hour(now)}
      /\ UNCHANGED <<now, rows, fell, rt, upset, stray>>
  BY DEF NewHour, init_5min, rain, alarm
<1>2. acc # Hour(now) /\ Hour(now) \in Nat
  BY <1>1, ClockFacts DEF SlotInv, Clocks
<1>3. Clocks'
  BY <1>1, <1>2, EmptyType DEF SlotInv, Clocks
<1>4. Undisturbed'
  <2> SUFFICES ASSUME Hour(now) \notin upset PROVE Held'
    BY <1>1 DEF Undisturbed
  <2>1. Dry(Hour(now))
    BY <1>1, <1>2 DEF SlotInv, Undisturbed, Held
  <2>2. Bytes(Hour(now), Empty)
    BY <2>1, DryIsEmpty DEF SlotInv, Clocks
  <2> QED
    BY <1>1, <2>2 DEF Held, Intact, Bytes
<1> QED
  BY <1>3, <1>4

\* A stop keeps the bytes of the hour, in its row, or upsets the hour.
LEMMA StopSlots ==
    ASSUME BooksInv, SlotInv, Exit \/ PowerLoss
    PROVE  Clocks' /\ Undisturbed'
<1>1. /\ DRP' = Empty /\ acc' = None /\ lasttime' = None /\ rt' = 0 /\ pc' = "off"
      /\ UNCHANGED <<now, fell, stray>>
  BY DEF Exit, PowerLoss, Gone
<1>2. now \in Nat /\ Hour(now) \in Nat /\ None # Hour(now)
  BY ClockFacts DEF None
<1>3. rows' = rows \/ rows' = WithRow
  BY DEF Exit, PowerLoss
<1>4. \A h \in DOMAIN rows' : rows'[h].drp \in SlotBytes
  <2>1. CASE rows' = rows
    BY <2>1 DEF SlotInv, Clocks
  <2>2. CASE rows' = WithRow
    <3> SUFFICES ASSUME NEW h \in DOMAIN WithRow PROVE WithRow[h].drp \in SlotBytes
      BY <2>2
    <3> QED
      BY DEF WithRow, SlotInv, Clocks
  <2> QED
    BY <1>3, <2>1, <2>2
<1>5. Clocks'
  BY <1>1, <1>2, <1>4, EmptyType DEF SlotInv, Clocks
<1>6. ASSUME Hour(now) \notin upset' PROVE Restorable'
  <2>1. CASE Exit
    <3>1. rows' = WithRow /\ acc = Hour(now) /\ upset' = upset /\ pc = "top"
      BY <1>6, <2>1 DEF Exit
    <3>2. Intact(Hour(now), DRP)
      BY <1>6, <3>1 DEF SlotInv, Undisturbed, Held
    <3>3. Hour(now) \in DOMAIN rows' /\ rows'[Hour(now)].drp = DRP
      BY <3>1 DEF WithRow
    <3>4. Intact(Hour(now), rows[Hour(now)].drp)'
      BY <1>1, <3>2, <3>3 DEF Intact, Bytes
    <3> QED
      BY <1>1, <3>3, <3>4 DEF Restorable
  <2>2. CASE PowerLoss
    <3>1. rows' = rows /\ saved /\ upset' = upset
      BY <1>6, <2>2 DEF PowerLoss
    <3>2. Restorable
      BY <1>6, <3>1 DEF SlotInv, Undisturbed
    <3> QED
      BY <1>1, <3>1, <3>2 DEF Restorable, Intact, Bytes, Dry
  <2> QED
    BY <2>1, <2>2
<1>7. Undisturbed'
  BY <1>1, <1>6 DEF Undisturbed
<1> QED
  BY <1>5, <1>7

\* devdata_recovery and init_rain: the latest row is that of the running hour, or
\* nothing of the running hour was ever frozen.
LEMMA RecoverSlots ==
    ASSUME BooksInv, SlotInv, Recover
    PROVE  Clocks' /\ Undisturbed'
<1>1. /\ pc = "recover" /\ pc' = "top" /\ acc' = Hour(now) /\ saved' = FALSE
      /\ UNCHANGED <<now, rows, lasttime, rt, fell, upset, stray>>
  BY DEF Recover, rain
<1>2. now \in Nat /\ Hour(now) \in Nat /\ DOMAIN rows \subseteq 0..Hour(now)
  BY ClockFacts
<1>3. \/ DOMAIN rows = {} /\ DRP' = DRP
      \/ DOMAIN rows # {} /\ Hour(now) \notin DOMAIN rows /\ DRP' = Empty
      \/ Hour(now) \in DOMAIN rows /\ DRP' = rows[Hour(now)].drp
  <2>1. CASE DOMAIN rows = {}
    BY <2>1 DEF Recover
  <2>2. CASE DOMAIN rows # {}
    <3>1. PICK h \in DOMAIN rows : \A k \in DOMAIN rows : k <= h
      BY <2>2 DEF BooksInv, Frozen, LatestRow
    <3>2. DOMAIN rows \subseteq Nat
      BY <1>2
    <3>3. Latest(DOMAIN rows) = h
      BY <3>1, <3>2, LatestFacts
    <3>4. CASE h = Hour(now)
      BY <2>2, <3>3, <3>4 DEF Recover
    <3>5. CASE h # Hour(now)
      <4>1. h < Hour(now)
        BY <1>2, <3>5
      <4>2. Hour(now) \notin DOMAIN rows
        BY <1>2, <3>1, <3>2, <4>1
      <4>3. DRP' = Empty
        BY <2>2, <3>3, <3>5 DEF Recover, init_5min
      <4> QED
        BY <2>2, <4>2, <4>3
    <3> QED
      BY <3>4, <3>5
  <2> QED
    BY <2>1, <2>2
<1>4. DRP' \in SlotBytes
  BY <1>3, EmptyType DEF SlotInv, Clocks
<1>5. Clocks'
  BY <1>1, <1>2, <1>4 DEF SlotInv, Clocks
<1>6. Undisturbed'
  <2> SUFFICES ASSUME Hour(now) \notin upset PROVE Held'
    BY <1>1 DEF Undisturbed
  <2>1. Restorable /\ DRP = Empty
    BY <1>1 DEF SlotInv, Undisturbed
  <2>2. Dry(Hour(now)) => Bytes(Hour(now), Empty)
    BY DryIsEmpty DEF SlotInv, Clocks
  <2>3. Intact(Hour(now), DRP')
    BY <1>3, <2>1, <2>2 DEF Restorable, Intact
  <2> QED
    BY <1>1, <2>3 DEF Held, Intact, Bytes
<1> QED
  BY <1>5, <1>6

\* A new hour begins without rain, without a row, and before devdata stands for it.
LEMMA TickSlots ==
    ASSUME BooksInv, SlotInv, Tick
    PROVE  Clocks' /\ Undisturbed'
<1>1. /\ now' = now + 1 /\ now < MaxTime /\ pc # "recover"
      /\ UNCHANGED <<DRP, fell, rows, acc, rt, lasttime, saved, upset, stray, pc>>
  BY DEF Tick, devdata, data, rain, On
<1>2. now \in Nat /\ Hour(now) \in Nat /\ DOMAIN rows \subseteq 0..Hour(now)
  BY ClockFacts
<1>3. now' \in Nat /\ Hour(now') \in Nat /\ Hour(now) <= Hour(now')
  BY <1>1, <1>2, HourMonotone
<1>4. CASE Hour(now') = Hour(now)
  <2>1. Clocks'
    BY <1>1, <1>2, <1>4 DEF SlotInv, Clocks, Time
  <2>2. Held' = Held /\ Restorable' = Restorable
    BY <1>1, <1>4 DEF Held, Restorable, Intact, Bytes, Dry
  <2>3. Undisturbed'
    BY <1>1, <1>4, <2>2, Zenon DEF SlotInv, Undisturbed
  <2> QED
    BY <2>1, <2>3
<1>5. CASE Hour(now') # Hour(now)
  <2>1. Hour(now) < Hour(now')
    BY <1>2, <1>3, <1>5
  <2>2. acc # Hour(now') /\ acc \in 0..Hour(now') \cup {None}
    BY <1>2, <1>3, <2>1 DEF SlotInv, Clocks, None
  <2>3. Clocks'
    <3>1. rt \in 0..now' /\ \A x \in Time : x > now' => fell[x] = 0
      BY <1>1, <1>2 DEF SlotInv, Clocks, Time
    <3> QED
      BY <1>1, <2>2, <3>1 DEF SlotInv, Clocks
  <2>4. Dry(Hour(now))'
    <3> SUFFICES ASSUME NEW x \in Time, Hour(x) = Hour(now') PROVE fell[x] = 0
      BY <1>1 DEF Dry, Of
    <3>1. x \in Nat
      BY RainAssumption DEF Time
    <3>2. ~(x <= now)
      <4>1. x <= now => Hour(x) <= Hour(now) /\ Hour(x) \in Nat
        BY <1>2, <3>1, HourMonotone
      <4> QED
        BY <1>2, <2>1, <4>1
    <3> QED
      BY <1>2, <3>1, <3>2 DEF SlotInv, Clocks
  <2>5. Hour(now') \notin DOMAIN rows'
    BY <1>1, <1>2, <1>3, <2>1
  <2>6. Held' /\ Restorable'
    BY <1>1, <2>2, <2>4, <2>5 DEF Held, Restorable
  <2>7. Undisturbed'
    BY <1>1, <2>6 DEF Undisturbed
  <2> QED
    BY <2>3, <2>7
<1> QED
  BY <1>4, <1>5


-----------------------------------------------------------------------------
(* The extra report.                                                         *)

\* What calls for the report of the slot: a checked flag and rain enough.
Called ==
    pc \notin {"off", "recover", "read"} /\ acc = Hour(now)
    /\ Hour(now) \notin upset \cup stray /\ ~blind /\ flag = 0 /\ Reached
\* The check, after it has cleared the flag, is of this slot.
Aimed ==
    pc = "read" /\ ~blind /\ flag = 0 /\ fell[now] > 0 => wt = now /\ index = Slot(now)
\* A pulse that is not yet in DRP has its flag.
Flagged == rp \in {"P1", "PJ", "DRP"} => flag = 1 \/ blind

LEMMA AlarmParts ==
    /\ Alarm <=> Flagged /\ Aimed /\ (Called => warned)
    /\ Alarm' <=> Flagged' /\ Aimed' /\ (Called => warned)'
BY Zenon DEF Alarm, Flagged, Aimed, Called

LEMMA QuietAlarm ==
    ASSUME BooksInv, SlotInv,
           FirstEvent \/ CountP1 \/ CountPJ \/ CountPT \/ PollFirst \/ SameHour \/ Sums \/ Freeze
             \/ Record \/ NoWarn \/ UNCHANGED vars
    PROVE  Alarm'
<1>1. UNCHANGED <<now, fell, acc>> /\ flag' = flag
  BY DEF FirstEvent, CountP1, CountPJ, CountPT, PollFirst, SameHour, Sums, Freeze, Record, NoWarn,
         vars
<1>2. UNCHANGED <<stray, wt, index, blind, warned>>
  BY DEF FirstEvent, CountP1, CountPJ, CountPT, PollFirst, SameHour, Sums, Freeze, Record, NoWarn,
         vars, alarm
<1>3. upset \subseteq upset'
  BY DEF FirstEvent, CountP1, CountPJ, CountPT, PollFirst, SameHour, Sums, Freeze, Record, NoWarn,
         vars, Upsets, devdata_save
<1>4. rp' \in {"P1", "PJ", "DRP"} => rp \in {"P1", "PJ", "DRP"}
  BY DEF FirstEvent, CountP1, CountPJ, CountPT, PollFirst, SameHour, Sums, Freeze, Record, NoWarn,
         vars, rain
<1>5. pc' = pc \/ (pc \in {"top", "poll", "sums", "warn"} /\ pc' # "read")
  BY DEF FirstEvent, CountP1, CountPJ, CountPT, PollFirst, SameHour, Sums, Freeze, Record, NoWarn,
         vars, data
<1>6. Reached' = Reached
  BY <1>1 DEF Reached
<1>7. Flagged /\ Aimed /\ (Called => warned)
  BY AlarmParts DEF SlotInv
<1>8. Flagged'
  BY <1>1, <1>2, <1>4, <1>7 DEF Flagged
<1>9. Aimed'
  BY <1>1, <1>2, <1>5, <1>7 DEF Aimed
<1>10. (Called => warned)'
  <2>1. Called' => Called
    BY <1>1, <1>2, <1>3, <1>5, <1>6 DEF Called
  <2> QED
    BY <1>2, <1>7, <2>1
<1> QED
  BY <1>8, <1>9, <1>10, AlarmParts

LEMMA PulseAlarm ==
    ASSUME SlotInv, Pulse \/ CountDRP
    PROVE  Alarm'
<1>1. CASE Pulse
  <2>1. flag' = 1
    BY <1>1 DEF Pulse
  <2> QED
    BY <2>1 DEF Alarm
<1>2. CASE CountDRP
  <2>1. rp = "DRP" /\ rp' = "PT" /\ flag' = flag
    BY <1>2 DEF CountDRP
  <2>2. blind' = blind
    BY <1>2 DEF CountDRP
  <2>3. flag = 1 \/ blind
    BY <2>1 DEF SlotInv, Alarm
  <2>4. flag' # 0 \/ blind'
    BY <2>1, <2>2, <2>3
  <2>5. ~(rp' \in {"P1", "PJ", "DRP"})
    BY <2>1
  <2> QED
    BY <2>4, <2>5, Zenon DEF Alarm
<1> QED
  BY <1>1, <1>2

\* A stop, a start or a new hour leaves nothing to report.
LEMMA AnewAlarm ==
    ASSUME BooksInv, SlotInv, NewHour \/ Exit \/ PowerLoss \/ Boot \/ Recover \/ Tick
    PROVE  Alarm'
<1>1. now \in Nat /\ now \in Time /\ Hour(now) \in Nat
  BY ClockFacts
<1>2. CASE Exit \/ PowerLoss \/ Recover
  <2>1. blind' = TRUE
    BY <1>2 DEF Exit, PowerLoss, Recover, Gone
  <2> QED
    BY <2>1, Zenon DEF Alarm
<1>3. CASE Boot
  <2>1. pc = "off" /\ pc' = "recover" /\ rp' = rp
    BY <1>3 DEF Boot, rain
  <2>2. ~(rp' \in {"P1", "PJ", "DRP"})
    BY <2>1, ClockFacts
  <2> QED
    BY <2>1, <2>2 DEF Alarm
<1>4. CASE NewHour
  <2>1. /\ UNCHANGED <<now, fell, rp, flag, upset>> /\ pc = "poll" /\ pc' = "sums"
        /\ lasttime \notin {None, Hour(now)}
    BY <1>4 DEF NewHour, rain
  <2>2. blind' = blind
    BY <1>4 DEF NewHour, alarm
  <2>3. acc # Hour(now)
    BY <2>1 DEF SlotInv, Clocks
  <2>4. Hour(now) \notin upset => Dry(Hour(now))
    BY <2>1, <2>3 DEF SlotInv, Undisturbed, Held
  <2>5. Hour(now) \notin upset => ~Reached
    BY <1>1, <2>4 DEF Dry, Of, Reached
  <2>6. Reached' = Reached
    BY <2>1 DEF Reached
  <2>7. ~(Called')
    BY <2>1, <2>5, <2>6 DEF Called
  <2>8. Flagged'
    BY <2>1, <2>2, AlarmParts DEF SlotInv, Flagged
  <2>9. Aimed'
    BY <2>1 DEF Aimed
  <2> QED
    BY <2>7, <2>8, <2>9, AlarmParts
<1>5. CASE Tick
  <2>1. now' = now + 1 /\ now < MaxTime /\ UNCHANGED <<fell, rp, flag>>
    BY <1>5 DEF Tick, rain
  <2>2. blind' = blind
    BY <1>5 DEF Tick
  <2>3. now' \in Time /\ now' > now
    BY <1>1, <2>1, RainAssumption DEF Time
  <2>4. fell'[now'] = 0
    BY <2>1, <2>3 DEF SlotInv, Clocks
  <2>5. ~(Reached') /\ ~(fell'[now'] > 0)
    BY <2>4 DEF Reached
  <2>6. Flagged'
    BY <2>1, <2>2, AlarmParts DEF SlotInv, Flagged
  <2>7. Aimed' /\ ~(Called')
    BY <2>5, Zenon DEF Aimed, Called
  <2> QED
    BY <2>6, <2>7, AlarmParts
<1> QED
  BY <1>2, <1>3, <1>4, <1>5

\* rain_warn_check before it has read: a flag that it clears in time is of a pulse
\* of its slot that is in DRP.
LEMMA ClearAlarm ==
    ASSUME BooksInv, SlotInv, WarnTime \/ WarnClear
    PROVE  Alarm'
<1>1. Flagged /\ Aimed /\ (Called => warned)
  BY AlarmParts DEF SlotInv
<1>2. CASE WarnTime
  <2>1. UNCHANGED <<rp, flag, blind>> /\ flag = 1 /\ pc' = "clear"
    BY <1>2 DEF WarnTime, rain
  <2> QED
    BY <1>1, <2>1, AlarmParts DEF Flagged, Aimed, Called
<1>3. CASE WarnClear
  <2>1. /\ UNCHANGED <<now, rp, wt, index>> /\ pc' = "read"
        /\ blind' = (blind \/ rp \in {"P1", "PJ", "DRP"} \/ wt # now \/ index # Slot(now))
    BY <1>3 DEF WarnClear, rain
  <2>2. Flagged'
    BY <2>1 DEF Flagged
  <2>3. Aimed' /\ ~(Called')
    BY <2>1 DEF Aimed, Called
  <2> QED
    BY <2>2, <2>3, AlarmParts
<1> QED
  BY <1>2, <1>3

\* The byte it reads is the rain of the slot.
LEMMA ReadAlarm ==
    ASSUME BooksInv, SlotInv, WarnRead
    PROVE  Alarm'
<1>1. /\ pc = "read" /\ pc' = "top" /\ UNCHANGED <<now, DRP, fell, acc, upset, stray, rp, flag, blind>>
      /\ warned' = (warned \/ (wt = now /\ F4(index) # FF /\ F4(index) >= Threshold))
  BY DEF WarnRead, devdata, rain
<1>2. now \in Nat /\ now \in Time
  BY ClockFacts
<1>3. Flagged /\ Aimed
  BY AlarmParts DEF SlotInv
<1>4. ASSUME Called' PROVE warned'
  <2>1. /\ acc = Hour(now) /\ Hour(now) \notin upset /\ Hour(now) \notin stray
        /\ ~blind /\ flag = 0
    BY <1>1, <1>4 DEF Called
  <2>0. Reached
    BY <1>1, <1>4 DEF Called, Reached
  <2>2. fell[now] > 0 /\ Threshold <= Unit * fell[now] /\ Unit * fell[now] < FF
        /\ fell[now] \in Nat
    BY <1>2, <2>0 DEF Reached, SlotInv, Clocks
  <2>3. wt = now /\ index = Slot(now)
    BY <1>1, <1>3, <2>1, <2>2 DEF Aimed
  <2>4. Bytes(Hour(now), DRP)
    BY <1>1, <2>1 DEF SlotInv, Undisturbed, Held, Intact
  <2>5. F4(index) = Unit * fell[now]
    BY <1>2, <2>2, <2>3, <2>4 DEF Bytes, Of, F4
  <2>6. Unit * fell[now] \in Nat /\ FF \in Nat /\ Threshold \in Nat
    <3>1. \A a, b \in Nat : a * b \in Nat
      OBVIOUS
    <3> QED
      BY <2>2, <3>1, RainAssumption DEF FF
  <2> HIDE DEF F4
  <2>7. F4(index) # FF /\ F4(index) >= Threshold
    BY <2>2, <2>5, <2>6
  <2> QED
    BY <1>1, <2>3, <2>7
<1>5. Flagged' /\ Aimed'
  BY <1>1, <1>3 DEF Flagged, Aimed
<1> QED
  BY <1>4, <1>5, AlarmParts

LEMMA NextSlots == ASSUME BooksInv, SlotInv, [Next]_vars PROVE SlotInv'
<1>1. Clocks' /\ Undisturbed'
  BY PassiveSlots, CountDRPSlots, FreezeSlots, RecordSlots, NewHourSlots, StopSlots, RecoverSlots,
     TickSlots DEF Next, RainThread, DataThread
<1>2. Alarm'
  BY QuietAlarm, PulseAlarm, AnewAlarm, ClearAlarm, ReadAlarm
     DEF Next, RainThread, DataThread, Warn
<1> QED
  BY <1>1, <1>2 DEF SlotInv

\* The bytes of DRP hold the rain of the slots of the running hour, as long as
\* they can hold it, through freezes, the turn of the hour, stops and restarts,
\* in every hour that none of them met a pulse in the middle, and in which no
\* pulse found another slot in the struct tm.
THEOREM SlotsExact == Spec => []SlotRain
<1>1. BooksInv /\ SlotInv => SlotRain
  <2> SUFFICES ASSUME BooksInv, SlotInv, Settled, Hour(now) \notin stray
               PROVE  Bytes(Hour(now), DRP)
    BY DEF SlotRain, Bytes
  <2> QED
    BY DEF SlotInv, Undisturbed, Held, Intact, Settled, Working
<1> QED
  BY <1>1, InitBooks, NextBooks, InitSlots, NextSlots, PTL DEF Spec

\* No slot whose rain has reached the threshold goes without its extra report
\* once the flag of its last pulse has been looked at: the check that cleared it
\* in its slot, and after the pulse was in DRP, reads the byte of that slot.
THEOREM AlarmsRaised == Spec => []AlarmRaised
<1>1. BooksInv /\ SlotInv => AlarmRaised
  BY DEF SlotInv, Alarm, AlarmRaised, Settled, Working
<1> QED
  BY <1>1, InitBooks, NextBooks, InitSlots, NextSlots, PTL DEF Spec


-----------------------------------------------------------------------------
(* The types.                                                                *)

RowType == [p1 : Nat, pj : Nat, pd : Nat, pt : Nat, drp : SlotBytes]

\* What rain_poll adds up are numbers.
LEMMA SumsType ==
    ASSUME TypeOK, NEW from, NEW to
    PROVE  P1_rain(from, to) \in Nat
<1> DEFINE f == [h \in DOMAIN rows |-> rows[h].p1]
           S == {h \in DOMAIN rows : from <= h /\ h < to}
<1>1. \A h \in DOMAIN rows : rows[h].p1 \in Nat
  BY DEF TypeOK
<1>2. \A k \in Nat : Part(f, S, k) \in Nat
  BY <1>1 DEF Part
<1> HIDE DEF f, S
<1>3. Total(f, S) \in Nat
  BY <1>2, SumType, RainAssumption DEF Total
<1> QED
  BY <1>3 DEF P1_rain, f, S

LEMMA InitType == Init => TypeOK
<1> SUFFICES ASSUME Init PROVE TypeOK
  OBVIOUS
<1>1. DOMAIN rows = {} /\ 0 \in Time
  BY RainAssumption DEF Init, Time
<1>2. /\ now \in Time /\ P1 \in Nat /\ PJ \in Nat /\ PD \in Nat /\ PT \in Nat
      /\ DRP \in SlotBytes /\ flag \in {0, 1} /\ rt \in Time /\ stops \in 0..MaxStops
      /\ wt \in Time /\ index \in Tm
  BY <1>1, EmptyType, RainAssumption DEF Init, Tm
<1>3. /\ pc = "off" /\ last = None /\ lasttime = None /\ rp = "idle" /\ level = FALSE
      /\ recordtime = None
  BY DEF Init
<1> QED
  BY <1>1, <1>2, <1>3 DEF TypeOK

LEMMA SaveType ==
    ASSUME TypeOK, rows' = WithRow
    PROVE  DOMAIN rows' \subseteq Hours /\ \A h \in DOMAIN rows' : rows'[h] \in RowType
<1>1. Hour(now) \in Hours
  BY HourOfTime DEF TypeOK
<1>2. \A h \in DOMAIN rows : rows[h] \in RowType
  BY DEF TypeOK, RowType
<1>3. [p1 |-> P1, pj |-> PJ, pd |-> PD, pt |-> PT, drp |-> DRP] \in RowType
  BY DEF TypeOK, RowType
<1>4. DOMAIN rows \subseteq Hours
  BY DEF TypeOK
<1> QED
  BY <1>1, <1>2, <1>3, <1>4 DEF WithRow

\* increase_DRP leaves bytes.
LEMMA ByteType ==
    ASSUME DRP \in SlotBytes, NEW off \in Tm
    PROVE  increase_DRP(off) \in SlotBytes
<1> DEFINE v == IF DRP[off] = FF THEN Unit % Byte ELSE (DRP[off] + Unit) % Byte
<1>1. off \in 0..(Slots - 1)
  BY DEF Tm
<1>2. \A a \in Nat : a % Byte \in 0..FF
  BY RainAssumption DEF FF
<1>3. DRP[off] \in Nat /\ Unit \in Nat
  BY <1>1, RainAssumption DEF SlotBytes, FF
<1>4. v \in 0..FF
  BY <1>2, <1>3
<1>5. increase_DRP(off) = [DRP EXCEPT ![off] = v]
  BY DEF increase_DRP
<1> HIDE DEF v
<1> QED
  BY <1>1, <1>4, <1>5 DEF SlotBytes

\* The steps of the rain thread.
LEMMA RainThreadType == ASSUME TypeOK, RainThread PROVE TypeOK'
<1>1. now \in Nat /\ rt \in Nat /\ 0 \in Time /\ Unit \in Nat
  BY RainAssumption DEF TypeOK, Time
<1>2. CASE FirstEvent
  BY <1>2 DEF TypeOK, FirstEvent, alarm, devdata, data
<1>3. CASE Pulse
  BY <1>3 DEF TypeOK, Pulse, devdata, data
<1>4. CASE CountP1
  BY <1>1, <1>4 DEF TypeOK, CountP1, alarm, data
<1>5. CASE CountPJ
  BY <1>1, <1>5 DEF TypeOK, CountPJ, alarm, data
<1>6. CASE CountDRP
  <2>1. DRP' \in SlotBytes
    BY <1>6, ByteType DEF TypeOK, CountDRP
  <2> QED
    BY <1>1, <1>6, <2>1 DEF TypeOK, CountDRP, data
<1>7. CASE CountPT
  BY <1>1, <1>7 DEF TypeOK, CountPT, alarm, data
<1> QED
  BY <1>2, <1>3, <1>4, <1>5, <1>6, <1>7 DEF RainThread

\* The steps of the data thread, a stop, the hourly report and the clock.
LEMMA DataThreadType ==
    ASSUME TypeOK, PollFirst \/ SameHour \/ NewHour \/ Sums \/ Warn \/ Boot \/ Freeze \/ Record
    PROVE  TypeOK'
<1>1. Hour(now) \in Hours
  BY HourOfTime DEF TypeOK
<1>2. CASE PollFirst
  BY <1>1, <1>2 DEF TypeOK, PollFirst, alarm, devdata, rain
<1>3. CASE SameHour
  BY <1>3 DEF TypeOK, SameHour, alarm, devdata, rain
<1>4. CASE NewHour
  BY <1>1, <1>4, EmptyType DEF TypeOK, NewHour, alarm, init_5min, rain
<1>5. CASE Sums
  <2>1. PJ' \in Nat /\ PD' \in Nat
    BY <1>5, SumsType DEF Sums, init_dayRain, init_currentRain
  <2> QED
    BY <1>5, <2>1 DEF TypeOK, Sums, alarm, rain
<1>6. CASE Warn
  <2>1. 0 \in Time /\ 0 \in Tm
    BY RainAssumption DEF Time, Tm
  <2>2. CASE NoWarn
    BY <2>2 DEF TypeOK, NoWarn, devdata, rain, alarm
  <2>3. CASE WarnTime
    BY <2>3 DEF TypeOK, WarnTime, devdata, rain
  <2>4. CASE WarnClear
    BY <2>4 DEF TypeOK, WarnClear, devdata, rain
  <2>5. CASE WarnRead
    BY <2>1, <2>5 DEF TypeOK, WarnRead, devdata, rain
  <2> QED
    BY <1>6, <2>2, <2>3, <2>4, <2>5 DEF Warn
<1>7. CASE Boot
  BY <1>1, <1>7 DEF TypeOK, Boot, alarm, devdata, rain
<1>8. CASE Freeze
  <2>1. DOMAIN rows' \subseteq Hours /\ \A h \in DOMAIN rows' : rows'[h] \in RowType
    BY <1>8, SaveType DEF TypeOK, RowType, Freeze, alarm, devdata_save
  <2> QED
    BY <1>8, <2>1 DEF TypeOK, RowType, Freeze, alarm, devdata, rain
<1>9. CASE Record
  <2>1. DOMAIN rows' \subseteq Hours /\ \A h \in DOMAIN rows' : rows'[h] \in RowType
    BY <1>9, SaveType DEF Record, devdata_save
  <2> QED
    BY <1>1, <1>9, <2>1 DEF TypeOK, RowType, Record, alarm, devdata, data, rain
<1> QED
  BY <1>2, <1>3, <1>4, <1>5, <1>6, <1>7, <1>8, <1>9

LEMMA StopType == ASSUME TypeOK, Exit \/ PowerLoss \/ Tick PROVE TypeOK'
<1>1. 0 \in Time /\ stops \in 0..MaxStops /\ MaxStops \in Nat
  BY RainAssumption DEF TypeOK, Time
<1>2. CASE Exit \/ PowerLoss
  <2>1. DOMAIN rows' \subseteq Hours /\ \A h \in DOMAIN rows' : rows'[h] \in RowType
    BY <1>2, SaveType DEF TypeOK, RowType, Exit, PowerLoss
  <2>2. stops' \in 0..MaxStops
    BY <1>1, <1>2 DEF Exit, PowerLoss, Gone
  <2>3. /\ now' = now /\ P1' = 0 /\ PJ' = 0 /\ PD' = 0 /\ PT' = 0 /\ DRP' = Empty /\ flag' = 0
        /\ pc' = "off" /\ last' = None /\ lasttime' = None /\ rp' = "idle" /\ rt' = 0
        /\ level' = FALSE /\ recordtime' = recordtime /\ wt' = 0 /\ index' = 0
    BY <1>2 DEF Exit, PowerLoss, Gone
  <2>4. now \in Time /\ recordtime \in Hours \cup {None} /\ 0 \in Nat /\ 0 \in Tm
    BY RainAssumption DEF TypeOK, Tm
  <2> QED
    BY <1>1, <2>1, <2>2, <2>3, <2>4, EmptyType DEF TypeOK, RowType
<1>3. CASE Tick
  <2>1. now' \in Time
    BY <1>3, RainAssumption DEF TypeOK, Tick, Time
  <2> QED
    BY <1>3, <2>1 DEF TypeOK, Tick, devdata, data, rain
<1> QED
  BY <1>2, <1>3

\* What devdata_recovery restores was frozen.
LEMMA RecoverType == ASSUME BooksInv, TypeOK, Recover PROVE TypeOK'
<1>1. CASE DOMAIN rows = {}
  BY <1>1 DEF TypeOK, Recover, rain
<1>2. CASE DOMAIN rows # {}
  <2>1. PICK h \in DOMAIN rows : \A k \in DOMAIN rows : k <= h
    BY <1>2 DEF BooksInv, Frozen, LatestRow
  <2>2. DOMAIN rows \subseteq Nat
    BY ClockFacts
  <2>3. Latest(DOMAIN rows) = h
    BY <2>1, <2>2, LatestFacts
  <2>4. rows[h] \in RowType
    BY DEF TypeOK, RowType
  <2>5. PT' = rows[h].pt
    BY <1>2, <2>3 DEF Recover
  <2>6. CASE h = Hour(now)
    <3>1. P1' = rows[h].p1 /\ PJ' = rows[h].pj /\ PD' = rows[h].pd /\ DRP' = rows[h].drp
      BY <1>2, <2>3, <2>6 DEF Recover
    <3>2. PT' \in Nat /\ P1' \in Nat /\ PJ' \in Nat /\ PD' \in Nat /\ DRP' \in SlotBytes
      BY <2>4, <2>5, <3>1 DEF RowType
    <3> QED
      BY <3>2 DEF TypeOK, Recover, rain
  <2>7. CASE h # Hour(now)
    <3>1. init_5min /\ init_dayRain /\ init_currentRain
      BY <1>2, <2>3, <2>7 DEF Recover
    <3>2. PT' \in Nat /\ P1' \in Nat /\ PJ' \in Nat /\ PD' \in Nat /\ DRP' \in SlotBytes
      BY <2>4, <2>5, <3>1, SumsType, EmptyType
         DEF RowType, init_5min, init_dayRain, init_currentRain
    <3> QED
      BY <3>2 DEF TypeOK, Recover, rain
  <2> QED
    BY <2>6, <2>7
<1> QED
  BY <1>1, <1>2

LEMMA NextType == ASSUME BooksInv, TypeOK, [Next]_vars PROVE TypeOK'
<1>1. CASE UNCHANGED vars
  BY <1>1 DEF vars, devdata, data, rain, alarm, TypeOK
<1> QED
  BY <1>1, RainThreadType, DataThreadType, StopType, RecoverType DEF Next, DataThread

\* The values of devdata, of the rows of the table hour and of the two threads
\* keep their types: the sums are of numbers, and the bytes of DRP stay bytes.
THEOREM TypeCorrect == Spec => []TypeOK
BY InitBooks, NextBooks, InitType, NextType, PTL DEF Spec


-----------------------------------------------------------------------------
(* The rain of the hour.                                                     *)

LEMMA OfHour == \A h : Of(h) \subseteq Time
BY DEF Of

LEMMA RainNowType == ASSUME SlotInv PROVE RainNow \in Nat
BY OfHour, RainType DEF SlotInv, Clocks, RainNow

LEMMA DryRain == ASSUME NEW h, Dry(h) PROVE Total(fell, Of(h)) = 0
BY NoRain DEF Dry

LEMMA Multiples ==
    /\ Unit \in Nat /\ Unit * 0 = 0
    /\ \A n \in Nat : Unit * n \in Nat /\ Unit * (n + 0) = Unit * n
                        /\ Unit * (n + 1) = Unit * n + Unit
                        /\ Unit * ((n + 1) + 0) = Unit * (n + 1)
    /\ \A m, n \in Nat : m <= n => Unit * m <= Unit * n
    /\ \A m, n \in Nat : Unit * (m + n) = Unit * m + Unit * n
<1>1. Unit \in Nat
  BY RainAssumption
<1>2. \A u, n \in Nat : u * 0 = 0 /\ u * n \in Nat /\ u * (n + 0) = u * n /\ u * (n + 1) = u * n + u
                          /\ u * ((n + 1) + 0) = u * (n + 1)
  OBVIOUS
<1>3. \A u, m, n \in Nat : u * (m + n) = u * m + u * n
  OBVIOUS
<1>4. ASSUME NEW m \in Nat, NEW n \in Nat, m <= n PROVE Unit * m <= Unit * n
  <2>1. n - m \in Nat /\ n = m + (n - m)
    BY <1>4
  <2>2. Unit * n = Unit * m + Unit * (n - m) /\ Unit * (n - m) \in Nat /\ Unit * m \in Nat
    BY <1>1, <1>2, <1>3, <2>1
  <2> QED
    BY <2>2
<1> QED
  BY <1>1, <1>2, <1>3, <1>4

LEMMA InitHour == Init => HourInv
<1> SUFFICES ASSUME Init PROVE HourInv
  OBVIOUS
<1>1. /\ pc = "off" /\ P1 = 0 /\ PJ = 0 /\ PD = 0 /\ rp = "idle" /\ DOMAIN rows = {}
      /\ acc = None /\ now = 0
  BY DEF Init
<1>2. Hour(now) # None
  BY <1>1, HourMonotone DEF None
<1>3. ~InP1
  BY <1>1 DEF InP1, Counting
<1> QED
  BY <1>1, <1>2, <1>3 DEF HourInv

\* The steps that leave the rain of the hour and its row alone.
LEMMA QuietHour ==
    ASSUME HourInv, UNCHANGED <<now, P1, fell, rows, acc>>, upset \subseteq upset', saved' => saved,
           InP1' = InP1, pc' = "sums" => pc = "sums",
           \/ pc' = pc /\ (pc \in {"off", "recover"} => PD' = PD /\ (PJ' = PJ \/ Hour(now) \in upset'))
              /\ (pc = "off" => PJ' = PJ)
           \/ pc \notin {"off", "recover"} /\ pc' \notin {"off", "recover"}
           \/ pc = "off" /\ pc' = "recover" /\ UNCHANGED <<PJ, PD>>
    PROVE  HourInv'
<1>1. RainNow' = RainNow /\ Hour(now)' = Hour(now)
  BY DEF RainNow, Of
<1>2. /\ pc = "off" => P1 = 0 /\ PJ = 0
      /\ pc \in {"off", "recover"} => PD = 0
  BY DEF HourInv
<1>3. (pc' = "off" => P1' = 0 /\ PJ' = 0) /\ (pc' \in {"off", "recover"} => PD' = 0)
  BY <1>2
<1> SUFFICES ASSUME Hour(now) \notin upset'
             PROVE  /\ pc' = "recover" => P1' = 0 /\ PJ' = 0
                    /\ InP1' => acc' = Hour(now) /\ pc' \notin {"off", "recover", "sums"}
                    /\ acc' = Hour(now) => P1' = Unit * (RainNow + IF InP1' THEN 1 ELSE 0)
                    /\ (saved' \/ pc' \in {"off", "recover"}) /\ Hour(now) \in DOMAIN rows' =>
                          rows'[Hour(now)].p1 = Unit * RainNow
  BY <1>1, <1>3, Zenon DEF HourInv
<1>4. Hour(now) \notin upset
  OBVIOUS
<1>5. /\ pc = "recover" => P1 = 0 /\ PJ = 0
      /\ InP1 => acc = Hour(now) /\ pc \notin {"off", "recover", "sums"}
      /\ acc = Hour(now) => P1 = Unit * (RainNow + IF InP1 THEN 1 ELSE 0)
      /\ (saved \/ pc \in {"off", "recover"}) /\ Hour(now) \in DOMAIN rows =>
            rows[Hour(now)].p1 = Unit * RainNow
  BY <1>4, Zenon DEF HourInv
<1>6. pc' = "recover" => P1' = 0 /\ PJ' = 0
  BY <1>2, <1>5
<1>7. InP1' => acc' = Hour(now) /\ pc' \notin {"off", "recover", "sums"}
  BY <1>5
<1>8. acc' = Hour(now) => P1' = Unit * (RainNow + IF InP1' THEN 1 ELSE 0)
  BY <1>5, Zenon
<1>9. (saved' \/ pc' \in {"off", "recover"}) /\ Hour(now) \in DOMAIN rows' =>
         rows'[Hour(now)].p1 = Unit * RainNow
  BY <1>5
<1> QED
  BY <1>6, <1>7, <1>8, <1>9, Zenon

LEMMA PassiveHour ==
    ASSUME BooksInv, HourInv,
           FirstEvent \/ Pulse \/ CountPJ \/ CountPT \/ PollFirst \/ SameHour \/ Sums \/ Warn
             \/ Boot \/ UNCHANGED vars
    PROVE  HourInv'
<1>1. UNCHANGED <<now, P1, fell, rows, acc>>
  BY DEF FirstEvent, Pulse, CountPJ, CountPT, PollFirst, SameHour, Sums, Warn, NoWarn, WarnTime, WarnClear, WarnRead, Boot, vars, devdata
<1>2. upset \subseteq upset'
  BY DEF FirstEvent, Pulse, CountPJ, CountPT, PollFirst, SameHour, Sums, Warn, NoWarn, WarnTime, WarnClear, WarnRead, Boot, vars, Upsets
<1>3. saved' => saved
  BY Zenon DEF FirstEvent, Pulse, CountPJ, CountPT, PollFirst, SameHour, Sums, Warn, NoWarn, WarnTime, WarnClear, WarnRead, Boot, vars
<1>0. pc' = "sums" => pc = "sums"
  BY DEF FirstEvent, Pulse, CountPJ, CountPT, PollFirst, SameHour, Sums, Warn, NoWarn, WarnTime, WarnClear, WarnRead, Boot, vars, data
<1>4. InP1' = InP1
  <2>1. CASE Pulse
    BY <2>1 DEF Pulse, InP1, Counting
  <2>2. CASE CountPT
    BY <2>2 DEF CountPT, InP1, Counting
  <2>3. CASE CountPJ
    BY <2>3 DEF CountPJ, InP1, Counting
  <2>4. CASE FirstEvent \/ PollFirst \/ SameHour \/ Sums \/ Warn \/ Boot \/ UNCHANGED vars
    <3>1. UNCHANGED <<now, rp, rt>>
      BY <2>4 DEF FirstEvent, PollFirst, SameHour, Sums, Warn, NoWarn, WarnTime, WarnClear, WarnRead, Boot, vars, rain
    <3> QED
      BY <3>1 DEF InP1, Counting
  <2> QED
    BY <2>1, <2>2, <2>3, <2>4
<1>5. CASE CountPJ
  <2>1. pc # "off" /\ pc' = pc /\ PD' = PD
    BY <1>5, ClockFacts DEF CountPJ, data
  <2>2. pc = "recover" => Hour(now) \in upset'
    BY <1>5 DEF CountPJ, Upsets
  <2> QED
    BY <1>0, <1>1, <1>2, <1>3, <1>4, <2>1, <2>2, QuietHour, Zenon
<1>6. CASE PollFirst \/ SameHour \/ Sums \/ Warn
  <2>1. pc \notin {"off", "recover"} /\ pc' \notin {"off", "recover"}
    BY <1>6 DEF PollFirst, SameHour, Sums, Warn, NoWarn, WarnTime, WarnClear, WarnRead
  <2> QED
    BY <1>0, <1>1, <1>2, <1>3, <1>4, <2>1, QuietHour, Zenon
<1>7. CASE FirstEvent \/ Pulse \/ CountPT \/ UNCHANGED vars
  <2>1. pc' = pc /\ UNCHANGED <<PJ, PD>>
    BY <1>7 DEF FirstEvent, Pulse, CountPT, vars, devdata, data
  <2> QED
    BY <1>0, <1>1, <1>2, <1>3, <1>4, <2>1, QuietHour, Zenon
<1>8. CASE Boot
  <2>1. pc = "off" /\ pc' = "recover" /\ UNCHANGED <<PJ, PD>>
    BY <1>8 DEF Boot, devdata
  <2> QED
    BY <1>0, <1>1, <1>2, <1>3, <1>4, <2>1, QuietHour, Zenon
<1> QED
  BY <1>5, <1>6, <1>7, <1>8

\* A pulse is added to P1, and then to the books: in an hour that nothing upset.
LEMMA CountHour ==
    ASSUME BooksInv, SlotInv, HourInv, CountP1 \/ CountDRP
    PROVE  HourInv'
<1>1. UNCHANGED <<now, PJ, PD, rows, acc, pc, rt>> /\ saved' = FALSE /\ Upsets
  BY DEF CountP1, CountDRP, data
<1>2. pc # "off"
  BY ClockFacts DEF CountP1, CountDRP
<1>3. pc' \in {"off", "recover"} => PD' = 0
  BY <1>1 DEF HourInv
<1> SUFFICES ASSUME Hour(now) \notin upset'
             PROVE  /\ pc \notin {"recover", "sums"} /\ acc = Hour(now)
                    /\ P1' = Unit * (RainNow' + IF InP1' THEN 1 ELSE 0)
  BY <1>1, <1>2, <1>3 DEF HourInv
<1>4. /\ Hour(rt) = Hour(now) /\ acc = Hour(now) /\ pc \notin {"recover", "sums"}
      /\ Hour(now) \notin upset
  BY <1>1 DEF Upsets
<1>5. P1 = Unit * (RainNow + IF InP1 THEN 1 ELSE 0) /\ RainNow \in Nat
  BY <1>4, RainNowType DEF HourInv
<1>6. CASE CountP1
  <2>1. ~InP1 /\ InP1' /\ P1' = P1 + Unit /\ UNCHANGED <<now, fell>>
    BY <1>1, <1>4, <1>6 DEF CountP1, InP1, Counting
  <2>2. RainNow' = RainNow
    BY <2>1 DEF RainNow, Of
  <2>3. P1 = Unit * RainNow
    BY <1>5, <2>1, Multiples
  <2>4. P1' = Unit * (RainNow + 1)
    BY <1>5, <2>1, <2>3, Multiples
  <2> QED
    BY <1>4, <2>1, <2>2, <2>4
<1>7. CASE CountDRP
  <2>1. /\ InP1 /\ ~(InP1') /\ P1' = P1 /\ now' = now
        /\ fell' = [fell EXCEPT ![rt] = @ + 1]
    BY <1>1, <1>4, <1>7 DEF CountDRP, InP1, Counting
  <2>2. rt \in Time /\ fell \in [Time -> Nat]
    BY ClockFacts, RainAssumption DEF SlotInv, Clocks, Time
  <2>3. rt \in Of(Hour(now)) /\ Of(Hour(now)) \subseteq Time
    BY <1>4, <2>2, OfHour DEF Of
  <2>4. Total(fell', Of(Hour(now))) = RainNow + 1
    BY <2>1, <2>2, <2>3, RainOfPulse DEF RainNow
  <2>5. RainNow' = RainNow + 1
    BY <2>1, <2>4 DEF RainNow, Of
  <2>6. P1 = Unit * (RainNow + 1)
    BY <1>5, <2>1
  <2> QED
    BY <1>4, <1>5, <2>1, <2>5, <2>6, Multiples
<1> QED
  BY <1>6, <1>7

\* devdata_save by the freeze or by the hourly report.
LEMMA SaveHour ==
    ASSUME SlotInv, HourInv, devdata_save, UNCHANGED <<now, P1, fell, acc, rp, rt>>,
           pc \notin {"off", "recover"}, pc' \notin {"off", "recover"}, pc' = "sums" => pc = "sums"
    PROVE  HourInv'
<1>1. rows' = WithRow /\ upset \subseteq upset' /\ (saved' => acc = Hour(now) /\ rp = "idle")
  BY DEF devdata_save
<1>2. RainNow' = RainNow /\ InP1' = InP1 /\ RainNow \in Nat
  BY RainNowType DEF RainNow, Of, InP1, Counting
<1> SUFFICES ASSUME Hour(now) \notin upset'
             PROVE  /\ InP1 => acc = Hour(now) /\ pc # "sums"
                    /\ acc = Hour(now) => P1 = Unit * (RainNow + IF InP1 THEN 1 ELSE 0)
                    /\ saved' => rows'[Hour(now)].p1 = Unit * RainNow
  BY <1>2 DEF HourInv
<1>3. /\ InP1 => acc = Hour(now) /\ pc # "sums"
      /\ acc = Hour(now) => P1 = Unit * (RainNow + IF InP1 THEN 1 ELSE 0)
  BY <1>1 DEF HourInv
<1>4. ASSUME saved' PROVE rows'[Hour(now)].p1 = Unit * RainNow
  <2>1. acc = Hour(now) /\ rp = "idle"
    BY <1>1, <1>4
  <2>2. ~InP1
    BY <2>1 DEF InP1, Counting
  <2>3. P1 = Unit * RainNow
    BY <1>2, <1>3, <2>1, <2>2, Multiples
  <2> QED
    BY <1>1, <2>3 DEF WithRow
<1> QED
  BY <1>3, <1>4

LEMMA FreezeHour == ASSUME BooksInv, SlotInv, HourInv, Freeze \/ Record PROVE HourInv'
<1>1. CASE Freeze
  <2>1. /\ UNCHANGED <<now, P1, fell, acc, rp, rt>>
        /\ pc \notin {"off", "recover"} /\ pc' \notin {"off", "recover", "sums"}
    BY <1>1 DEF Freeze, devdata, rain
  <2>2. devdata_save \/ UNCHANGED <<rows, saved, upset>>
    BY <1>1 DEF Freeze
  <2>3. CASE UNCHANGED <<rows, saved, upset>>
    <3>1. InP1' = InP1 /\ (saved' => saved) /\ upset \subseteq upset'
      BY <2>1, <2>3 DEF InP1, Counting
    <3> QED
      BY <2>1, <2>3, <3>1, QuietHour
  <2> QED
    BY <2>1, <2>2, <2>3, SaveHour
<1>2. CASE Record
  <2>1. pc # "recover"
    BY <1>2 DEF Record, BooksInv, Running
  <2>2. UNCHANGED <<now, P1, fell, acc, rp, rt, pc>> /\ pc # "off" /\ devdata_save
    BY <1>2 DEF Record, devdata, data, rain, On
  <2> QED
    BY <2>1, <2>2, SaveHour
<1> QED
  BY <1>1, <1>2

\* rain_poll empties P1 only in an hour of which it holds nothing.
LEMMA NewHourHour == ASSUME BooksInv, SlotInv, HourInv, NewHour PROVE HourInv'
<1>1. /\ P1' = 0 /\ acc' = Hour(now) /\ saved' = FALSE /\ pc' = "sums" /\ pc = "poll"
      /\ lasttime \notin {None, Hour(now)} /\ UNCHANGED <<now, rows, fell, rp, rt, upset>>
  BY DEF NewHour, init_5min, rain
<1>2. acc # Hour(now)
  BY <1>1 DEF SlotInv, Clocks
<1>3. RainNow' = RainNow /\ InP1' = InP1
  BY <1>1 DEF RainNow, Of, InP1, Counting
<1> SUFFICES ASSUME Hour(now) \notin upset
             PROVE  ~InP1 /\ 0 = Unit * (RainNow + IF InP1 THEN 1 ELSE 0)
  BY <1>1, <1>3 DEF HourInv
<1>4. ~InP1
  BY <1>2 DEF HourInv
<1>5. RainNow = 0
  BY <1>1, <1>2, DryRain DEF SlotInv, Undisturbed, Held, RainNow
<1> QED
  BY <1>4, <1>5, Multiples

\* A stop keeps the rain of the hour, in its row, or upsets the hour.
LEMMA StopHour == ASSUME BooksInv, SlotInv, HourInv, Exit \/ PowerLoss PROVE HourInv'
<1>1. /\ P1' = 0 /\ PJ' = 0 /\ PD' = 0 /\ acc' = None /\ rp' = "idle" /\ pc' = "off"
      /\ UNCHANGED <<now, fell>>
  BY DEF Exit, PowerLoss, Gone
<1>2. Hour(now) \in Nat /\ None # Hour(now)
  BY ClockFacts DEF None
<1>3. RainNow' = RainNow /\ ~(InP1') /\ RainNow \in Nat
  BY <1>1, RainNowType DEF RainNow, Of, InP1, Counting
<1> SUFFICES ASSUME Hour(now) \notin upset', Hour(now) \in DOMAIN rows'
             PROVE  rows'[Hour(now)].p1 = Unit * RainNow
  BY <1>1, <1>2, <1>3 DEF HourInv
<1>4. CASE Exit
  <2>1. rows' = WithRow /\ acc = Hour(now) /\ upset' = upset /\ rp = "idle"
    BY <1>4 DEF Exit
  <2>2. ~InP1
    BY <2>1 DEF InP1, Counting
  <2>3. P1 = Unit * RainNow
    BY <1>3, <2>1, <2>2, Multiples DEF HourInv
  <2> QED
    BY <2>1, <2>3 DEF WithRow
<1>5. CASE PowerLoss
  <2>1. rows' = rows /\ saved /\ upset' = upset
    BY <1>5 DEF PowerLoss
  <2> QED
    BY <2>1 DEF HourInv
<1> QED
  BY <1>4, <1>5

\* What devdata_recovery and init_rain find, once more: the row of the running hour,
\* or none of it.
LEMMA RecoverFinds ==
    ASSUME BooksInv, Recover
    PROVE  \/ DOMAIN rows = {} /\ UNCHANGED <<P1, PJ, PD>>
           \/ /\ DOMAIN rows # {} /\ Hour(now) \notin DOMAIN rows
              /\ P1' = 0 /\ init_dayRain /\ init_currentRain
           \/ /\ Hour(now) \in DOMAIN rows
              /\ P1' = rows[Hour(now)].p1 /\ PJ' = rows[Hour(now)].pj /\ PD' = rows[Hour(now)].pd
<1>1. Hour(now) \in Nat /\ DOMAIN rows \subseteq 0..Hour(now)
  BY ClockFacts
<1>2. CASE DOMAIN rows = {}
  BY <1>2 DEF Recover
<1>3. CASE DOMAIN rows # {}
  <2>1. PICK h \in DOMAIN rows : \A k \in DOMAIN rows : k <= h
    BY <1>3 DEF BooksInv, Frozen, LatestRow
  <2>2. DOMAIN rows \subseteq Nat
    BY <1>1
  <2>3. Latest(DOMAIN rows) = h
    BY <2>1, <2>2, LatestFacts
  <2>4. CASE h = Hour(now)
    BY <1>3, <2>3, <2>4 DEF Recover
  <2>5. CASE h # Hour(now)
    <3>1. Hour(now) \notin DOMAIN rows
      <4>1. h \in Nat /\ h <= Hour(now)
        BY <1>1
      <4> QED
        BY <1>1, <2>1, <2>5, <4>1
    <3>2. P1' = 0 /\ init_dayRain /\ init_currentRain
      BY <1>3, <2>3, <2>5 DEF Recover, init_5min
    <3> QED
      BY <1>3, <3>1, <3>2
  <2> QED
    BY <2>4, <2>5
<1> QED
  BY <1>2, <1>3

LEMMA RecoverHour == ASSUME BooksInv, SlotInv, HourInv, Recover PROVE HourInv'
<1>1. /\ pc = "recover" /\ pc' = "top" /\ acc' = Hour(now) /\ saved' = FALSE
      /\ UNCHANGED <<now, rows, fell, rp, rt, upset>>
  BY DEF Recover, rain
<1>2. RainNow' = RainNow /\ InP1' = InP1
  BY <1>1 DEF RainNow, Of, InP1, Counting
<1> SUFFICES ASSUME Hour(now) \notin upset
             PROVE  P1' = Unit * (RainNow + IF InP1 THEN 1 ELSE 0)
  BY <1>1, <1>2 DEF HourInv
<1>3. ~InP1 /\ P1 = 0 /\ RainNow \in Nat
  BY <1>1, RainNowType DEF HourInv
<1>4. P1' = Unit * RainNow
  <2>1. Restorable
    BY <1>1 DEF SlotInv, Undisturbed
  <2>2. CASE Hour(now) \notin DOMAIN rows
    <3>1. RainNow = 0
      BY <2>1, <2>2, DryRain DEF Restorable, RainNow
    <3>2. P1' = 0
      BY <1>3, <2>2, RecoverFinds
    <3> QED
      BY <3>1, <3>2, Multiples
  <2>3. CASE Hour(now) \in DOMAIN rows
    <3>1. P1' = rows[Hour(now)].p1
      BY <2>3, RecoverFinds
    <3> QED
      BY <1>1, <2>3, <3>1 DEF HourInv
  <2> QED
    BY <2>2, <2>3
<1> QED
  BY <1>3, <1>4, Multiples

LEMMA TickHour == ASSUME BooksInv, SlotInv, HourInv, Tick PROVE HourInv'
<1>1. /\ now' = now + 1 /\ now < MaxTime /\ pc # "recover"
      /\ UNCHANGED <<P1, PJ, PD, fell, rows, acc, rp, rt, saved, upset, pc>>
  BY DEF Tick, devdata, data, rain, On
<1>2. now \in Nat /\ Hour(now) \in Nat /\ DOMAIN rows \subseteq 0..Hour(now)
  BY ClockFacts
<1>3. now' \in Nat /\ Hour(now') \in Nat /\ Hour(now) <= Hour(now')
  BY <1>1, <1>2, HourMonotone
<1>4. CASE Hour(now') = Hour(now)
  <2>1. RainNow' = RainNow /\ InP1' = InP1
    BY <1>1, <1>4 DEF RainNow, Of, InP1, Counting
  <2> QED
    BY <1>1, <1>4, <2>1 DEF HourInv
<1>5. CASE Hour(now') # Hour(now)
  <2>1. Hour(now) < Hour(now')
    BY <1>2, <1>3, <1>5
  <2>2. acc # Hour(now')
    BY <1>2, <1>3, <2>1 DEF SlotInv, Clocks, None
  <2>3. Hour(rt) <= Hour(now) /\ Hour(rt) \in Nat
    BY <1>2, HourMonotone DEF SlotInv, Clocks
  <2>4. ~(InP1')
    BY <1>1, <1>2, <1>3, <2>1, <2>3 DEF InP1, Counting
  <2>5. Hour(now') \notin DOMAIN rows'
    BY <1>1, <1>2, <1>3, <2>1
  <2>6. (pc' = "off" => P1' = 0 /\ PJ' = 0) /\ (pc' \in {"off", "recover"} => PD' = 0)
        /\ pc' # "recover"
    BY <1>1 DEF HourInv
  <2> QED
    BY <1>1, <2>2, <2>4, <2>5, <2>6 DEF HourInv
<1> QED
  BY <1>4, <1>5

LEMMA NextHour == ASSUME BooksInv, SlotInv, HourInv, [Next]_vars PROVE HourInv'
BY PassiveHour, CountHour, FreezeHour, NewHourHour, StopHour, RecoverHour, TickHour
   DEF Next, RainThread, DataThread

\* P1 is the rain of the running hour through freezes, the turn of the hour, the
\* hourly report, stops and restarts, in every hour that none of them met a pulse
\* in the middle; and what upset an hour does not reach the next one.
THEOREM HoursExact == Spec => []HourRain
<1>1. SlotInv /\ HourInv => HourRain
  <2> SUFFICES ASSUME SlotInv, HourInv, Settled PROVE P1 = Unit * RainNow
    BY DEF HourRain, RainNow
  <2>1. ~InP1 /\ acc = Hour(now) /\ Hour(now) \notin upset
    BY DEF Settled, Working, InP1, Counting
  <2> QED
    BY <2>1, RainNowType, Multiples DEF HourInv
<1> QED
  BY <1>1, InitBooks, NextBooks, InitSlots, NextSlots, InitHour, NextHour, PTL DEF Spec


-----------------------------------------------------------------------------
(* The slots of an hour, and the hours of a day.                             *)

\* The end of an hour.
LEMMA LastSlot ==
    ASSUME NEW x \in Nat, Hour(x + 1) # Hour(x)
    PROVE  /\ Slot(x) = Slots - 1 /\ Hour(x + 1) = Hour(x) + 1
           /\ \A t \in Nat : Hour(t) = Hour(x) /\ Slot(t) # Slots - 1 => t < x
<1> DEFINE m == Slots
           q(t) == t \div m
           r(t) == t % m
<1>1. m \in Nat /\ m > 0
  BY RainAssumption
<1>2. \A t \in Nat : q(t) \in Nat /\ r(t) \in 0..(m - 1) /\ t = m * q(t) + r(t)
  BY <1>1
<1>3. \A a, b \in Nat : m * (a + 1) = m * a + m /\ (b > a => m * b >= m * a + m) /\ m * a \in Nat
  <2>1. \A n, a \in Nat : n * (a + 1) = n * a + n /\ n * a \in Nat
    OBVIOUS
  <2>2. ASSUME NEW a \in Nat, NEW b \in Nat, b > a PROVE m * b >= m * a + m
    <3>1. b - (a + 1) \in Nat /\ b = (a + 1) + (b - (a + 1))
      BY <2>2
    <3>2. \A n, c, d \in Nat : n * (c + d) = n * c + n * d
      OBVIOUS
    <3>3. m * b = m * (a + 1) + m * (b - (a + 1))
      BY <1>1, <3>1, <3>2
    <3>4. m * (b - (a + 1)) \in Nat /\ m * (a + 1) = m * a + m /\ m * a \in Nat
      BY <1>1, <2>1, <3>1
    <3> QED
      BY <1>1, <3>3, <3>4
  <2> QED
    BY <1>1, <2>1, <2>2
<1>4. q(x + 1) # q(x)
  BY DEF Hour
<1> HIDE DEF m, q, r
<1>5. /\ x + 1 \in Nat
      /\ q(x) \in Nat /\ r(x) \in 0..(m - 1) /\ x = m * q(x) + r(x) /\ m * q(x) \in Nat
      /\ q(x + 1) \in Nat /\ r(x + 1) \in 0..(m - 1) /\ x + 1 = m * q(x + 1) + r(x + 1)
      /\ m * q(x + 1) \in Nat
  <2>1. x + 1 \in Nat
    OBVIOUS
  <2> QED
    BY <1>2, <1>3, <2>1
<1>6. q(x + 1) > q(x)
  <2>1. q(x) > q(x + 1) => m * q(x) >= m * q(x + 1) + m
    BY <1>3, <1>5
  <2>2. ~(q(x) > q(x + 1))
    BY <1>1, <1>5, <2>1
  <2> QED
    BY <1>4, <1>5, <2>2
<1>7. r(x) = m - 1
  <2>1. m * q(x + 1) >= m * q(x) + m
    BY <1>3, <1>5, <1>6
  <2>2. \A a, b, c, d \in Nat :
            c <= m - 1 /\ b >= a + m /\ x = a + c /\ x + 1 = b + d => c = m - 1
    BY <1>1
  <2>3. r(x) \in Nat /\ r(x) <= m - 1 /\ r(x + 1) \in Nat
    BY <1>1, <1>5
  <2> QED
    BY <1>5, <2>1, <2>2, <2>3
<1>8. q(x + 1) = q(x) + 1
  <2>1. q(x) + 1 \in Nat /\ m * (q(x) + 1) = m * q(x) + m
    BY <1>3, <1>5
  <2>2. q(x + 1) > q(x) + 1 => m * q(x + 1) >= m * (q(x) + 1) + m
    BY <1>3, <1>5, <2>1
  <2>3. ~(m * q(x + 1) >= m * q(x) + m + m)
    BY <1>1, <1>5, <1>7
  <2>4. ~(q(x + 1) > q(x) + 1)
    BY <2>1, <2>2, <2>3
  <2> QED
    BY <1>5, <1>6, <2>4
<1>9. ASSUME NEW t \in Nat, q(t) = q(x), r(t) # m - 1 PROVE t < x
  <2>1. t = m * q(x) + r(t) /\ r(t) \in 0..(m - 1)
    BY <1>2, <1>9
  <2> QED
    BY <1>1, <1>5, <1>7, <1>9, <2>1
<1> QED
  BY <1>7, <1>8, <1>9 DEF Hour, Slot, m, q, r

LEMMA SameHourBefore ==
    ASSUME NEW x \in Nat, Slot(x) # 0
    PROVE  x - 1 \in Nat /\ Hour(x - 1) = Hour(x)
<1>1. Slots \in Nat /\ Slots > 0
  BY RainAssumption
<1>2. x # 0
  BY <1>1 DEF Slot
<1>3. x - 1 \in Nat /\ (x - 1) + 1 = x
  BY <1>2
<1>4. ASSUME Hour((x - 1) + 1) # Hour(x - 1) PROVE FALSE
  <2>1. Slot(x - 1) = Slots - 1 /\ Hour(x) = Hour(x - 1) + 1
    BY <1>3, <1>4, LastSlot
  <2>2. x - 1 = Slots * Hour(x - 1) + Slot(x - 1) /\ x = Slots * Hour(x) + Slot(x)
        /\ Hour(x - 1) \in Nat /\ Hour(x) \in Nat
    BY <1>1, <1>3 DEF Hour, Slot
  <2>3. Slots * (Hour(x - 1) + 1) = Slots * Hour(x - 1) + Slots
    <3>1. \A n, a \in Nat : n * (a + 1) = n * a + n
      OBVIOUS
    <3> QED
      BY <1>1, <2>2, <3>1
  <2>4. Slots * Hour(x - 1) \in Nat /\ Slot(x) \in Nat
    <3>1. \A n, a \in Nat : n * a \in Nat
      OBVIOUS
    <3> QED
      BY <1>1, <2>2, <3>1 DEF Slot
  <2>5. x = Slots * Hour(x - 1) + Slots + Slot(x)
    BY <2>1, <2>2, <2>3
  <2>6. x = Slots * Hour(x - 1) + Slots
    BY <1>1, <2>1, <2>2, <2>4
  <2>7. Slot(x) = 0
    BY <1>1, <2>4, <2>5, <2>6
  <2> QED
    BY <2>7
<1> QED
  BY <1>3, <1>4

\* A day begins at GetRainDayStartTime, for each of its hours.
LEMMA DayFacts ==
    ASSUME NEW h \in Int
    PROVE  /\ GetRainDayStartTime(h) \in Int
           /\ GetRainDayStartTime(h) <= h /\ h < GetRainDayStartTime(h) + DayHours
           /\ GetRainDayStartTime(h - DayHours) = GetRainDayStartTime(h) - DayHours
           /\ \A k \in Int : GetRainDayStartTime(k) = GetRainDayStartTime(h) <=>
                               GetRainDayStartTime(h) <= k /\ k < GetRainDayStartTime(h) + DayHours
<1> DEFINE m == DayHours
           s == DayStart
           q(k) == (k - s) \div m
           D(k) == GetRainDayStartTime(k)
<1>1. m \in Nat /\ m > 0 /\ s \in Int
  BY RainAssumption
<1>2. \A a \in Int : a \div m \in Int /\ a % m \in 0..(m - 1) /\ a = m * (a \div m) + (a % m)
  BY <1>1
<1>3. ASSUME NEW k \in Int
      PROVE  q(k) \in Int /\ D(k) = m * q(k) + s /\ m * q(k) \in Int
               /\ D(k) <= k /\ k < D(k) + m /\ D(k) \in Int
  <2>1. k - s \in Int
    BY <1>1
  <2>2. /\ q(k) \in Int /\ (k - s) % m \in 0..(m - 1) /\ k - s = m * q(k) + ((k - s) % m)
    BY <1>2, <2>1
  <2>3. m * q(k) \in Int
    <3>1. \A a, b \in Int : a * b \in Int
      OBVIOUS
    <3> QED
      BY <1>1, <2>2, <3>1
  <2>4. D(k) = k - ((k - s) % m)
    BY DEF GetRainDayStartTime
  <2>5. \A d, e, p \in Int : e \in 0..(m - 1) /\ k - s = p + e /\ d = k - e =>
            d = p + s /\ d <= k /\ k < d + m
    BY <1>1
  <2>6. (k - s) % m \in Int /\ D(k) \in Int
    BY <1>1, <2>2, <2>4
  <2> HIDE DEF m, s, q, D
  <2> QED
    BY <2>2, <2>3, <2>4, <2>5, <2>6
<1>4. ASSUME NEW a \in Int, NEW b \in Int, b > a PROVE m * b >= m * a + m
  <2>1. b - (a + 1) \in Nat /\ b = (a + 1) + (b - (a + 1))
    BY <1>4
  <2>2. \A n, c, d \in Int : n * (c + d) = n * c + n * d /\ n * c \in Int
    OBVIOUS
  <2>3. \A n, c \in Nat : n * c \in Nat
    OBVIOUS
  <2>4. m * b = m * (a + 1) + m * (b - (a + 1)) /\ m * (a + 1) = m * a + m * 1
        /\ m * a \in Int /\ m * 1 = m
    BY <1>1, <2>1, <2>2
  <2>5. m * (b - (a + 1)) \in Nat
    BY <1>1, <2>1, <2>3
  <2> HIDE DEF m
  <2> QED
    BY <1>1, <2>4, <2>5
<1> HIDE DEF m, s, q, D
<1>5. ASSUME NEW j \in Int, NEW k \in Int, D(j) <= k, k < D(j) + m PROVE D(k) = D(j)
  <2>1. q(j) \in Int /\ D(j) = m * q(j) + s /\ m * q(j) \in Int
    BY <1>3
  <2>2. q(k) \in Int /\ D(k) = m * q(k) + s /\ m * q(k) \in Int /\ D(k) <= k /\ k < D(k) + m
    BY <1>3
  <2>3. ~(q(k) > q(j))
    <3>1. q(k) > q(j) => m * q(k) >= m * q(j) + m
      BY <1>4, <2>1, <2>2
    <3> QED
      BY <1>1, <1>5, <2>1, <2>2, <3>1
  <2>4. ~(q(j) > q(k))
    <3>1. q(j) > q(k) => m * q(j) >= m * q(k) + m
      BY <1>4, <2>1, <2>2
    <3> QED
      BY <1>1, <1>5, <2>1, <2>2, <3>1
  <2>5. q(j) = q(k)
    BY <2>1, <2>2, <2>3, <2>4
  <2> QED
    BY <2>1, <2>2, <2>5
<1>6. \A k \in Int : D(k) = D(h) <=> D(h) <= k /\ k < D(h) + m
  BY <1>3, <1>5
<1>7. D(h - m) = D(h) - m
  <2>1. h - m \in Int /\ D(h - m) \in Int /\ D(h - m) <= h - m /\ h - m < D(h - m) + m
    BY <1>1, <1>3
  <2>2. q(h) \in Int /\ q(h - m) \in Int /\ D(h) = m * q(h) + s /\ D(h - m) = m * q(h - m) + s
        /\ m * q(h) \in Int /\ m * q(h - m) \in Int /\ D(h) <= h /\ h < D(h) + m
    BY <1>3, <2>1
  <2>3. q(h) - 1 \in Int /\ m * q(h) = m * (q(h) - 1) + m /\ m * (q(h) - 1) \in Int
    <3>1. q(h) - 1 \in Int /\ q(h) = (q(h) - 1) + 1
      BY <2>2
    <3>2. \A n, c \in Int : n * (c + 1) = n * c + n /\ n * c \in Int
      OBVIOUS
    <3>3. m * ((q(h) - 1) + 1) = m * (q(h) - 1) + m /\ m * (q(h) - 1) \in Int
      BY <1>1, <3>1, <3>2
    <3> QED
      BY <3>1, <3>3
  <2>4. ~(q(h - m) > q(h) - 1)
    <3>1. q(h - m) > q(h) - 1 => m * q(h - m) >= m * (q(h) - 1) + m
      BY <1>4, <2>2, <2>3
    <3> QED
      BY <1>1, <2>1, <2>2, <2>3, <3>1
  <2>5. ~(q(h) - 1 > q(h - m))
    <3>1. q(h) - 1 > q(h - m) => m * (q(h) - 1) >= m * q(h - m) + m
      BY <1>4, <2>2, <2>3
    <3> QED
      BY <1>1, <2>1, <2>2, <2>3, <3>1
  <2>6. q(h - m) = q(h) - 1
    BY <2>2, <2>3, <2>4, <2>5
  <2> QED
    BY <1>1, <2>2, <2>3, <2>6
<1> QED
  BY <1>3, <1>6, <1>7 DEF D, m


-----------------------------------------------------------------------------
(* The pace of the data thread.                                              *)

LEMMA InitPaced == Init => Paced
BY DEF Init, Paced, On, Begun

\* The steps that leave the clock, the freezes and rain_poll alone.
LEMMA QuietPaced ==
    ASSUME Paced, UNCHANGED <<now, last, lasttime, fell, acc>>, upset \subseteq upset',
           pc = "off" => pc' = "off", pc' \in {"off", "recover"} <=> pc \in {"off", "recover"},
           rp' # "idle" => rp # "idle" /\ rt' = rt, pc' = "sums" => pc = "sums",
           pc' # "poll" => pc # "poll", pc' = "off" <=> pc = "off"
    PROVE  Paced'
<1>1. Begun' => Begun
  BY DEF Begun
<1>2. On' <=> On
  BY DEF On
<1>3. Dry(Hour(now))' = Dry(Hour(now))
  BY DEF Dry, Of
<1>4. On' => last' \in {now' - 1, now'} \cap Time
  BY <1>2 DEF Paced
<1>5. lasttime' # None => lasttime' \in upset' \/ acc' = lasttime'
  BY DEF Paced
<1> SUFFICES ASSUME Hour(now) \notin upset'
             PROVE  /\ On' /\ rp' # "idle" => last' <= rt'
                    /\ pc' = "sums" /\ acc' = Hour(now) => Dry(Hour(now))'
                    /\ Begun' => acc' = Hour(now)
  BY <1>4, <1>5 DEF Paced
<1>6. Hour(now) \notin upset
  OBVIOUS
<1>7. /\ On /\ rp # "idle" => last <= rt
      /\ pc = "sums" /\ acc = Hour(now) => Dry(Hour(now))
      /\ Begun => acc = Hour(now)
  BY <1>6 DEF Paced
<1> QED
  BY <1>1, <1>2, <1>3, <1>7

LEMMA PassivePaced ==
    ASSUME Paced,
           FirstEvent \/ CountP1 \/ CountPJ \/ CountPT \/ Sums \/ Warn \/ Record \/ UNCHANGED vars
    PROVE  Paced'
<1>1. UNCHANGED <<now, fell, acc>>
  BY DEF FirstEvent, CountP1, CountPJ, CountPT, Sums, Warn, NoWarn, WarnTime, WarnClear, WarnRead, Record, vars
<1>2. UNCHANGED <<last, lasttime>>
  BY DEF FirstEvent, CountP1, CountPJ, CountPT, Sums, Warn, NoWarn, WarnTime, WarnClear, WarnRead, Record, vars, data
<1>3. upset \subseteq upset'
  BY DEF FirstEvent, CountP1, CountPJ, CountPT, Sums, Warn, NoWarn, WarnTime, WarnClear, WarnRead, Record, vars, Upsets, devdata_save
<1>4. rp' # "idle" => rp # "idle" /\ rt' = rt
  BY DEF FirstEvent, CountP1, CountPJ, CountPT, Sums, Warn, NoWarn, WarnTime, WarnClear, WarnRead, Record, vars, rain
<1>5. pc' = pc \/ (pc \in {"sums", "warn", "clear", "read"} /\ pc' \in {"warn", "clear", "read", "top"})
  BY DEF FirstEvent, CountP1, CountPJ, CountPT, Sums, Warn, NoWarn, WarnTime, WarnClear, WarnRead, Record, vars, data
<1> QED
  BY <1>1, <1>2, <1>3, <1>4, <1>5, QuietPaced

LEMMA PulsePaced == ASSUME BooksInv, Paced, Pulse \/ CountDRP PROVE Paced'
<1>1. UNCHANGED <<now, pc, last, lasttime, acc>> /\ now \in Nat
  BY ClockFacts DEF Pulse, CountDRP, data
<1>2. Begun' = Begun /\ On' = On
  BY <1>1 DEF Begun, On
<1>3. On => last \in {now - 1, now} \cap Time
  BY DEF Paced
<1>4. upset \subseteq upset' /\ (lasttime # None => lasttime \in upset \/ acc = lasttime)
  BY DEF Pulse, CountDRP, Upsets, Paced
<1> SUFFICES ASSUME Hour(now) \notin upset'
             PROVE  /\ On /\ rp' # "idle" => last <= rt'
                    /\ pc = "sums" /\ acc = Hour(now) => Dry(Hour(now))'
                    /\ Begun => acc = Hour(now)
  BY <1>1, <1>2, <1>3, <1>4 DEF Paced
<1>5. /\ On /\ rp # "idle" => last <= rt
      /\ pc = "sums" /\ acc = Hour(now) => Dry(Hour(now))
      /\ Begun => acc = Hour(now)
  BY <1>4 DEF Paced
<1>6. CASE Pulse
  <2>1. rt' = now /\ fell' = fell
    BY <1>6 DEF Pulse
  <2>2. Dry(Hour(now))' = Dry(Hour(now))
    BY <1>1, <2>1 DEF Dry, Of
  <2>3. On => last <= now
    BY <1>1, <1>3
  <2> QED
    BY <1>5, <2>1, <2>2, <2>3
<1>7. CASE CountDRP
  <2>1. rt' = rt /\ rp # "idle" /\ pc # "sums"
    BY <1>7 DEF CountDRP, Upsets
  <2> QED
    BY <1>5, <2>1
<1> QED
  BY <1>6, <1>7

\* From the second slot of an hour on, a freeze is of an hour that has begun.
LEMMA FreezePaced == ASSUME BooksInv, Paced, Freeze PROVE Paced'
<1>1. /\ pc = "top" /\ pc' = "poll" /\ last' = now
      /\ UNCHANGED <<now, lasttime, acc, fell, rp, rt>>
  BY DEF Freeze, rain
<1>2. now \in Nat /\ now \in Time
  BY ClockFacts
<1>3. upset \subseteq upset' /\ (last = now \/ rp = "idle" \/ Hour(now) \in upset')
  BY DEF Freeze, devdata_save
<1>4. last \in {now - 1, now} /\ (lasttime # None => lasttime \in upset \/ acc = lasttime)
  BY <1>1 DEF Paced, On
<1> SUFFICES ASSUME Hour(now) \notin upset'
             PROVE  (rp # "idle" => now <= rt) /\ (Slot(now) # 0 => acc = Hour(now))
  BY <1>1, <1>2, <1>3, <1>4 DEF Paced, Begun
<1>5. /\ rp # "idle" => last <= rt
      /\ Begun => acc = Hour(now)
  BY <1>1, <1>3 DEF Paced, On
<1>6. Slot(now) # 0 => Hour(last) = Hour(now)
  BY <1>2, <1>4, SameHourBefore
<1> QED
  BY <1>1, <1>3, <1>5, <1>6 DEF Begun

LEMMA PollPaced == ASSUME BooksInv, SlotInv, Paced, PollFirst \/ SameHour \/ NewHour PROVE Paced'
<1>1. /\ pc = "poll" /\ pc' \in {"warn", "sums"} /\ UNCHANGED <<now, last, fell, rp, rt>>
      /\ lasttime' = Hour(now) /\ upset \subseteq upset'
  BY DEF PollFirst, SameHour, NewHour, rain
<1>2. last \in {now - 1, now} \cap Time
  BY <1>1 DEF Paced, On
<1>3. acc' = Hour(now) \/ Hour(now) \in upset'
  <2>1. CASE SameHour
    <3>1. lasttime = Hour(now) /\ acc' = acc /\ upset' = upset
      BY <2>1 DEF SameHour
    <3>2. Hour(now) # None
      BY ClockFacts DEF None
    <3> QED
      BY <3>1, <3>2 DEF Paced
  <2>2. CASE PollFirst \/ NewHour
    BY <2>2 DEF PollFirst, NewHour
  <2> QED
    BY <2>1, <2>2
<1> SUFFICES ASSUME Hour(now) \notin upset'
             PROVE  (rp # "idle" => last <= rt) /\ (pc' = "sums" => Dry(Hour(now))')
  BY <1>1, <1>2, <1>3 DEF Paced
<1>4. rp # "idle" => last <= rt
  BY <1>1 DEF Paced, On
<1>5. ASSUME pc' = "sums" PROVE Dry(Hour(now))'
  <2>1. NewHour
    BY <1>5 DEF PollFirst, SameHour
  <2>2. lasttime \notin {None, Hour(now)}
    BY <2>1 DEF NewHour
  <2>3. acc # Hour(now)
    BY <2>2 DEF SlotInv, Clocks
  <2>4. Dry(Hour(now))
    BY <1>1, <2>3 DEF SlotInv, Undisturbed, Held
  <2> QED
    BY <1>1, <2>4 DEF Dry, Of
<1> QED
  BY <1>4, <1>5

LEMMA StopPaced ==
    ASSUME BooksInv, SlotInv, Paced, Exit \/ PowerLoss \/ Boot \/ Recover
    PROVE  Paced'
<1>1. CASE Exit \/ PowerLoss
  BY <1>1 DEF Exit, PowerLoss, Gone, Paced, On, Begun
<1>2. CASE Boot
  <2>1. pc = "off" /\ pc' = "recover" /\ last' = now /\ UNCHANGED <<now, lasttime, acc, upset, rp>>
    BY <1>2 DEF Boot, rain
  <2>2. rp = "idle" /\ now \in Time
    BY <2>1, ClockFacts
  <2> QED
    BY <2>1, <2>2 DEF Paced, On, Begun
<1>3. CASE Recover
  <2>1. /\ pc = "recover" /\ pc' = "top" /\ acc' = Hour(now)
        /\ UNCHANGED <<now, last, lasttime, rp, rt, upset>>
    BY <1>3 DEF Recover, rain
  <2>2. lasttime = None
    BY <2>1 DEF SlotInv, Clocks
  <2>3. last \in {now - 1, now} \cap Time /\ (Hour(now) \notin upset /\ rp # "idle" => last <= rt)
    BY <2>1 DEF Paced, On
  <2> QED
    BY <2>1, <2>2, <2>3 DEF Paced
<1> QED
  BY <1>1, <1>2, <1>3

LEMMA TickPaced == ASSUME BooksInv, SlotInv, Paced, Tick PROVE Paced'
<1>1. /\ now' = now + 1 /\ now < MaxTime /\ pc # "recover" /\ (On => last = now)
      /\ (rp = "idle" \/ rt = now)
      /\ UNCHANGED <<fell, acc, rp, rt, last, lasttime, upset, pc>>
  BY DEF Tick, data, rain, On
<1>2. now \in Nat /\ now \in Time /\ Hour(now) \in Nat
  BY ClockFacts
<1>3. now' \in Nat /\ Hour(now') \in Nat /\ Hour(now) <= Hour(now')
  BY <1>1, <1>2, HourMonotone
<1>4. On' = On /\ (On => last \in {now' - 1, now'} \cap Time)
  BY <1>1, <1>2 DEF On
<1>5. lasttime # None => lasttime \in upset \/ acc = lasttime
  BY DEF Paced
<1>6. On /\ rp # "idle" => last <= rt
  BY <1>1, <1>2
<1>7. acc \in 0..Hour(now) \cup {None}
  BY DEF SlotInv, Clocks
<1> SUFFICES ASSUME Hour(now') \notin upset
             PROVE  /\ pc = "sums" /\ acc = Hour(now') => Dry(Hour(now))'
                    /\ Begun' => acc = Hour(now')
  BY <1>1, <1>4, <1>5, <1>6 DEF Paced
<1>8. CASE Hour(now') = Hour(now)
  <2>1. Dry(Hour(now))' = Dry(Hour(now)) /\ Begun' = Begun
    BY <1>1, <1>8 DEF Dry, Of, Begun
  <2> QED
    BY <1>8, <2>1 DEF Paced
<1>9. CASE Hour(now') # Hour(now)
  <2>1. acc # Hour(now')
    BY <1>2, <1>3, <1>7, <1>9 DEF None
  <2>2. ~(Begun')
    BY <1>1, <1>9 DEF Begun, On
  <2> QED
    BY <2>1, <2>2
<1> QED
  BY <1>8, <1>9

LEMMA NextPaced == ASSUME BooksInv, SlotInv, Paced, [Next]_vars PROVE Paced'
BY PassivePaced, PulsePaced, FreezePaced, PollPaced, StopPaced, TickPaced
   DEF Next, RainThread, DataThread


-----------------------------------------------------------------------------
(* The row of the running hour.                                              *)

\* Its freeze was of the hour that runs.
LateFreeze ==
    /\ Hour(now) \notin upset /\ pc \notin {"off", "recover"}
    /\ Hour(last) = Hour(now) /\ Slot(last) # 0

\* A row that holds all the rain of the hour so far.
LEMMA ExactRow ==
    ASSUME NEW f \in [Time -> Nat], NEW R, R \subseteq Time, NEW S, S \subseteq R,
           NEW v, v = Unit * Total(f, R)
    PROVE  v \in (Unit * Total(f, S))..(Unit * Total(f, R))
<1>1. Total(f, S) \in Nat /\ Total(f, R) \in Nat /\ Total(f, S) <= Total(f, R)
  BY RainType, RainMonotone
<1>2. /\ Unit * Total(f, S) \in Nat /\ Unit * Total(f, R) \in Nat
      /\ Unit * Total(f, S) <= Unit * Total(f, R)
  BY <1>1, Multiples
<1> QED
  BY <1>2

LEMMA InitRow == Init => RunningRow
BY DEF Init, RunningRow

LEMMA QuietRow ==
    ASSUME RunningRow, UNCHANGED <<now, last, fell, rows>>, upset \subseteq upset',
           pc' \notin {"off", "recover"} => pc \notin {"off", "recover"}
    PROVE  RunningRow'
<1>1. /\ RowP1(Hour(now))' = RowP1(Hour(now)) /\ RainNow' = RainNow /\ Of(Hour(now))' = Of(Hour(now))
      /\ Hour(now)' = Hour(now) /\ Hour(last)' = Hour(last) /\ Slot(last)' = Slot(last)
  BY DEF RowP1, RainNow, Of
<1> QED
  BY <1>1 DEF RunningRow

LEMMA PassiveRow ==
    ASSUME RunningRow,
           FirstEvent \/ Pulse \/ CountP1 \/ CountPJ \/ CountPT \/ PollFirst \/ SameHour \/ NewHour
             \/ Sums \/ Warn \/ UNCHANGED vars
    PROVE  RunningRow'
<1>1. UNCHANGED <<now, fell, rows>>
  BY DEF FirstEvent, Pulse, CountP1, CountPJ, CountPT, PollFirst, SameHour, NewHour, Sums, Warn, NoWarn, WarnTime, WarnClear, WarnRead, vars
<1>2. last' = last
  BY DEF FirstEvent, Pulse, CountP1, CountPJ, CountPT, PollFirst, SameHour, NewHour, Sums, Warn, NoWarn, WarnTime, WarnClear, WarnRead, vars,
         data
<1>3. upset \subseteq upset'
  BY DEF FirstEvent, Pulse, CountP1, CountPJ, CountPT, PollFirst, SameHour, NewHour, Sums, Warn, NoWarn, WarnTime, WarnClear, WarnRead, vars,
         Upsets
<1>4. pc' \notin {"off", "recover"} => pc \notin {"off", "recover"}
  BY DEF FirstEvent, Pulse, CountP1, CountPJ, CountPT, PollFirst, SameHour, NewHour, Sums, Warn, NoWarn, WarnTime, WarnClear, WarnRead, vars,
         data
<1> QED
  BY <1>1, <1>2, <1>3, <1>4, QuietRow

\* A pulse falls after the last freeze.
LEMMA PulseRow == ASSUME BooksInv, SlotInv, Paced, RunningRow, CountDRP PROVE RunningRow'
<1>1. /\ fell' = [fell EXCEPT ![rt] = @ + 1] /\ rp = "DRP" /\ Upsets
      /\ UNCHANGED <<now, rows, last, pc, rt>>
  BY DEF CountDRP, data
<1>2. fell \in [Time -> Nat] /\ rt \in Time /\ rt \in Nat
  BY ClockFacts, RainAssumption DEF SlotInv, Clocks, Time
<1> DEFINE R == Of(Hour(now))
           B == {t \in R : t < last}
<1> SUFFICES ASSUME LateFreeze'
             PROVE  RowP1(Hour(now)) \in (Unit * Total(fell', B))..(Unit * Total(fell', R))
  BY <1>1 DEF RunningRow, LateFreeze, RowP1, RainNow, Of
<1>3. Hour(rt) = Hour(now) /\ Hour(now) \notin upset /\ LateFreeze
  BY <1>1 DEF LateFreeze, Upsets
<1>4. RowP1(Hour(now)) \in (Unit * Total(fell, B))..(Unit * Total(fell, R))
  BY <1>3 DEF RunningRow, LateFreeze, RainNow
<1>5. last <= rt
  BY <1>1, <1>3 DEF Paced, LateFreeze, On
<1>6. last \in Nat
  BY <1>3, RainAssumption DEF Paced, LateFreeze, On, Time
<1>7. R \subseteq Time /\ B \subseteq Time /\ rt \in R /\ rt \notin B
  BY <1>2, <1>3, <1>5, <1>6, OfHour DEF Of
<1> HIDE DEF R, B
<1>8. Total(fell, B) \in Nat /\ Total(fell, R) \in Nat
  BY <1>2, <1>7, RainType
<1>9. Total(fell', B) = Total(fell, B) + 0 /\ Total(fell', R) = Total(fell, R) + 1
  BY <1>1, <1>2, <1>7, RainOfPulse
<1>10. /\ Unit * Total(fell, B) \in Nat /\ Unit * Total(fell, R) \in Nat
       /\ Unit * (Total(fell, R) + 1) = Unit * Total(fell, R) + Unit /\ Unit \in Nat
  BY <1>8, Multiples
<1>11. Total(fell', B) = Total(fell, B) /\ Unit * Total(fell', R) = Unit * Total(fell, R) + Unit
  BY <1>8, <1>9, <1>10
<1> QED
  BY <1>4, <1>10, <1>11

LEMMA SaveRow ==
    ASSUME BooksInv, SlotInv, HourInv, Paced', devdata_save, UNCHANGED <<now, P1, fell, acc, rp, rt>>
    PROVE  RunningRow'
<1> DEFINE R == Of(Hour(now))
           B == {t \in R : t < last'}
<1> SUFFICES ASSUME LateFreeze'
             PROVE  RowP1(Hour(now))' \in (Unit * Total(fell, B))..(Unit * Total(fell, R))
  BY DEF RunningRow, LateFreeze, RainNow, Of
<1>1. acc = Hour(now) /\ Hour(now) \notin upset'
  BY DEF Paced, LateFreeze, Begun
<1>2. rp = "idle" /\ rows' = WithRow /\ upset \subseteq upset'
  BY <1>1 DEF devdata_save
<1>3. ~InP1 /\ RainNow \in Nat
  BY <1>2, RainNowType DEF InP1, Counting
<1>4. P1 = Unit * RainNow
  BY <1>1, <1>2, <1>3, Multiples DEF HourInv
<1>5. RowP1(Hour(now))' = Unit * Total(fell, R)
  BY <1>2, <1>4 DEF RowP1, WithRow, RainNow
<1>6. fell \in [Time -> Nat] /\ R \subseteq Time /\ B \subseteq R
  BY OfHour DEF SlotInv, Clocks
<1> QED
  BY <1>5, <1>6, ExactRow

LEMMA FreezeRow ==
    ASSUME BooksInv, SlotInv, HourInv, Paced', RunningRow, Freeze \/ Record
    PROVE  RunningRow'
<1>1. CASE Freeze
  <2>1. UNCHANGED <<now, P1, fell, acc, rp, rt>> /\ pc = "top"
    BY <1>1 DEF Freeze, devdata, rain
  <2>2. devdata_save \/ UNCHANGED <<last, rows, upset>>
    BY <1>1 DEF Freeze
  <2>3. CASE UNCHANGED <<last, rows, upset>>
    <3>1. upset \subseteq upset' /\ pc \notin {"off", "recover"}
      BY <2>1, <2>3
    <3> QED
      BY <2>1, <2>3, <3>1, QuietRow
  <2> QED
    BY <2>1, <2>2, <2>3, SaveRow
<1>2. CASE Record
  <2>1. UNCHANGED <<now, P1, fell, acc, rp, rt>> /\ devdata_save
    BY <1>2 DEF Record, devdata, rain
  <2> QED
    BY <2>1, SaveRow
<1> QED
  BY <1>1, <1>2

\* What is left of an hour when the process is off is all of it.
LEMMA OffRow ==
    ASSUME SlotInv, HourInv, Hour(now) \notin upset, pc \in {"off", "recover"}
    PROVE  RowP1(Hour(now)) = Unit * RainNow
<1>1. Restorable
  BY DEF SlotInv, Undisturbed
<1>2. CASE Hour(now) \in DOMAIN rows
  BY <1>2 DEF HourInv, RowP1
<1>3. CASE Hour(now) \notin DOMAIN rows
  <2>1. RainNow = 0
    BY <1>1, <1>3, DryRain DEF Restorable, RainNow
  <2> QED
    BY <1>3, <2>1, Multiples DEF RowP1
<1> QED
  BY <1>2, <1>3

LEMMA RecoverRow == ASSUME BooksInv, SlotInv, HourInv, Recover PROVE RunningRow'
<1>1. pc = "recover" /\ UNCHANGED <<now, rows, last, fell, upset>>
  BY DEF Recover
<1> DEFINE R == Of(Hour(now))
           B == {t \in R : t < last}
<1> SUFFICES ASSUME Hour(now) \notin upset
             PROVE  RowP1(Hour(now)) \in (Unit * Total(fell, B))..(Unit * Total(fell, R))
  BY <1>1 DEF RunningRow, RowP1, RainNow, Of
<1>2. RowP1(Hour(now)) = Unit * Total(fell, R)
  BY <1>1, OffRow DEF RainNow
<1>3. fell \in [Time -> Nat] /\ R \subseteq Time /\ B \subseteq R
  BY OfHour DEF SlotInv, Clocks
<1> QED
  BY <1>2, <1>3, ExactRow

LEMMA TickRow == ASSUME RunningRow, Tick PROVE RunningRow'
<1>1. (On => last = now) /\ UNCHANGED <<rows, last, fell, upset, pc>>
  BY DEF Tick, data
<1>2. CASE Hour(now') = Hour(now)
  <2>1. /\ RowP1(Hour(now))' = RowP1(Hour(now)) /\ RainNow' = RainNow
        /\ Of(Hour(now))' = Of(Hour(now)) /\ Hour(last)' = Hour(last) /\ Slot(last)' = Slot(last)
    BY <1>1, <1>2 DEF RowP1, RainNow, Of
  <2> QED
    BY <1>1, <1>2, <2>1 DEF RunningRow
<1>3. CASE Hour(now') # Hour(now)
  BY <1>1, <1>3 DEF RunningRow, On
<1> QED
  BY <1>2, <1>3

LEMMA NextRow ==
    ASSUME BooksInv, SlotInv, HourInv, Paced, RunningRow, [Next]_vars
    PROVE  RunningRow'
<1>1. CASE Exit \/ PowerLoss \/ Boot
  <2>1. pc' \in {"off", "recover"}
    BY <1>1 DEF Exit, PowerLoss, Boot, Gone
  <2> QED
    BY <2>1 DEF RunningRow
<1>2. Paced'
  BY NextPaced
<1> QED
  BY <1>1, <1>2, PassiveRow, PulseRow, FreezeRow, RecoverRow, TickRow
     DEF Next, RainThread, DataThread

-----------------------------------------------------------------------------
(* The rows of the hours that are over.                                      *)

\* Rain in another hour than those of S changes nothing about them.
LEMMA ElsewhereSound ==
    ASSUME NEW f \in [Time -> Nat], NEW j \in Time, NEW S, Hour(j) \notin S, NEW u, NEW w, u \subseteq w,
           NEW v, Sound(f, u, S, v)
    PROVE  Sound([f EXCEPT ![j] = @ + 1], w, S, v)
<1> DEFINE g == [f EXCEPT ![j] = @ + 1]
<1>1. /\ Early(S) \subseteq Time /\ SlotsOf(S) \subseteq Time /\ j \notin Early(S) /\ j \notin SlotsOf(S)
  BY DEF Early, SlotsOf
<1>2. Total(f, Early(S)) \in Nat /\ Total(f, SlotsOf(S)) \in Nat
  BY <1>1, RainType
<1>3. Total(g, Early(S)) = Total(f, Early(S)) + 0 /\ Total(g, SlotsOf(S)) = Total(f, SlotsOf(S)) + 0
  BY <1>1, RainOfPulse
<1> HIDE DEF g
<1>4. Total(g, Early(S)) = Total(f, Early(S)) /\ Total(g, SlotsOf(S)) = Total(f, SlotsOf(S))
  BY <1>2, <1>3
<1>5. S \cap w = {} => S \cap u = {}
  OBVIOUS
<1>6. Sound(g, w, S, v)
  BY <1>4, <1>5, Zenon DEF Sound
<1> QED
  BY <1>6 DEF g

LEMMA StillSound ==
    ASSUME NEW f, NEW u, NEW w, u \subseteq w, NEW S, NEW v, Sound(f, u, S, v)
    PROVE  Sound(f, w, S, v)
<1>1. S \cap w = {} => S \cap u = {}
  OBVIOUS
<1> QED
  BY <1>1, Zenon DEF Sound

LEMMA InitPast == Init => PastRows
<1> SUFFICES ASSUME Init, NEW h \in Hours, h < Hour(now) PROVE FALSE
  BY DEF PastRows
<1>1. Hour(now) = 0
  BY RainAssumption DEF Init, Hour
<1>2. h \in Nat
  BY HourOfTime, RainAssumption DEF Hours
<1> QED
  BY <1>1, <1>2

LEMMA QuietPast ==
    ASSUME PastRows, UNCHANGED <<now, fell>>, upset \subseteq upset', rows' = rows \/ rows' = WithRow
    PROVE  PastRows'
<1> SUFFICES ASSUME NEW h \in Hours, h < Hour(now) PROVE Sound(fell', upset', {h}, RowP1(h)')
  BY DEF PastRows
<1>1. Sound(fell, upset, {h}, RowP1(h))
  BY DEF PastRows
<1>2. h # Hour(now)
  <2>1. h \in Nat
    BY DEF Hours
  <2> QED
    BY <2>1
<1>3. RowP1(h)' = RowP1(h)
  BY <1>2 DEF RowP1, WithRow
<1> QED
  BY <1>1, <1>3, StillSound

LEMMA PulsePast == ASSUME BooksInv, SlotInv, PastRows, CountDRP PROVE PastRows'
<1>1. /\ fell' = [fell EXCEPT ![rt] = @ + 1] /\ Upsets /\ UNCHANGED <<now, rows>>
  BY DEF CountDRP
<1>2. fell \in [Time -> Nat] /\ rt \in Time
  BY ClockFacts, RainAssumption DEF SlotInv, Clocks, Time
<1> SUFFICES ASSUME NEW h \in Hours, h < Hour(now) PROVE Sound(fell', upset', {h}, RowP1(h))
  BY <1>1 DEF PastRows, RowP1
<1>3. Sound(fell, upset, {h}, RowP1(h))
  BY DEF PastRows
<1>4. h # Hour(now)
  <2>1. h \in Nat
    BY DEF Hours
  <2> QED
    BY <2>1
<1>5. CASE h = Hour(rt)
  <2>1. h \in upset'
    BY <1>1, <1>4, <1>5 DEF Upsets
  <2> QED
    BY <2>1 DEF Sound
<1>6. CASE h # Hour(rt)
  <2>1. Hour(rt) \notin {h} /\ upset \subseteq upset'
    BY <1>1, <1>6 DEF Upsets
  <2> QED
    BY <1>1, <1>2, <1>3, <2>1, ElsewhereSound
<1> QED
  BY <1>5, <1>6

\* The last freeze of an hour that ends was in its last slot, or the process was
\* off and its row holds all of it.
LEMMA TickPast ==
    ASSUME Slots > 1, BooksInv, SlotInv, HourInv, RunningRow, PastRows, Tick
    PROVE  PastRows'
<1>1. /\ now' = now + 1 /\ (On => last = now /\ pc # "recover")
      /\ UNCHANGED <<rows, fell, upset>>
  BY DEF Tick
<1>2. now \in Nat /\ now \in Time /\ Hour(now) \in Nat
  BY ClockFacts
<1> SUFFICES ASSUME NEW h \in Hours, h < Hour(now') PROVE Sound(fell, upset, {h}, RowP1(h))
  BY <1>1 DEF PastRows, RowP1
<1>3. h \in Nat
  BY DEF Hours
<1>4. CASE h < Hour(now)
  BY <1>4 DEF PastRows
<1>5. CASE ~(h < Hour(now))
  <2>1. Hour(now + 1) # Hour(now) /\ h = Hour(now)
    <3>1. Hour(now + 1) # Hour(now) => Hour(now + 1) = Hour(now) + 1
      BY <1>2, LastSlot
    <3> QED
      BY <1>1, <1>2, <1>3, <1>5, <3>1
  <2>2. Slot(now) = Slots - 1 /\ \A t \in Nat : Hour(t) = Hour(now) /\ Slot(t) # Slots - 1 => t < now
    BY <1>2, <2>1, LastSlot
  <2> DEFINE R == Of(Hour(now))
             B == {t \in R : t < now}
  <2>3. SlotsOf({h}) = R
    BY <2>1 DEF SlotsOf, Of
  <2>4. Early({h}) \subseteq B /\ B \subseteq R /\ R \subseteq Time
    <3> SUFFICES ASSUME NEW t \in Early({h}) PROVE t \in B
      BY OfHour
    <3>1. t \in Time /\ t \in Nat /\ Hour(t) = Hour(now) /\ Slot(t) # Slots - 1
      BY <2>1, HourOfTime DEF Early
    <3> QED
      BY <2>2, <3>1 DEF Of
  <2>5. fell \in [Time -> Nat]
    BY DEF SlotInv, Clocks
  <2> SUFFICES ASSUME Hour(now) \notin upset
               PROVE  RowP1(h) \in (Unit * Total(fell, Early({h})))..(Unit * Total(fell, R))
    BY <2>1, <2>3 DEF Sound
  <2>6. CASE On
    <3>1. last = now /\ pc \notin {"off", "recover"} /\ Slot(now) # 0
      BY <1>1, <2>2, <2>6, RainAssumption DEF On
    <3>2. RowP1(h) \in (Unit * Total(fell, B))..(Unit * Total(fell, R))
      BY <2>1, <3>1 DEF RunningRow, RainNow
    <3> HIDE DEF R, B
    <3>3. /\ Total(fell, Early({h})) \in Nat /\ Total(fell, B) \in Nat /\ Total(fell, R) \in Nat
          /\ Total(fell, Early({h})) <= Total(fell, B)
      <4>1. B \subseteq Time /\ Early({h}) \subseteq Time
        BY <2>4
      <4> QED
        BY <2>4, <2>5, <4>1, RainType, RainMonotone
    <3>4. /\ Unit * Total(fell, Early({h})) \in Nat /\ Unit * Total(fell, B) \in Nat
          /\ Unit * Total(fell, R) \in Nat
          /\ Unit * Total(fell, Early({h})) <= Unit * Total(fell, B)
      BY <3>3, Multiples
    <3> QED
      BY <3>2, <3>4
  <2>7. CASE ~On
    <3>1. RowP1(h) = Unit * Total(fell, R)
      BY <2>1, <2>7, OffRow DEF On, RainNow
    <3>2. Early({h}) \subseteq R
      BY <2>4
    <3> HIDE DEF R, B
    <3> QED
      BY <2>4, <2>5, <3>1, <3>2, ExactRow
  <2> QED
    BY <2>6, <2>7
<1> QED
  BY <1>4, <1>5

LEMMA NextPast ==
    ASSUME Slots > 1, BooksInv, SlotInv, HourInv, RunningRow, PastRows, [Next]_vars
    PROVE  PastRows'
<1>1. CASE ~(CountDRP \/ Tick)
  <2>1. UNCHANGED <<now, fell>>
    BY <1>1 DEF Next, RainThread, DataThread, vars, FirstEvent, Pulse, CountP1, CountPJ, CountPT,
           Freeze, PollFirst, SameHour, NewHour, Sums, Warn, NoWarn, WarnTime, WarnClear, WarnRead, Exit, Boot, Recover, PowerLoss, Record
  <2>2. upset \subseteq upset'
    BY <1>1 DEF Next, RainThread, DataThread, vars, FirstEvent, Pulse, CountP1, CountPJ, CountPT,
           Freeze, PollFirst, SameHour, NewHour, Sums, Warn, NoWarn, WarnTime, WarnClear, WarnRead, Exit, Boot, Recover, PowerLoss, Record,
           Upsets, devdata_save
  <2>3. rows' = rows \/ rows' = WithRow
    BY <1>1 DEF Next, RainThread, DataThread, vars, FirstEvent, Pulse, CountP1, CountPJ, CountPT,
           Freeze, PollFirst, SameHour, NewHour, Sums, Warn, NoWarn, WarnTime, WarnClear, WarnRead, Exit, Boot, Recover, PowerLoss, Record,
           devdata_save
  <2> QED
    BY <2>1, <2>2, <2>3, QuietPast
<1> QED
  BY <1>1, PulsePast, TickPast


-----------------------------------------------------------------------------
(* The rain of the day.                                                      *)

\* What rain_poll adds up: the rows of hours that are over.
LEMMA RowSums ==
    ASSUME TypeOK, SlotInv, PastRows, NEW from \in Int, NEW to \in Int, to <= Hour(now)
    PROVE  Sound(fell, upset, Earlier(from, to), P1_rain(from, to))
<1> DEFINE S == Earlier(from, to)
           p == [h \in DOMAIN rows |-> rows[h].p1]
           R == {h \in DOMAIN rows : from <= h /\ h < to}
           E == Early(S)
           A == SlotsOf(S)
<1>1. fell \in [Time -> Nat] /\ E \subseteq Time /\ A \subseteq Time
  BY DEF SlotInv, Clocks, Early, SlotsOf
<1>2. (\A t \in E : Hour(t) \in S) /\ (\A t \in A : Hour(t) \in S)
  BY DEF Early, SlotsOf
<1>3. /\ Total(ByHour(fell, E), S) = Unit * Total(fell, E)
      /\ Total(ByHour(fell, A), S) = Unit * Total(fell, A)
  <2> HIDE DEF S, E, A
  <2> QED
    BY <1>1, <1>2, SumByHour
<1> SUFFICES ASSUME S \cap upset = {}
             PROVE  P1_rain(from, to) \in (Unit * Total(fell, E))..(Unit * Total(fell, A))
  BY DEF Sound
<1>4. \A h \in DOMAIN rows : rows[h].p1 \in Nat /\ h \in Hours
  BY DEF TypeOK
<1>5. ASSUME NEW k \in Nat
      PROVE  /\ Part(ByHour(fell, E), S, k) \in Nat /\ Part(p, R, k) \in Nat
             /\ Part(ByHour(fell, A), S, k) \in Nat
             /\ Part(ByHour(fell, E), S, k) <= Part(p, R, k)
             /\ Part(p, R, k) <= Part(ByHour(fell, A), S, k)
  <2>1. CASE k \notin S
    <3>1. k \notin R
      BY <1>4, <2>1 DEF Earlier
    <3>2. Part(ByHour(fell, E), S, k) = 0 /\ Part(p, R, k) = 0 /\ Part(ByHour(fell, A), S, k) = 0
      BY <2>1, <3>1 DEF Part
    <3> QED
      BY <3>2
  <2>2. CASE k \in S
    <3>1. k \in Hours /\ from <= k /\ k < to /\ k < Hour(now) /\ k \notin upset
      <4>1. k \in Hours /\ from <= k /\ k < to /\ Hour(now) \in Nat
        BY <2>2, HourOfTime DEF Earlier, TypeOK
      <4> QED
        BY <2>2, <4>1
    <3>2. Sound(fell, upset, {k}, RowP1(k))
      BY <3>1 DEF PastRows
    <3>3. RowP1(k) \in (Unit * Total(fell, Early({k})))..(Unit * Total(fell, SlotsOf({k})))
      BY <3>1, <3>2 DEF Sound
    <3>4. Early({k}) = InHour(E, k) /\ SlotsOf({k}) = InHour(A, k)
      BY <2>2 DEF Early, SlotsOf, InHour
    <3>5. Part(p, R, k) = RowP1(k) /\ Part(p, R, k) \in Nat
      BY <1>4, <3>1 DEF Part, RowP1
    <3>6. /\ Part(ByHour(fell, E), S, k) = Unit * Total(fell, InHour(E, k))
          /\ Part(ByHour(fell, A), S, k) = Unit * Total(fell, InHour(A, k))
          /\ Part(ByHour(fell, E), S, k) \in Nat /\ Part(ByHour(fell, A), S, k) \in Nat
      <4> HIDE DEF E, A, S
      <4> QED
        BY <1>1, <2>2, ByHourType DEF Part
    <3> HIDE DEF E, A, S, p, R
    <3> QED
      BY <3>3, <3>4, <3>5, <3>6
  <2> QED
    BY <2>1, <2>2
<1> HIDE DEF E, A, S, p, R
<1>6. /\ SumTo(ByHour(fell, E), S)[MaxTime] <= SumTo(p, R)[MaxTime]
      /\ SumTo(p, R)[MaxTime] <= SumTo(ByHour(fell, A), S)[MaxTime]
      /\ SumTo(p, R)[MaxTime] \in Nat /\ SumTo(ByHour(fell, E), S)[MaxTime] \in Nat
      /\ SumTo(ByHour(fell, A), S)[MaxTime] \in Nat
  <2>1. MaxTime \in Nat
    BY RainAssumption
  <2>2. /\ SumTo(ByHour(fell, E), S)[MaxTime] <= SumTo(p, R)[MaxTime]
        /\ SumTo(p, R)[MaxTime] <= SumTo(ByHour(fell, A), S)[MaxTime]
    BY <1>5, <2>1, SumMonotone
  <2>3. /\ SumTo(p, R)[MaxTime] \in Nat /\ SumTo(ByHour(fell, E), S)[MaxTime] \in Nat
        /\ SumTo(ByHour(fell, A), S)[MaxTime] \in Nat
    BY <1>5, <2>1, SumType
  <2> QED
    BY <2>2, <2>3
<1>7. P1_rain(from, to) = SumTo(p, R)[MaxTime]
  BY DEF P1_rain, Total, p, R
<1> QED
  BY <1>3, <1>6, <1>7 DEF Total

\* The sums of init_currentRain and init_dayRain.
LEMMA DayRowSums ==
    ASSUME BooksInv, TypeOK, SlotInv, PastRows
    PROVE  /\ init_currentRain => Sound(fell, upset, Today, PJ')
           /\ init_dayRain => Sound(fell, upset, Before, PD')
<1> DEFINE D == GetRainDayStartTime(Hour(now))
<1>1. Hour(now) \in Int
  BY ClockFacts
<1>2. D \in Int /\ D <= Hour(now) /\ D - DayHours \in Int
      /\ GetRainDayStartTime(Hour(now) - DayHours) = D - DayHours
  BY <1>1, DayFacts, RainAssumption
<1>3. init_currentRain => PJ' = P1_rain(D, Hour(now))
  BY DEF init_currentRain
<1>4. init_dayRain => PD' = P1_rain(D - DayHours, D)
  BY <1>2 DEF init_dayRain
<1>5. Today = Earlier(D, Hour(now)) /\ Before = Earlier(D - DayHours, D)
  BY DEF Today, Before
<1> HIDE DEF D
<1>6. /\ Sound(fell, upset, Today, P1_rain(D, Hour(now)))
      /\ Sound(fell, upset, Before, P1_rain(D - DayHours, D))
  BY <1>1, <1>2, <1>5, RowSums
<1> QED
  BY <1>3, <1>4, <1>6

LEMMA NoRowSums ==
    ASSUME DOMAIN rows = {}, NEW from, NEW to
    PROVE  P1_rain(from, to) = 0
<1> DEFINE f == [h \in DOMAIN rows |-> rows[h].p1]
           S == {h \in DOMAIN rows : from <= h /\ h < to}
<1>1. \A h \in S : f[h] = 0
  OBVIOUS
<1> HIDE DEF f, S
<1>2. Total(f, S) = 0
  BY <1>1, NoRain
<1> QED
  BY <1>2 DEF P1_rain, f, S

LEMMA InitDaySums == Init => DaySums
<1> SUFFICES ASSUME Init PROVE DaySums
  OBVIOUS
<1>1. now = 0 /\ acc = None /\ DOMAIN rows = {}
  BY DEF Init
<1>2. Hour(now) # None
  BY <1>1, HourMonotone DEF None
<1> QED
  BY <1>1, <1>2 DEF DaySums

\* PJ without the rain of the running hour.
Rest == PJ - Unit * (RainNow + IF InPJ THEN 1 ELSE 0)

\* The steps that leave the sums, their rows and the rain alone.
LEMMA QuietDay ==
    ASSUME DaySums, UNCHANGED <<now, fell, rows, acc>>, upset \subseteq upset', saved' => saved,
           acc = Hour(now) /\ pc' # "sums" => pc # "sums" /\ Rest' = Rest /\ PD' = PD,
           pc' \in {"off", "recover"} => pc \in {"off", "recover"}
    PROVE  DaySums'
<1>1. Today' = Today /\ Before' = Before /\ RainNow' = RainNow /\ Hour(now)' = Hour(now)
  BY DEF Today, Before, RainNow, Of
<1> SUFFICES ASSUME Hour(now) \notin upset'
             PROVE  /\ acc = Hour(now) /\ pc' # "sums" =>
                         Sound(fell, upset', Today, Rest) /\ Sound(fell, upset', Before, PD)
                    /\ (saved' \/ pc' \in {"off", "recover"}) /\ Hour(now) \in DOMAIN rows =>
                         /\ Sound(fell, upset', Today, rows[Hour(now)].pj - Unit * RainNow)
                         /\ Sound(fell, upset', Before, rows[Hour(now)].pd)
  BY <1>1 DEF DaySums, Rest
<1>2. Hour(now) \notin upset
  OBVIOUS
<1>3. acc = Hour(now) /\ pc # "sums" => Sound(fell, upset, Today, Rest) /\ Sound(fell, upset, Before, PD)
  BY <1>2 DEF DaySums, Rest
<1>4. (saved \/ pc \in {"off", "recover"}) /\ Hour(now) \in DOMAIN rows =>
          /\ Sound(fell, upset, Today, rows[Hour(now)].pj - Unit * RainNow)
          /\ Sound(fell, upset, Before, rows[Hour(now)].pd)
  BY <1>2, Zenon DEF DaySums
<1>5. acc = Hour(now) /\ pc' # "sums" =>
         Sound(fell, upset', Today, Rest) /\ Sound(fell, upset', Before, PD)
  BY <1>3, StillSound
<1>6. (saved' \/ pc' \in {"off", "recover"}) /\ Hour(now) \in DOMAIN rows =>
         /\ Sound(fell, upset', Today, rows[Hour(now)].pj - Unit * RainNow)
         /\ Sound(fell, upset', Before, rows[Hour(now)].pd)
  <2>1. saved' \/ pc' \in {"off", "recover"} => saved \/ pc \in {"off", "recover"}
    BY Zenon
  <2> QED
    BY <1>4, <2>1, StillSound
<1> QED
  BY <1>5, <1>6, Zenon


LEMMA PassiveDay ==
    ASSUME BooksInv, SlotInv, DaySums,
           FirstEvent \/ Pulse \/ CountP1 \/ CountPT \/ PollFirst \/ SameHour \/ Warn \/ Boot
             \/ UNCHANGED vars
    PROVE  DaySums'
<1>1. UNCHANGED <<now, fell, rows, acc, PJ, PD>>
  BY DEF FirstEvent, Pulse, CountP1, CountPT, PollFirst, SameHour, Warn, NoWarn, WarnTime, WarnClear, WarnRead, Boot, vars, devdata
<1>2. upset \subseteq upset'
  BY DEF FirstEvent, Pulse, CountP1, CountPT, PollFirst, SameHour, Warn, NoWarn, WarnTime, WarnClear, WarnRead, Boot, vars, Upsets
<1>3. saved' => saved
  BY Zenon DEF FirstEvent, Pulse, CountP1, CountPT, PollFirst, SameHour, Warn, NoWarn, WarnTime, WarnClear, WarnRead, Boot, vars
<1>4. InPJ' = InPJ
  <2>1. UNCHANGED <<rp, rt>> \/ (rp # "DRP" /\ rp' # "DRP")
    BY DEF FirstEvent, Pulse, CountP1, CountPT, PollFirst, SameHour, Warn, NoWarn, WarnTime, WarnClear, WarnRead, Boot, vars, rain
  <2> QED
    BY <1>1, <2>1 DEF InPJ, Counting
<1>5. /\ pc' # "sums" => pc # "sums"
      /\ pc' \in {"off", "recover"} => pc \in {"off", "recover"}
  BY DEF FirstEvent, Pulse, CountP1, CountPT, PollFirst, SameHour, Warn, NoWarn, WarnTime, WarnClear, WarnRead, Boot, vars, data
<1>6. Rest' = Rest
  BY <1>1, <1>4 DEF Rest, RainNow, Of
<1> QED
  BY <1>1, <1>2, <1>3, <1>5, <1>6, QuietDay

\* A pulse is added to PJ.
LEMMA CountPJDay == ASSUME BooksInv, TypeOK, SlotInv, DaySums, CountPJ PROVE DaySums'
<1>1. /\ rp = "PJ" /\ rp' = "DRP" /\ PJ' = PJ + Unit /\ saved' = FALSE /\ Upsets
      /\ UNCHANGED <<now, fell, rows, acc, PD, pc, rt>>
  BY DEF CountPJ, data
<1>2. upset \subseteq upset'
  BY <1>1 DEF Upsets
<1>3. CASE Hour(now) \in upset'
  BY <1>1, <1>3 DEF DaySums
<1>4. CASE Hour(now) \notin upset'
  <2>1. Hour(rt) = Hour(now)
    BY <1>1, <1>4 DEF Upsets
  <2>2. ~InPJ /\ InPJ' /\ RainNow' = RainNow
    BY <1>1, <2>1 DEF InPJ, Counting, RainNow, Of
  <2>3. PJ \in Nat /\ RainNow \in Nat
    BY RainNowType DEF TypeOK
  <2>4. /\ Unit \in Nat /\ Unit * RainNow \in Nat /\ Unit * (RainNow + 0) = Unit * RainNow
        /\ Unit * (RainNow + 1) = Unit * RainNow + Unit
    BY <2>3, Multiples
  <2>5. (PJ + Unit) - Unit * (RainNow + 1) = PJ - Unit * (RainNow + 0)
    BY <2>3, <2>4
  <2>6. Rest' = Rest
    BY <1>1, <2>2, <2>5 DEF Rest
  <2> QED
    BY <1>1, <1>2, <2>6, QuietDay
<1> QED
  BY <1>3, <1>4

\* A pulse goes to the books, in an hour that is none of those that are over.
LEMMA CountDRPDay == ASSUME BooksInv, TypeOK, SlotInv, DaySums, CountDRP PROVE DaySums'
<1>1. /\ rp = "DRP" /\ rp' = "PT" /\ saved' = FALSE /\ Upsets
      /\ fell' = [fell EXCEPT ![rt] = @ + 1] /\ UNCHANGED <<now, rows, acc, PJ, PD, pc, rt>>
  BY DEF CountDRP, data
<1>2. upset \subseteq upset'
  BY <1>1 DEF Upsets
<1>3. Today' = Today /\ Before' = Before
  BY <1>1 DEF Today, Before
<1>4. pc # "off"
  BY <1>1, ClockFacts
<1> SUFFICES ASSUME Hour(now) \notin upset'
             PROVE  /\ pc # "recover"
                    /\ acc = Hour(now) /\ pc # "sums" =>
                         Sound(fell', upset', Today, Rest') /\ Sound(fell', upset', Before, PD)
  BY <1>1, <1>3, <1>4 DEF DaySums, Rest
<1>5. Hour(rt) = Hour(now) /\ pc # "recover" /\ Hour(now) \notin upset
  BY <1>1 DEF Upsets
<1>6. fell \in [Time -> Nat] /\ rt \in Time
  BY ClockFacts, RainAssumption DEF SlotInv, Clocks, Time
<1>7. InPJ /\ ~(InPJ')
  BY <1>1, <1>5 DEF InPJ, Counting
<1>8. RainNow \in Nat /\ RainNow' = RainNow + 1
  <2>1. rt \in Of(Hour(now)) /\ Of(Hour(now)) \subseteq Time
    BY <1>5, <1>6, OfHour DEF Of
  <2>2. Total(fell', Of(Hour(now))) = RainNow + 1
    BY <1>1, <1>6, <2>1, RainOfPulse DEF RainNow
  <2> QED
    BY <1>1, <2>2, RainNowType DEF RainNow, Of
<1>9. Rest' = Rest
  <2>1. Unit * ((RainNow + 1) + 0) = Unit * (RainNow + 1)
    BY <1>8, Multiples
  <2> QED
    BY <1>1, <1>7, <1>8, <2>1 DEF Rest
<1>10. Hour(rt) \notin Today /\ Hour(rt) \notin Before
  <2>1. Hour(now) \in Nat
    BY ClockFacts
  <2>2. GetRainDayStartTime(Hour(now)) \in Int /\ GetRainDayStartTime(Hour(now)) <= Hour(now)
    BY <2>1, DayFacts
  <2> QED
    BY <1>5, <2>1, <2>2 DEF Today, Before, Earlier
<1>11. acc = Hour(now) /\ pc # "sums" =>
          Sound(fell, upset, Today, Rest) /\ Sound(fell, upset, Before, PD)
  BY <1>5 DEF DaySums, Rest
<1>12. acc = Hour(now) /\ pc # "sums" =>
          Sound(fell', upset', Today, Rest) /\ Sound(fell', upset', Before, PD)
  BY <1>1, <1>2, <1>6, <1>10, <1>11, ElsewhereSound
<1> QED
  BY <1>5, <1>9, <1>12

LEMMA SaveDay ==
    ASSUME TypeOK, SlotInv, DaySums, devdata_save, UNCHANGED <<now, PJ, PD, fell, acc, rp, rt>>,
           pc' \notin {"off", "recover"}, pc' # "sums" => pc # "sums"
    PROVE  DaySums'
<1>1. /\ rows' = WithRow /\ upset \subseteq upset'
      /\ saved' => acc = Hour(now) /\ rp = "idle" /\ pc # "sums"
  BY DEF devdata_save
<1>2. /\ Today' = Today /\ Before' = Before /\ RainNow' = RainNow /\ InPJ' = InPJ
      /\ Hour(now)' = Hour(now)
  BY DEF Today, Before, RainNow, Of, InPJ, Counting
<1>3. rows'[Hour(now)].pj = PJ /\ rows'[Hour(now)].pd = PD
  BY <1>1 DEF WithRow
<1> SUFFICES ASSUME Hour(now) \notin upset'
             PROVE  /\ acc = Hour(now) /\ pc # "sums" =>
                         Sound(fell, upset', Today, Rest) /\ Sound(fell, upset', Before, PD)
                    /\ saved' => /\ Sound(fell, upset', Today, PJ - Unit * RainNow)
                                 /\ Sound(fell, upset', Before, PD)
  BY <1>2, <1>3 DEF DaySums, Rest
<1>4. acc = Hour(now) /\ pc # "sums" =>
         Sound(fell, upset, Today, Rest) /\ Sound(fell, upset, Before, PD)
  BY <1>1 DEF DaySums, Rest
<1>5. acc = Hour(now) /\ pc # "sums" =>
         Sound(fell, upset', Today, Rest) /\ Sound(fell, upset', Before, PD)
  BY <1>1, <1>4, StillSound
<1>6. rp = "idle" => Rest = PJ - Unit * RainNow
  <2>1. rp = "idle" => ~InPJ
    BY DEF InPJ, Counting
  <2>2. Unit * (RainNow + 0) = Unit * RainNow
    BY RainNowType, Multiples
  <2> QED
    BY <2>1, <2>2 DEF Rest
<1>7. ASSUME saved'
      PROVE  Sound(fell, upset', Today, PJ - Unit * RainNow) /\ Sound(fell, upset', Before, PD)
  <2>1. acc = Hour(now) /\ rp = "idle" /\ pc # "sums"
    BY <1>1, <1>7
  <2> QED
    BY <1>5, <1>6, <2>1
<1> QED
  BY <1>5, <1>7

LEMMA FreezeDay == ASSUME BooksInv, TypeOK, SlotInv, DaySums, Freeze \/ Record PROVE DaySums'
<1>1. CASE Freeze
  <2>1. UNCHANGED <<now, PJ, PD, fell, acc, rp, rt>> /\ pc = "top" /\ pc' = "poll"
    BY <1>1 DEF Freeze, devdata, rain
  <2>2. devdata_save \/ UNCHANGED <<rows, saved, upset>>
    BY <1>1 DEF Freeze
  <2>3. CASE UNCHANGED <<rows, saved, upset>>
    <3>1. Rest' = Rest /\ upset \subseteq upset' /\ (saved' => saved)
      BY <2>1, <2>3 DEF Rest, RainNow, Of, InPJ, Counting
    <3> QED
      BY <2>1, <2>3, <3>1, QuietDay
  <2> QED
    BY <2>1, <2>2, <2>3, SaveDay
<1>2. CASE Record
  <2>1. pc # "recover"
    BY <1>2 DEF Record, BooksInv, Running
  <2>2. UNCHANGED <<now, PJ, PD, fell, acc, rp, rt, pc>> /\ pc # "off" /\ devdata_save
    BY <1>2 DEF Record, devdata, data, rain, On
  <2> QED
    BY <2>1, <2>2, SaveDay
<1> QED
  BY <1>1, <1>2

LEMMA NewHourDay == ASSUME DaySums, NewHour PROVE DaySums'
<1>1. pc' = "sums" /\ saved' = FALSE
  BY DEF NewHour
<1> QED
  BY <1>1 DEF DaySums

\* rain_poll adds up the rows before a pulse of the new hour is counted.
LEMMA SumsDay ==
    ASSUME BooksInv, TypeOK, SlotInv, HourInv, Paced, PastRows, DaySums, Sums
    PROVE  DaySums'
<1>1. /\ pc = "sums" /\ pc' = "warn" /\ init_currentRain /\ init_dayRain
      /\ UNCHANGED <<now, fell, rows, acc, upset, rp, rt>>
  BY DEF Sums, rain
<1>2. saved' = saved
  BY DEF Sums
<1>3. Today' = Today /\ Before' = Before /\ RainNow' = RainNow /\ InPJ' = InPJ
  BY <1>1 DEF Today, Before, RainNow, Of, InPJ, Counting
<1>4. Sound(fell, upset, Today, PJ') /\ Sound(fell, upset, Before, PD')
  BY <1>1, DayRowSums
<1> SUFFICES ASSUME Hour(now) \notin upset, acc = Hour(now)
             PROVE  PJ' - Unit * (RainNow + IF InPJ THEN 1 ELSE 0) = PJ'
  BY <1>1, <1>2, <1>3, <1>4 DEF DaySums
<1>5. ~InP1 /\ Dry(Hour(now))
  BY <1>1 DEF HourInv, Paced
<1>6. ~InPJ /\ RainNow = 0
  BY <1>5, DryRain DEF InP1, InPJ, Counting, RainNow
<1>7. PJ' \in Nat
  BY <1>1, SumsType DEF init_currentRain
<1>8. Unit * (0 + 0) = 0
  BY RainAssumption
<1> QED
  BY <1>6, <1>7, <1>8

LEMMA StopDay == ASSUME BooksInv, TypeOK, SlotInv, DaySums, Exit \/ PowerLoss PROVE DaySums'
<1>1. acc' = None /\ UNCHANGED <<now, fell>>
  BY DEF Exit, PowerLoss, Gone
<1>2. None # Hour(now)
  BY ClockFacts DEF None
<1>3. Today' = Today /\ Before' = Before /\ RainNow' = RainNow
  BY <1>1 DEF Today, Before, RainNow, Of
<1> SUFFICES ASSUME Hour(now) \notin upset', Hour(now) \in DOMAIN rows'
             PROVE  /\ Sound(fell, upset', Today, rows'[Hour(now)].pj - Unit * RainNow)
                    /\ Sound(fell, upset', Before, rows'[Hour(now)].pd)
  BY <1>1, <1>2, <1>3 DEF DaySums
<1>4. CASE Exit
  <2>1. rows' = WithRow /\ acc = Hour(now) /\ upset' = upset /\ rp = "idle" /\ pc = "top"
    BY <1>4 DEF Exit
  <2>2. rows'[Hour(now)].pj = PJ /\ rows'[Hour(now)].pd = PD
    BY <2>1 DEF WithRow
  <2>3. ~InPJ /\ Unit * (RainNow + 0) = Unit * RainNow
    BY <2>1, RainNowType, Multiples DEF InPJ, Counting
  <2> QED
    BY <2>1, <2>2, <2>3 DEF DaySums
<1>5. CASE PowerLoss
  <2>1. rows' = rows /\ saved /\ upset' = upset
    BY <1>5 DEF PowerLoss
  <2> QED
    BY <2>1 DEF DaySums
<1> QED
  BY <1>4, <1>5

LEMMA RecoverDay ==
    ASSUME BooksInv, TypeOK, SlotInv, HourInv, PastRows, DaySums, Recover
    PROVE  DaySums'
<1>1. /\ pc = "recover" /\ pc' = "top" /\ acc' = Hour(now) /\ saved' = FALSE
      /\ UNCHANGED <<now, rows, fell, rp, rt, upset>>
  BY DEF Recover, rain
<1>2. Today' = Today /\ Before' = Before /\ RainNow' = RainNow /\ InPJ' = InPJ
  BY <1>1 DEF Today, Before, RainNow, Of, InPJ, Counting
<1> SUFFICES ASSUME Hour(now) \notin upset
             PROVE  /\ Sound(fell, upset, Today, PJ' - Unit * (RainNow + IF InPJ THEN 1 ELSE 0))
                    /\ Sound(fell, upset, Before, PD')
  BY <1>1, <1>2 DEF DaySums
<1>3. ~InP1 /\ PJ = 0 /\ PD = 0 /\ RainNow \in Nat
  BY <1>1, RainNowType DEF HourInv
<1>4. ~InPJ
  BY <1>3 DEF InP1, InPJ, Counting
<1>5. Unit * (RainNow + 0) = Unit * RainNow
  BY <1>3, Multiples
<1>6. Restorable
  BY <1>1 DEF SlotInv, Undisturbed
<1>7. CASE Hour(now) \in DOMAIN rows
  <2>1. PJ' = rows[Hour(now)].pj /\ PD' = rows[Hour(now)].pd
    BY <1>7, RecoverFinds
  <2> QED
    BY <1>1, <1>4, <1>5, <1>7, <2>1 DEF DaySums
<1>8. CASE Hour(now) \notin DOMAIN rows
  <2>1. RainNow = 0
    BY <1>6, <1>8, DryRain DEF Restorable, RainNow
  <2>2. init_currentRain /\ init_dayRain
    <3>1. CASE DOMAIN rows = {}
      <4>1. PJ' = 0 /\ PD' = 0
        BY <1>3, <1>8, <3>1, RecoverFinds
      <4> QED
        BY <3>1, <4>1, NoRowSums DEF init_currentRain, init_dayRain
    <3>2. CASE DOMAIN rows # {}
      BY <1>8, <3>2, RecoverFinds
    <3> QED
      BY <3>1, <3>2
  <2>3. Sound(fell, upset, Today, PJ') /\ Sound(fell, upset, Before, PD') /\ PJ' \in Nat
    BY <2>2, DayRowSums, SumsType DEF init_currentRain
  <2>4. Unit * (RainNow + 0) = 0
    BY <1>5, <2>1, Multiples
  <2>5. PJ' - Unit * (RainNow + 0) = PJ'
    BY <2>3, <2>4
  <2> QED
    BY <1>4, <2>3, <2>5
<1> QED
  BY <1>7, <1>8

LEMMA TickDay == ASSUME BooksInv, SlotInv, DaySums, Tick PROVE DaySums'
<1>1. /\ now' = now + 1 /\ UNCHANGED <<PJ, PD, fell, rows, acc, rp, rt, upset, pc>>
  BY DEF Tick, devdata, data, rain
<1>2. saved' = saved
  BY DEF Tick
<1>3. now \in Nat /\ Hour(now) \in Nat /\ DOMAIN rows \subseteq 0..Hour(now)
  BY ClockFacts
<1>4. now' \in Nat /\ Hour(now') \in Nat /\ Hour(now) <= Hour(now')
  BY <1>1, <1>3, HourMonotone
<1>5. CASE Hour(now') = Hour(now)
  <2>1. Today' = Today /\ Before' = Before /\ RainNow' = RainNow /\ InPJ' = InPJ
    BY <1>1, <1>5 DEF Today, Before, RainNow, Of, InPJ, Counting
  <2> QED
    BY <1>1, <1>2, <1>5, <2>1 DEF DaySums
<1>6. CASE Hour(now') # Hour(now)
  <2>1. acc # Hour(now') /\ Hour(now') \notin DOMAIN rows
    BY <1>3, <1>4, <1>6 DEF SlotInv, Clocks, None
  <2> QED
    BY <1>1, <2>1 DEF DaySums
<1> QED
  BY <1>5, <1>6

LEMMA NextDay ==
    ASSUME BooksInv, TypeOK, SlotInv, HourInv, Paced, PastRows, DaySums, [Next]_vars
    PROVE  DaySums'
BY PassiveDay, CountPJDay, CountDRPDay, FreezeDay, NewHourDay, SumsDay, StopDay, RecoverDay, TickDay
   DEF Next, RainThread, DataThread


\* The rain of the day is that of the hours before and that of the running one.
LEMMA DayParts ==
    ASSUME NEW f \in [Time -> Nat], NEW S, NEW h, h \notin S
    PROVE  /\ Total(f, SlotsOf(S \cup {h})) = Total(f, SlotsOf(S)) + Total(f, Of(h))
           /\ Total(f, SlotsOf(S)) = Total(f, Early(S))
                                       + Total(f, {t \in Time : Hour(t) \in S /\ Slot(t) = Slots - 1})
           /\ Total(f, SlotsOf(S)) \in Nat /\ Total(f, Early(S)) \in Nat /\ Total(f, Of(h)) \in Nat
           /\ Total(f, {t \in Time : Hour(t) \in S /\ Slot(t) = Slots - 1}) \in Nat
<1> DEFINE A == SlotsOf(S)
           E == Early(S)
           L == {t \in Time : Hour(t) \in S /\ Slot(t) = Slots - 1}
           H == Of(h)
<1>1. SlotsOf(S \cup {h}) = A \cup H /\ A = E \cup L
  BY DEF SlotsOf, Early, Of
<1>2. A \subseteq Time /\ E \subseteq Time /\ L \subseteq Time /\ H \subseteq Time
      /\ A \cap H = {} /\ E \cap L = {}
  BY DEF SlotsOf, Early, Of
<1> HIDE DEF A, E, L, H
<1>3. Total(f, A \cup H) = Total(f, A) + Total(f, H) /\ Total(f, E \cup L) = Total(f, E) + Total(f, L)
  BY <1>2, RainUnion
<1>4. Total(f, A) \in Nat /\ Total(f, E) \in Nat /\ Total(f, L) \in Nat /\ Total(f, H) \in Nat
  BY <1>2, RainType
<1> QED
  BY <1>1, <1>3, <1>4, Zenon DEF A, E, L, H

\* Where the hours of DayRain are those of the sums.
LEMMA DaysAre ==
    ASSUME BooksInv
    PROVE  /\ {k \in DayOf(Hour(now)) : k <= Hour(now)} = Today \cup {Hour(now)}
           /\ (Today \cup {Hour(now)}) \ {Hour(now)} = Today /\ Hour(now) \notin Today
           /\ {k \in Hours : GetRainDayStartTime(k) = GetRainDayStartTime(Hour(now)) - DayHours} = Before
<1> DEFINE h == Hour(now)
           D == GetRainDayStartTime(h)
<1>1. h \in Nat /\ h \in Hours /\ h \in Int
  BY ClockFacts, HourOfTime
<1>2. Hours \subseteq Int /\ DayHours \in Nat
  BY RainAssumption DEF Hours
<1>3. D \in Int /\ D <= h /\ h < D + DayHours
      /\ \A k \in Int : GetRainDayStartTime(k) = D <=> D <= k /\ k < D + DayHours
  BY <1>1, DayFacts
<1>4. \A k \in Int : GetRainDayStartTime(k) = D - DayHours <=> D - DayHours <= k /\ k < D
  <2>1. h - DayHours \in Int /\ GetRainDayStartTime(h - DayHours) = D - DayHours
    BY <1>1, <1>2, DayFacts
  <2>2. \A k \in Int : GetRainDayStartTime(k) = GetRainDayStartTime(h - DayHours) <=>
              GetRainDayStartTime(h - DayHours) <= k
                /\ k < GetRainDayStartTime(h - DayHours) + DayHours
    BY <2>1, DayFacts
  <2>3. (D - DayHours) + DayHours = D
    BY <1>2, <1>3
  <2> QED
    BY <2>1, <2>2, <2>3
<1>5. Today = {k \in Hours : D <= k /\ k < h} /\ Before = {k \in Hours : D - DayHours <= k /\ k < D}
  BY DEF Today, Before, Earlier
<1>6. DayOf(h) = {k \in Hours : GetRainDayStartTime(k) = D}
  BY DEF DayOf
<1> HIDE DEF h, D
<1>7. {k \in DayOf(h) : k <= h} = Today \cup {h}
  <2>1. ASSUME NEW k \in DayOf(h), k <= h PROVE k \in Today \cup {h}
    <3>1. k \in Hours /\ k \in Int /\ GetRainDayStartTime(k) = D
      BY <1>2, <1>6, <2>1
    <3>2. D <= k
      BY <1>3, <3>1
    <3>3. k < h \/ k = h
      BY <1>1, <2>1, <3>1
    <3>4. CASE k < h
      BY <1>5, <3>1, <3>2, <3>4
    <3> QED
      BY <3>3, <3>4
  <2>2. ASSUME NEW k \in Today \cup {h} PROVE k \in DayOf(h) /\ k <= h
    <3>1. k \in Hours /\ k \in Int /\ D <= k /\ k <= h
      BY <1>1, <1>2, <1>3, <1>5
    <3>2. k < D + DayHours
      BY <1>1, <1>2, <1>3, <3>1
    <3> QED
      BY <1>3, <1>6, <3>1, <3>2
  <2> QED
    BY <2>1, <2>2
<1>8. h \notin Today
  BY <1>1, <1>5
<1>9. {k \in Hours : GetRainDayStartTime(k) = D - DayHours} = Before
  BY <1>2, <1>4, <1>5
<1> QED
  BY <1>7, <1>8, <1>9 DEF h, D

\* PJ is the rain of the day so far and PD that of the day before, short at most of
\* the last slot of each hour that is over and with nothing in either twice:
\* through freezes that still hold the hour before, hourly reports, stops and
\* restarts, on every day of which no hour was upset.  An hour has more than one
\* slot: its first freeze comes before rain_poll has emptied P1.
THEOREM DaysExact == ASSUME Slots > 1 PROVE Spec => []DayRain
<1>1. ASSUME BooksInv, SlotInv, HourInv, DayInv, TypeOK PROVE DayRain
  <2> SUFFICES ASSUME Settled, pc # "sums"
               PROVE  /\ (Today \cup {Hour(now)}) \cap upset = {} =>
                           PJ \in (Fallen(Today \cup {Hour(now)}) - FallenLate(Today))
                                    ..Fallen(Today \cup {Hour(now)})
                      /\ Before \cap upset = {} =>
                           PD \in (Fallen(Before) - FallenLate(Before))..Fallen(Before)
    BY <1>1, DaysAre, Zenon DEF DayRain
  <2>1. acc = Hour(now) /\ Hour(now) \notin upset /\ rp = "idle" /\ fell \in [Time -> Nat]
    BY <1>1 DEF Settled, Working, SlotInv, Clocks
  <2>2. ~InPJ /\ RainNow \in Nat /\ Unit * (RainNow + 0) = Unit * RainNow
    BY <1>1, <2>1, RainNowType, Multiples DEF InPJ, Counting
  <2>3. Sound(fell, upset, Today, PJ - Unit * RainNow) /\ Sound(fell, upset, Before, PD)
    BY <1>1, <2>1, <2>2 DEF DayInv, DaySums
  <2>4. \A S : /\ Fallen(S) = Unit * Total(fell, SlotsOf(S))
               /\ FallenLate(S) = Unit * Total(fell, {t \in Time : Hour(t) \in S
                                                                      /\ Slot(t) = Slots - 1})
    BY DEF Fallen, FallenLate, SlotsOf
  <2>5. ASSUME NEW S, NEW h, h \notin S
        PROVE  /\ Fallen(S) = Unit * Total(fell, Early(S)) + FallenLate(S)
               /\ Fallen(S \cup {h}) = Fallen(S) + Unit * Total(fell, Of(h))
               /\ FallenLate(S) \in Nat /\ Unit * Total(fell, Early(S)) \in Nat
               /\ Fallen(S) \in Nat /\ Unit * Total(fell, Of(h)) \in Nat
    <3> DEFINE L == {t \in Time : Hour(t) \in S /\ Slot(t) = Slots - 1}
    <3>1. /\ Total(fell, SlotsOf(S \cup {h})) = Total(fell, SlotsOf(S)) + Total(fell, Of(h))
          /\ Total(fell, SlotsOf(S)) = Total(fell, Early(S)) + Total(fell, L)
          /\ Total(fell, SlotsOf(S)) \in Nat /\ Total(fell, Early(S)) \in Nat
          /\ Total(fell, Of(h)) \in Nat /\ Total(fell, L) \in Nat
      BY <2>1, <2>5, DayParts
    <3>2. FallenLate(S) = Unit * Total(fell, L)
      BY <2>4
    <3> HIDE DEF L
    <3> QED
      <4> DEFINE x == Total(fell, SlotsOf(S))
                 y == Total(fell, Early(S))
                 z == Total(fell, L)
                 w == Total(fell, Of(h))
      <4>1. x \in Nat /\ y \in Nat /\ z \in Nat /\ w \in Nat /\ x = y + z
            /\ Total(fell, SlotsOf(S \cup {h})) = x + w
        BY <3>1
      <4>2. Fallen(S) = Unit * x /\ Fallen(S \cup {h}) = Unit * (x + w) /\ FallenLate(S) = Unit * z
        BY <2>4, <3>2, <4>1
      <4> HIDE DEF x, y, z, w
      <4>3. /\ Unit * (x + w) = Unit * x + Unit * w /\ Unit * (y + z) = Unit * y + Unit * z
            /\ Unit * x \in Nat /\ Unit * y \in Nat /\ Unit * z \in Nat /\ Unit * w \in Nat
        BY <4>1, Multiples
      <4> QED
        BY <4>1, <4>2, <4>3, Zenon DEF x, y, z, w
  <2>6. ASSUME (Today \cup {Hour(now)}) \cap upset = {}
        PROVE  PJ \in (Fallen(Today \cup {Hour(now)}) - FallenLate(Today))
                        ..Fallen(Today \cup {Hour(now)})
    <3>1. PJ - Unit * RainNow \in (Unit * Total(fell, Early(Today)))..Fallen(Today)
      <4>1. Today \cap upset = {}
        BY <2>6
      <4> QED
        BY <2>3, <2>4, <4>1 DEF Sound
    <3>2. Hour(now) \notin Today
      BY <1>1, DaysAre
    <3>3. /\ Fallen(Today) = Unit * Total(fell, Early(Today)) + FallenLate(Today)
          /\ Fallen(Today \cup {Hour(now)}) = Fallen(Today) + Unit * RainNow
          /\ FallenLate(Today) \in Nat /\ Unit * Total(fell, Early(Today)) \in Nat
          /\ Fallen(Today) \in Nat /\ Unit * RainNow \in Nat
      BY <2>5, <3>2 DEF RainNow
    <3>4. PJ \in Nat
      BY <1>1 DEF TypeOK
    <3>5. \A a, b, c, d, x \in Nat :
              b = a + c /\ x - d \in a..b => x \in ((b + d) - c)..(b + d)
      OBVIOUS
    <3> QED
      BY <3>1, <3>3, <3>4, <3>5
  <2>7. ASSUME Before \cap upset = {}
        PROVE  PD \in (Fallen(Before) - FallenLate(Before))..Fallen(Before)
    <3>1. PD \in (Unit * Total(fell, Early(Before)))..Fallen(Before)
      BY <2>3, <2>4, <2>7 DEF Sound
    <3>2. None \notin Before
      BY HourOfTime DEF Before, Earlier, Hours, None
    <3>3. /\ Fallen(Before) = Unit * Total(fell, Early(Before)) + FallenLate(Before)
          /\ FallenLate(Before) \in Nat /\ Unit * Total(fell, Early(Before)) \in Nat
          /\ Fallen(Before) \in Nat
      BY <2>5, <3>2
    <3> QED
      BY <3>1, <3>3
  <2> QED
    BY <2>6, <2>7
<1>2. Init => DayInv
  BY InitPaced, InitRow, InitPast, InitDaySums DEF DayInv
<1>3. BooksInv /\ SlotInv /\ HourInv /\ DayInv /\ TypeOK /\ [Next]_vars => DayInv'
  BY NextPaced, NextRow, NextPast, NextDay DEF DayInv
<1> QED
  BY <1>1, <1>2, <1>3, InitBooks, NextBooks, InitSlots, NextSlots, InitHour, NextHour, InitType,
     NextType, PTL DEF Spec
=============================================================================

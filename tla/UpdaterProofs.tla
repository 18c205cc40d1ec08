--------------------------- MODULE UpdaterProofs ---------------------------
(* TLAPS proofs about Updater: the types, the descriptors that are left      *)
(* open, and the versions that are installed.                               *)
EXTENDS Updater, WellFoundedInduction, TLAPS

-----------------------------------------------------------------------------
(* What Or computes.  Its definition is recursive: that the equation has a   *)
(* solution is shown with the least number for which it would have none.     *)

\* Every set of numbers has a least element.
LEMMA LeastNumber ==
    ASSUME NEW T, T \subseteq Nat, T # {}
    PROVE  \E x \in T : \A y \in T : x <= y
<1>1. IsWellFoundedOn(OpToRel(<, Nat), Nat)
  BY NatLessThanWellFounded
<1>2. \E x \in T : \A y \in T : ~(<<y, x>> \in OpToRel(<, Nat))
  BY <1>1, WFMin, Zenon
<1>3. \A x, y \in T : <<y, x>> \in OpToRel(<, Nat) <=> y < x
  BY DEF OpToRel
<1>4. \A x, y \in T : ~(y < x) => x <= y
  OBVIOUS
<1> QED
  BY <1>2, <1>3, <1>4, Zenon

LEMMA Halves == \A y \in Nat : y # 0 => y \div 2 \in 0..(y - 1)
OBVIOUS

\* One bit more makes a number of every number.
LEMMA OrBitType ==
    ASSUME NEW y \in Nat, NEW g \in [Nat -> Nat]
    PROVE  OrBit(y, g) \in [Nat -> Nat]
BY DEF OrBit

\* g or-s the numbers up to n.
OrTo(g, n) ==
    /\ g \in [0..n -> [Nat -> Nat]]
    /\ \A y \in 0..n : g[y] = IF y = 0 THEN [x \in Nat |-> x] ELSE OrBit(y, g[y \div 2])

LEMMA OrExists == \A n \in Nat : \E g : OrTo(g, n)
<1> DEFINE Bad == {n \in Nat : ~\E g : OrTo(g, n)}
           Id == [x \in Nat |-> x]
<1> SUFFICES ASSUME Bad # {} PROVE FALSE
  OBVIOUS
<1>0. Id \in [Nat -> Nat]
  OBVIOUS
<1>1. PICK n \in Bad : \A y \in Bad : n <= y
  BY LeastNumber, Zenon
<1>2. n \in Nat /\ ~\E g : OrTo(g, n)
  OBVIOUS
<1>3. CASE n = 0
  <2>1. OrTo([y \in 0..n |-> Id], n)
    BY <1>0, <1>3 DEF OrTo
  <2> QED
    BY <1>2, <2>1
<1>4. CASE n # 0
  <2>1. n - 1 \in Nat /\ n - 1 \notin Bad
    BY <1>1, <1>2, <1>4
  <2>2. PICK g : OrTo(g, n - 1)
    BY <2>1
  <2> DEFINE h == [y \in 0..n |-> IF y < n THEN g[y] ELSE OrBit(n, g[n \div 2])]
  <2>3. ASSUME NEW y \in 0..(n - 1) PROVE g[y] \in [Nat -> Nat] /\ h[y] = g[y]
    <3>1. g \in [0..(n - 1) -> [Nat -> Nat]]
      BY <2>2 DEF OrTo
    <3>2. g[y] \in [Nat -> Nat]
      BY <3>1, Zenon
    <3>3. y \in 0..n /\ y < n
      BY <1>2
    <3> QED
      BY <3>2, <3>3
  <2>4. n \div 2 \in 0..(n - 1)
    BY <1>2, <1>4, Halves
  <2>5. n \in 0..n /\ h[n] = OrBit(n, h[n \div 2]) /\ h[n] \in [Nat -> Nat]
    <3>1. n \in 0..n /\ ~(n < n)
      BY <1>2
    <3>2. h[n] = OrBit(n, g[n \div 2])
      BY <3>1, Zenon
    <3>3. h[n \div 2] = g[n \div 2] /\ g[n \div 2] \in [Nat -> Nat]
      BY <2>3, <2>4, Zenon
    <3> HIDE DEF h
    <3> QED
      BY <1>2, <3>1, <3>2, <3>3, OrBitType, Zenon
  <2>6. \A y \in 0..n : y \in 0..(n - 1) \/ y = n
    BY <1>2
  <2>7. h \in [0..n -> [Nat -> Nat]]
    BY <2>3, <2>5, <2>6
  <2>8. ASSUME NEW y \in 0..n
        PROVE  h[y] = IF y = 0 THEN Id ELSE OrBit(y, h[y \div 2])
    <3>1. CASE y \in 0..(n - 1)
      <4>1. y # 0 => y \div 2 \in 0..(n - 1)
        BY <1>2, <3>1, Halves
      <4>2. g[y] = IF y = 0 THEN Id ELSE OrBit(y, g[y \div 2])
        BY <2>2, <3>1 DEF OrTo
      <4> HIDE DEF h, Id
      <4> QED
        BY <2>3, <3>1, <4>1, <4>2
    <3>2. CASE y = n
      <4> HIDE DEF h, Id
      <4> QED
        BY <1>4, <2>5, <3>2
    <3> QED
      BY <2>6, <3>1, <3>2
  <2>9. OrTo(h, n)
    <3> HIDE DEF h
    <3> QED
      BY <2>7, <2>8, Zenon DEF OrTo
  <2> QED
    BY <1>2, <2>9
<1> QED
  BY <1>3, <1>4

LEMMA OrUnique ==
    \A n, k \in Nat : \A g, h : OrTo(g, n) /\ OrTo(h, k) =>
        \A j \in Nat : j <= n /\ j <= k => g[j] = h[j]
<1> SUFFICES ASSUME NEW n \in Nat, NEW k \in Nat, NEW g, NEW h, OrTo(g, n), OrTo(h, k)
             PROVE  \A j \in Nat : j <= n /\ j <= k => g[j] = h[j]
  OBVIOUS
<1> DEFINE Bad == {j \in Nat : j <= n /\ j <= k /\ g[j] # h[j]}
<1> SUFFICES ASSUME Bad # {} PROVE FALSE
  OBVIOUS
<1>1. PICK j \in Bad : \A y \in Bad : j <= y
  BY LeastNumber, Zenon
<1>2. j # 0 => g[j \div 2] = h[j \div 2]
  BY <1>1, Halves
<1>3. j \in 0..n /\ j \in 0..k /\ g[j] # h[j]
  OBVIOUS
<1>4. /\ g[j] = IF j = 0 THEN [x \in Nat |-> x] ELSE OrBit(j, g[j \div 2])
      /\ h[j] = IF j = 0 THEN [x \in Nat |-> x] ELSE OrBit(j, h[j \div 2])
  BY <1>3, Zenon DEF OrTo
<1> QED
  BY <1>2, <1>3, <1>4, Zenon

\* The equation that defines Or has a solution.
LEMMA OrUnfolds ==
    \A y \in Nat : Or[y] = IF y = 0 THEN [x \in Nat |-> x] ELSE OrBit(y, Or[y \div 2])
<1> DEFINE A(n) == CHOOSE g : OrTo(g, n)
           F == [n \in Nat |-> A(n)[n]]
           Id == [x \in Nat |-> x]
<1>1. \A n \in Nat : OrTo(A(n), n)
  BY OrExists, Zenon
<1> HIDE DEF A
<1>2. ASSUME NEW n \in Nat PROVE F[n] = IF n = 0 THEN Id ELSE OrBit(n, F[n \div 2])
  <2>1. /\ OrTo(A(n), n)
        /\ n # 0 => /\ OrTo(A(n \div 2), n \div 2)
                    /\ n \div 2 \in Nat /\ n \div 2 <= n
    BY <1>1, Halves
  <2>2. n # 0 => A(n)[n \div 2] = A(n \div 2)[n \div 2]
    BY <2>1, OrUnique
  <2>3. A(n)[n] = IF n = 0 THEN Id ELSE OrBit(n, A(n)[n \div 2])
    BY <2>1 DEF OrTo
  <2>4. F[n] = A(n)[n] /\ (n # 0 => F[n \div 2] = A(n \div 2)[n \div 2])
    BY <2>1
  <2> HIDE DEF F, Id
  <2> QED
    BY <2>2, <2>3, <2>4
<1> HIDE DEF F
<1>3. F = [n \in Nat |-> IF n = 0 THEN Id ELSE OrBit(n, F[n \div 2])]
  <2> HIDE DEF Id
  <2> QED
    BY <1>2 DEF F
<1>4. \E f : f = [n \in Nat |-> IF n = 0 THEN Id ELSE OrBit(n, f[n \div 2])]
  BY <1>3
<1>5. Or = [n \in Nat |-> IF n = 0 THEN Id ELSE OrBit(n, Or[n \div 2])]
  BY <1>4, Zenon DEF Or
<1> QED
  BY <1>5, Zenon


LEMMA OrType == \A y \in Nat : Or[y] \in [Nat -> Nat]
<1> DEFINE Bad == {y \in Nat : Or[y] \notin [Nat -> Nat]}
<1> SUFFICES ASSUME Bad # {} PROVE FALSE
  OBVIOUS
<1>1. PICK y \in Bad : \A z \in Bad : y <= z
  BY LeastNumber, Zenon
<1>2. y \in Nat /\ Or[y] \notin [Nat -> Nat]
  OBVIOUS
<1>3. CASE y = 0
  BY <1>2, <1>3, OrUnfolds
<1>4. CASE y # 0
  <2>1. y \div 2 \in Nat /\ y \div 2 \notin Bad
    BY <1>1, <1>2, <1>4, Halves
  <2>2. Or[y \div 2] \in [Nat -> Nat]
    BY <2>1
  <2>3. Or[y] = OrBit(y, Or[y \div 2])
    BY <1>2, <1>4, OrUnfolds
  <2> QED
    BY <1>2, <2>2, <2>3, OrBitType
<1> QED
  BY <1>3, <1>4

\* The lowest bit of y goes into a place that is free.
LEMMA OrLowest ==
    ASSUME NEW y \in Nat, NEW a \in Nat, NEW c \in Nat, Or[y \div 2][a] = a + c
    PROVE  Or[y][2 * a] = 2 * a + 2 * c + (y % 2) \/ y = 0
<1> SUFFICES ASSUME y # 0 PROVE Or[y][2 * a] = 2 * a + 2 * c + (y % 2)
  OBVIOUS
<1>1. Or[y] = OrBit(y, Or[y \div 2])
  BY OrUnfolds
<1>2. 2 * a \in Nat /\ (2 * a) \div 2 = a /\ (2 * a) % 2 = 0 /\ y % 2 \in {0, 1}
  OBVIOUS
<1>3. Or[y][2 * a] = 2 * (a + c) + (IF (2 * a) % 2 = 1 \/ y % 2 = 1 THEN 1 ELSE 0)
  <2>1. \A x \in Nat : Or[y][x] = 2 * Or[y \div 2][x \div 2]
                                + (IF x % 2 = 1 \/ y % 2 = 1 THEN 1 ELSE 0)
    BY <1>1, Zenon DEF OrBit
  <2> QED
    BY <1>2, <2>1
<1> QED
  BY <1>2, <1>3

\* Or-ing with a number below 8 adds it to three free bits.
LEMMA OrThreeBits == \A a \in Nat, y \in 0..7 : Or[y][8 * a] = 8 * a + y
<1>0. \A a \in Nat : Or[0][a] = a
  BY OrUnfolds
<1>1. ASSUME NEW a \in Nat, NEW y \in 0..1 PROVE Or[y][2 * a] = 2 * a + y
  <2>1. y \in Nat /\ y \div 2 = 0 /\ y % 2 = y
    OBVIOUS
  <2>2. Or[y \div 2][a] = a + 0
    BY <1>0, <2>1
  <2>3. CASE y = 0
    BY <1>0, <2>3
  <2>4. CASE y # 0
    <3>1. Or[y][2 * a] = 2 * a + 2 * 0 + (y % 2)
      BY <2>1, <2>2, <2>4, OrLowest
    <3> QED
      BY <2>1, <3>1
  <2> QED
    BY <2>3, <2>4
<1>2. ASSUME NEW a \in Nat, NEW y \in 0..3 PROVE Or[y][4 * a] = 4 * a + y
  <2>1. y \in Nat /\ y \div 2 \in 0..1 /\ 2 * (y \div 2) + (y % 2) = y /\ y \div 2 \in Nat
    OBVIOUS
  <2>2. Or[y \div 2][2 * a] = 2 * a + y \div 2
    BY <1>1, <2>1
  <2>3. CASE y = 0
    BY <1>0, <2>3
  <2>4. CASE y # 0
    <3>0. \A b, c \in Nat : Or[y \div 2][b] = b + c => Or[y][2 * b] = 2 * b + 2 * c + (y % 2)
      BY <2>1, <2>4, OrLowest
    <3>1. Or[y][2 * (2 * a)] = 2 * (2 * a) + 2 * (y \div 2) + (y % 2)
      <4> DEFINE b == 2 * a
      <4>1. b \in Nat /\ Or[y \div 2][b] = b + y \div 2
        BY <2>2
      <4> HIDE DEF b
      <4>2. Or[y][2 * b] = 2 * b + 2 * (y \div 2) + (y % 2)
        BY <2>1, <3>0, <4>1
      <4> QED
        BY <4>2 DEF b
    <3>2. 2 * (2 * a) = 4 * a
      OBVIOUS
    <3> QED
      BY <2>1, <3>1, <3>2
  <2> QED
    BY <2>3, <2>4
<1>3. ASSUME NEW a \in Nat, NEW y \in 0..7 PROVE Or[y][8 * a] = 8 * a + y
  <2>1. y \in Nat /\ y \div 2 \in 0..3 /\ 2 * (y \div 2) + (y % 2) = y /\ y \div 2 \in Nat
    OBVIOUS
  <2>2. Or[y \div 2][4 * a] = 4 * a + y \div 2
    BY <1>2, <2>1
  <2>3. CASE y = 0
    BY <1>0, <2>3
  <2>4. CASE y # 0
    <3>0. \A b, c \in Nat : Or[y \div 2][b] = b + c => Or[y][2 * b] = 2 * b + 2 * c + (y % 2)
      BY <2>1, <2>4, OrLowest
    <3>1. Or[y][2 * (4 * a)] = 2 * (4 * a) + 2 * (y \div 2) + (y % 2)
      <4> DEFINE b == 4 * a
      <4>1. b \in Nat /\ Or[y \div 2][b] = b + y \div 2
        BY <2>2
      <4> HIDE DEF b
      <4>2. Or[y][2 * b] = 2 * b + 2 * (y \div 2) + (y % 2)
        BY <2>1, <3>0, <4>1
      <4> QED
        BY <4>2 DEF b
    <3>2. 2 * (4 * a) = 8 * a
      OBVIOUS
    <3> QED
      BY <2>1, <3>1, <3>2
  <2> QED
    BY <2>3, <2>4
<1> QED
  BY <1>3

\* What is_version_bigger compares is a number ...
LEMMA PackType == \A v \in Version : Pack(v) \in Nat
<1> SUFFICES ASSUME NEW v \in Version PROVE Pack(v) \in Nat
  OBVIOUS
<1>1. v.major \in Nat /\ v.minor \in Nat /\ v.mminor \in Nat
  BY DEF Version
<1>2. Or[v.minor][8 * v.major] \in Nat
  BY <1>1, OrType
<1> QED
  BY <1>1, <1>2, OrType DEF Pack

\* ... and puts the three numbers side by side, when they fit.
LEMMA PackFits ==
    \A v \in Version : Fits(v) => Pack(v) = 64 * v.major + 8 * v.minor + v.mminor
<1> SUFFICES ASSUME NEW v \in Version, Fits(v)
             PROVE  Pack(v) = 64 * v.major + 8 * v.minor + v.mminor
  OBVIOUS
<1>1. v.major \in Nat /\ v.minor \in 0..7 /\ v.mminor \in 0..7
  BY DEF Version, Fits
<1>2. Or[v.minor][8 * v.major] = 8 * v.major + v.minor
  BY <1>1, OrThreeBits
<1>3. Or[v.mminor][8 * (8 * v.major + v.minor)] = 8 * (8 * v.major + v.minor) + v.mminor
  <2> DEFINE m == 8 * v.major + v.minor
  <2>1. m \in Nat
    BY <1>1
  <2> HIDE DEF m
  <2>2. Or[v.mminor][8 * m] = 8 * m + v.mminor
    BY <1>1, <2>1, OrThreeBits
  <2> QED
    BY <2>2 DEF m
<1> QED
  BY <1>1, <1>2, <1>3 DEF Pack

\* On versions that fit is_version_bigger is the order of versions.
LEMMA BiggerIsNewer ==
    ASSUME NEW v \in Version, NEW w \in Version, Fits(v), Fits(w), is_version_bigger(v, w) = 1
    PROVE  Newer(w, v)
<1>1. /\ Pack(v) = 64 * v.major + 8 * v.minor + v.mminor
      /\ Pack(w) = 64 * w.major + 8 * w.minor + w.mminor
  BY PackFits
<1>2. /\ v.major \in Nat /\ v.minor \in 0..7 /\ v.mminor \in 0..7 /\ v.built \in Nat
      /\ w.major \in Nat /\ w.minor \in 0..7 /\ w.mminor \in 0..7 /\ w.built \in Nat
  BY DEF Version, Fits
<1>3. Pack(v) < Pack(w) \/ (Pack(v) = Pack(w) /\ v.built < w.built)
  <2>1. Pack(v) \in Nat /\ Pack(w) \in Nat
    BY PackType
  <2> QED
    BY <1>2, <2>1 DEF is_version_bigger
<1>4. /\ Pack(v) < Pack(w) =>
            \/ w.major > v.major \/ (w.major = v.major /\ w.minor > v.minor)
            \/ w.major = v.major /\ w.minor = v.minor /\ w.mminor > v.mminor
      /\ Pack(v) = Pack(w) =>
            w.major = v.major /\ w.minor = v.minor /\ w.mminor = v.mminor
  <2> DEFINE a == v.major
             b == v.minor
             c == v.mminor
             d == w.major
             e == w.minor
             f == w.mminor
  <2>1. a \in Nat /\ b \in 0..7 /\ c \in 0..7 /\ d \in Nat /\ e \in 0..7 /\ f \in 0..7
    BY <1>2
  <2>2. Pack(v) = 64 * a + 8 * b + c /\ Pack(w) = 64 * d + 8 * e + f
    BY <1>1
  <2> HIDE DEF a, b, c, d, e, f
  <2>3. /\ Pack(v) < Pack(w) => d > a \/ (d = a /\ e > b) \/ (d = a /\ e = b /\ f > c)
        /\ Pack(v) = Pack(w) => d = a /\ e = b /\ f = c
    <3>1. /\ 64 * a + 8 * b + c < 64 * d + 8 * e + f =>
                d > a \/ (d = a /\ e > b) \/ (d = a /\ e = b /\ f > c)
          /\ 64 * a + 8 * b + c = 64 * d + 8 * e + f => d = a /\ e = b /\ f = c
      BY <2>1
    <3> QED
      BY <2>2, <3>1, Zenon
  <2> QED
    BY <2>3 DEF a, b, c, d, e, f
<1> QED
  BY <1>2, <1>3, <1>4 DEF Newer

\* A version compares as equal to itself.
LEMMA BiggerThanItself == \A v \in Version : is_version_bigger(v, v) = 0
<1> SUFFICES ASSUME NEW v \in Version PROVE is_version_bigger(v, v) = 0
  OBVIOUS
<1>1. Pack(v) \in Nat /\ v.built \in Nat
  BY PackType DEF Version
<1> QED
  BY <1>1 DEF is_version_bigger


-----------------------------------------------------------------------------
(* Types and descriptors.                                                    *)

LEMMA InitType == Init => TypeOK /\ LeakInv
<1> SUFFICES ASSUME Init PROVE TypeOK /\ LeakInv
  OBVIOUS
<1>1. /\ 0 \in 0..Interval /\ 0 \in 0..MaxFds /\ 0 \in 0..MaxOffers /\ 0 \in 0..MaxFaults
      /\ 0 \in 0..MaxLosses /\ 0 \in 0..MaxSwitch /\ 0 \in Nat /\ 0 <= 2 * 0 + 0
  BY BoundAssumption
<1>2. TypeOK
  <2>1. tar \in [Versions -> Tars]
    <3>1. PICK what \in Tars : tar = [v \in Versions |-> IF v = offer THEN what ELSE "none"]
      BY DEF Init
    <3>2. "none" \in Tars
      BY DEF Tars
    <3> QED
      BY <3>1, <3>2
  <2> QED
    BY <1>1, <2>1, Zenon DEF Init, TypeOK
<1>3. LeakInv
  BY <1>1 DEF Init, LeakInv, Connected
<1> QED
  BY <1>2, <1>3

\* The descriptors and the counters, without the sets they are counted in.
Numbers ==
    /\ fds \in Nat /\ fds <= MaxFds /\ faults \in Nat /\ faults <= MaxFaults /\ tries \in Nat
    /\ t \in Nat /\ t <= Interval

LEMMA NumbersTyped == ASSUME TypeOK PROVE Numbers
BY BoundAssumption DEF TypeOK, Numbers

\* The daemon keeps the numbers in their bounds and the descriptors accounted for.
LEMMA DaemonNumbers ==
    ASSUME TypeOK, LeakInv, Daemon PROVE Numbers' /\ LeakInv'
<1>1. Numbers
  BY NumbersTyped
<1> USE <1>1, BoundAssumption
    DEF Numbers, LeakInv, Connected, Exhausted, Fail, NoFail, Rest, Leave, local
<1>2. CASE Poll
  BY <1>2 DEF Poll, Count
<1>3. CASE Connect
  BY <1>3 DEF Connect
<1>4. CASE ConnectFails
  BY <1>4 DEF ConnectFails
<1>5. CASE List
  BY <1>5 DEF List
<1>6. CASE ListFails
  BY <1>6 DEF ListFails
<1>7. CASE Current
  BY <1>7 DEF Current
<1>8. CASE CurrentFails
  BY <1>8 DEF CurrentFails
<1>9. CASE Download
  BY <1>9 DEF Download
<1>10. CASE DownloadFails
  BY <1>10 DEF DownloadFails
<1>11. CASE Shutdown
  BY <1>11 DEF Shutdown
<1>12. CASE Install
  BY <1>12 DEF Install
<1>13. CASE Quit
  BY <1>13 DEF Quit
<1>14. CASE Refused
  BY <1>14 DEF Refused
<1> QED
  BY <1>2, <1>3, <1>4, <1>5, <1>6, <1>7, <1>8, <1>9, <1>10, <1>11, <1>12, <1>13, <1>14 DEF Daemon

LEMMA OthersNumbers ==
    ASSUME TypeOK, LeakInv,
           Systemd \/ PowerLoss \/ Switch \/ (\E v \in Versions, what \in Tars : Upload(v, what))
    PROVE  Numbers' /\ LeakInv'
<1>1. Numbers
  BY NumbersTyped
<1> USE <1>1, BoundAssumption DEF Numbers, LeakInv, Connected, Exhausted, Leave, local, server, bounds
<1>2. CASE Systemd
  BY <1>2 DEF Systemd
<1>3. CASE PowerLoss
  BY <1>3 DEF PowerLoss
<1>4. CASE Switch
  BY <1>4 DEF Switch
<1>5. ASSUME NEW v \in Versions, NEW what \in Tars, Upload(v, what) PROVE Numbers' /\ LeakInv'
  BY <1>5 DEF Upload
<1> QED
  BY <1>2, <1>3, <1>4, <1>5

\* What the state is besides numbers.
Places ==
    /\ pc \in {"sleep", "connect", "list", "current", "download", "shutdown", "install",
               "quit"}
    /\ enable \in BOOLEAN /\ whole \in BOOLEAN /\ again \in BOOLEAN /\ app \in BOOLEAN
    /\ tail \in {"end", "text", "digits"} /\ unread \in BOOLEAN
    /\ debversion \in Versions \cup {First, NoVersion}
    /\ disk \in Versions \cup {First, NoVersion}
    /\ offer \in Versions /\ tar \in [Versions -> Tars]

LEMMA PlacesTyped == ASSUME TypeOK PROVE Places
BY DEF TypeOK, Places

LEMMA NextPlaces == ASSUME Places, [Next]_vars PROVE Places'
<1> USE DEF Places, Fail, NoFail, Rest, Leave, found, local, server, bounds
<1>1. CASE Poll
  BY <1>1 DEF Poll
<1>2. CASE Connect \/ ConnectFails
  BY <1>2 DEF Connect, ConnectFails
<1>3. CASE List \/ ListFails
  BY <1>3 DEF List, ListFails
<1>4. CASE Current \/ CurrentFails
  BY <1>4 DEF Current, CurrentFails
<1>5. CASE Download \/ Refused \/ DownloadFails
  BY <1>5 DEF Download, Refused, DownloadFails
<1>6. CASE Shutdown
  BY <1>6 DEF Shutdown
<1>7. CASE Install
  BY <1>7 DEF Install
<1>8. CASE Quit
  BY <1>8 DEF Quit
<1>9. CASE Systemd
  BY <1>9 DEF Systemd
<1>10. CASE PowerLoss
  BY <1>10 DEF PowerLoss
<1>11. CASE Switch
  BY <1>11 DEF Switch
<1>12. ASSUME NEW v \in Versions, NEW what \in Tars, Upload(v, what) PROVE Places'
  BY <1>12 DEF Upload
<1>13. CASE UNCHANGED vars
  BY <1>13 DEF vars
<1> QED
  BY <1>1, <1>2, <1>3, <1>4, <1>5, <1>6, <1>7, <1>8, <1>9, <1>10, <1>11, <1>12, <1>13
  DEF Next, Daemon

\* The bounds of the environment.
LEMMA NextBounds ==
    ASSUME TypeOK, [Next]_vars
    PROVE  offers' \in 0..MaxOffers /\ losses' \in 0..MaxLosses /\ switches' \in 0..MaxSwitch
<1> USE BoundAssumption DEF TypeOK, bounds
<1>1. CASE Daemon
  BY <1>1 DEF Daemon, Rest, Poll, Connect, ConnectFails, List, ListFails, Current, CurrentFails,
              Download, Refused, DownloadFails, Shutdown, Install, Quit
<1>2. CASE Systemd
  BY <1>2 DEF Systemd
<1>3. CASE PowerLoss
  BY <1>3 DEF PowerLoss
<1>4. CASE Switch
  BY <1>4 DEF Switch
<1>5. ASSUME NEW v \in Versions, NEW what \in Tars, Upload(v, what)
      PROVE  offers' \in 0..MaxOffers /\ losses' \in 0..MaxLosses /\ switches' \in 0..MaxSwitch
  BY <1>5 DEF Upload
<1>6. CASE UNCHANGED vars
  BY <1>6 DEF vars
<1> QED
  BY <1>1, <1>2, <1>3, <1>4, <1>5, <1>6 DEF Next

LEMMA NextType ==
    ASSUME TypeOK, LeakInv, [Next]_vars PROVE TypeOK' /\ LeakInv'
<1>1. Numbers' /\ LeakInv'
  <2>1. CASE UNCHANGED vars
    BY <2>1, NumbersTyped DEF vars, local, server, bounds, Numbers, LeakInv, Exhausted, Connected
  <2> QED
    BY <2>1, DaemonNumbers, OthersNumbers DEF Next
<1>2. Places'
  BY PlacesTyped, NextPlaces
<1>3. offers' \in 0..MaxOffers /\ losses' \in 0..MaxLosses /\ switches' \in 0..MaxSwitch
  BY NextBounds
<1>4. fds' \in 0..MaxFds /\ t' \in 0..Interval /\ faults' \in 0..MaxFaults /\ tries' \in Nat
  BY <1>1, BoundAssumption DEF Numbers
<1>5. TypeOK'
  BY <1>2, <1>3, <1>4, Zenon DEF TypeOK, Places
<1> QED
  BY <1>1, <1>5

\* The types hold, fds \in 0..MaxFds among them: no path through updata_poll
\* closes a connection it does not have, or opens one it cannot have.
THEOREM TypeCorrect == Spec => []TypeOK
BY InitType, NextType, PTL DEF Spec

\* Whatever fails, and in whichever order, the main loop finds no more
\* descriptors open than two for each call that failed and one for each round that
\* went on to the download.
THEOREM LeaksBounded == Spec => []LeaksCounted
<1>1. LeakInv => LeaksCounted
  BY DEF LeakInv, LeaksCounted
<1> QED
  BY <1>1, InitType, NextType, PTL DEF Spec

-----------------------------------------------------------------------------
(* Versions.                                                                 *)

LEMMA VersionsTyped ==
    ASSUME TypeOK PROVE disk \in Version /\ debversion \in Version /\ Parsed \in Version
<1>1. disk \in Version /\ debversion \in Version
  BY VersionAssumption DEF TypeOK, Version, NoVersion
<1>2. [debversion EXCEPT !.built = @ + 1] \in Version
  BY <1>1 DEF Version
<1> QED
  BY <1>1, <1>2 DEF Parsed

\* The package that was found bigger is still bigger when dpkg gets it.
LEMMA NextUpgrade == ASSUME TypeOK, UpgradeInv, [Next]_vars PROVE UpgradeInv'
<1>0. is_version_bigger(debversion, debversion) = 0
  BY VersionsTyped, BiggerThanItself
<1> USE DEF UpgradeInv, Rest, Leave, found, local, server, bounds
<1>1. CASE Poll \/ Connect \/ ConnectFails
  BY <1>1 DEF Poll, Connect, ConnectFails
<1>2. CASE List \/ ListFails
  BY <1>2 DEF List, ListFails
<1>3. CASE Current \/ CurrentFails
  BY <1>3 DEF Current, CurrentFails, Parsed
<1>4. CASE Download
  BY <1>4 DEF Download, Fetchable, Parsed
<1>5. CASE Refused \/ DownloadFails \/ Quit
  BY <1>5 DEF Refused, DownloadFails, Quit
<1>6. CASE Shutdown
  BY <1>6 DEF Shutdown, Parsed
<1>7. CASE Install
  <2>1. CASE disk' = debversion
    <3>1. Parsed = debversion
      BY <1>7 DEF Install, Parsed
    <3>2. pc' = "sleep"
      BY <1>0, <1>7, <2>1, <3>1 DEF Install
    <3> QED
      BY <3>2
  <2>2. CASE disk' = disk
    BY <1>7, <2>2 DEF Install, Parsed
  <2> QED
    BY <1>7, <2>1, <2>2 DEF Install
<1>8. CASE Systemd \/ PowerLoss \/ Switch
  BY <1>8 DEF Systemd, PowerLoss, Switch, Parsed
<1>9. ASSUME NEW v \in Versions, NEW what \in Tars, Upload(v, what) PROVE UpgradeInv'
  BY <1>9 DEF Upload, Parsed
<1>10. CASE UNCHANGED vars
  BY <1>10 DEF vars, Parsed
<1> QED
  BY <1>1, <1>2, <1>3, <1>4, <1>5, <1>6, <1>7, <1>8, <1>9, <1>10 DEF Next, Daemon

\* A step that changes what is installed.
Changes ==
    \/ disk' = disk \/ Newer(disk', disk)
    \/ disk' = NoVersion /\ losses' > losses
    \/ ~Fits(disk) \/ ~Fits(disk')

LEMMA NextChanges == ASSUME TypeOK, UpgradeInv, [Next]_vars PROVE Changes
<1>0. pc = "install" => debversion = disk \/ Newer(debversion, disk)
                        \/ ~Fits(disk) \/ ~Fits(debversion)
  <2>1. pc = "install" => Parsed = debversion
    BY DEF UpgradeInv, Parsed
  <2> QED
    BY <2>1, VersionsTyped, BiggerIsNewer DEF UpgradeInv
<1> USE DEF Changes, Rest, Leave, local, server, bounds
<1>1. CASE Install
  BY <1>0, <1>1 DEF Install
<1>2. CASE PowerLoss
  <2>1. losses \in Nat /\ losses' = losses + 1
    BY <1>2, BoundAssumption DEF PowerLoss, TypeOK
  <2>2. disk' = disk \/ (pc = "install" /\ disk' = debversion) \/ disk' = NoVersion
    BY <1>2 DEF PowerLoss
  <2> QED
    BY <1>0, <2>1, <2>2
<1>3. CASE Daemon /\ ~Install
  BY <1>3 DEF Daemon, Poll, Connect, ConnectFails, List, ListFails, Current, CurrentFails,
              Download, Refused, DownloadFails, Shutdown, Quit
<1>4. CASE Systemd \/ Switch \/ (\E v \in Versions, what \in Tars : Upload(v, what))
  BY <1>4 DEF Systemd, Switch, Upload
<1>5. CASE UNCHANGED vars
  BY <1>5 DEF vars
<1> QED
  BY <1>1, <1>2, <1>3, <1>4, <1>5 DEF Next

\* The daemon never goes back to an older version: what or-ing the numbers three
\* bits apart computes is the order of versions, for all that fit, and the
\* comparison is still true when dpkg runs, the second time included.
THEOREM NeverBack == Spec => NoDowngrade
<1>1. Init => UpgradeInv
  BY DEF Init, UpgradeInv
<1>2. ASSUME TypeOK, UpgradeInv, [Next]_vars PROVE [Changes]_vars
  BY <1>2, NextChanges
<1> QED
  BY <1>1, <1>2, NextUpgrade, TypeCorrect, PTL DEF Spec, NoDowngrade, Changes
=============================================================================

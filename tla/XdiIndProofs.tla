---------------------------- MODULE XdiIndProofs ----------------------------
(***************************************************************************)
(* Proofs about the indication path, module XdiInd, for any entities,      *)
(* packets and buffers.                                                    *)
(***************************************************************************)
EXTENDS XdiInd, TLAPS, FiniteSetTheorems, SequenceTheorems, WellFoundedInduction

(***************************************************************************)
(* Induction over the natural numbers, for a set.                          *)
(***************************************************************************)
\* A set with 0 and with the successor of each natural number in it has them
\* all: otherwise there were a least one that it has not.
LEMMA Induction ==
  ASSUME NEW T, 0 \in T, \A n \in Nat : n \in T => n + 1 \in T
  PROVE  Nat \subseteq T
<1> DEFINE Less == {ss \in Nat \X Nat : ss[1] < ss[2]}
           S == Nat \ T
<1> SUFFICES ASSUME S # {} PROVE FALSE
  OBVIOUS
<1>1. IsWellFoundedOn(Less, Nat)
  BY NatLessThanWellFounded DEF OpToRel
<1>2. S \subseteq Nat
  OBVIOUS
<1> HIDE DEF S, Less
<1>3. PICK x \in S : \A y \in S : <<y, x>> \notin Less
  BY <1>1, <1>2, WFMin
<1>4. x \in Nat /\ x # 0
  BY <1>3 DEF S
<1>5. x - 1 \in Nat /\ x - 1 < x
  BY <1>4
<1>6. <<x - 1, x>> \in Less
  BY <1>4, <1>5 DEF Less
<1>7. x - 1 \in T
  BY <1>3, <1>5, <1>6 DEF S
<1>8. (x - 1) + 1 = x
  BY <1>4
<1>9. x \in T
  BY <1>5, <1>7, <1>8
<1> QED BY <1>3, <1>9 DEF S

(***************************************************************************)
(* Recursion: f begins with a, and step g[i] leads from f[i - 1] to f[i].  *)
(***************************************************************************)
IsStep(g, N, S) == g \in [1 .. N -> [S -> S]]
Solves(f, N, S, a, g) ==
  f \in [0 .. N -> S] /\ f[0] = a /\ \A i \in 1 .. N : f[i] = g[i][f[i - 1]]

\* Steps and a start define a function on 0 .. N.
LEMMA Recursion ==
  ASSUME NEW N \in Nat, NEW S, NEW a \in S, NEW g, IsStep(g, N, S)
  PROVE  \E f : Solves(f, N, S, a, g)
<1> DEFINE Fits(n, f) == f[0] = a /\ \A i \in 1 .. n : f[i] = g[i][f[i - 1]]
           T == {n \in Nat : n <= N => \E f \in [0 .. n -> S] : Fits(n, f)}
<1>0. g \in [1 .. N -> [S -> S]]
  BY DEF IsStep
<1>1. 0 \in T
  <2> DEFINE f == [i \in 0 .. 0 |-> a]
  <2>1. f \in [0 .. 0 -> S] /\ Fits(0, f)
    OBVIOUS
  <2> QED BY <2>1
<1>2. ASSUME NEW n \in Nat, n \in T PROVE n + 1 \in T
  <2> SUFFICES ASSUME n + 1 <= N PROVE \E f \in [0 .. n + 1 -> S] : Fits(n + 1, f)
    OBVIOUS
  <2>1. PICK f \in [0 .. n -> S] : Fits(n, f)
    BY <1>2
  <2> DEFINE h == [i \in 0 .. n + 1 |-> IF i <= n THEN f[i] ELSE g[n + 1][f[n]]]
  <2>2. g[n + 1] \in [S -> S] /\ f[n] \in S
    BY <1>0
  <2>3. g[n + 1][f[n]] \in S
    BY <2>2
  <2>4. h \in [0 .. n + 1 -> S]
    BY <2>3
  <2>5. h[0] = a
    BY <2>1
  <2>6. ASSUME NEW i \in 1 .. n + 1 PROVE h[i] = g[i][h[i - 1]]
    <3>1. CASE i <= n
      <4>1. i \in 1 .. n /\ i - 1 \in 0 .. n + 1 /\ i - 1 <= n /\ i \in 0 .. n + 1
        BY <3>1
      <4>2. h[i] = f[i] /\ h[i - 1] = f[i - 1]
        BY <3>1, <4>1
      <4> QED BY <2>1, <4>1, <4>2
    <3>2. CASE i = n + 1
      <4>1. i - 1 = n /\ ~(i <= n) /\ n \in 0 .. n + 1
        BY <3>2
      <4>2. h[i] = g[n + 1][f[n]] /\ h[n] = f[n]
        BY <4>1
      <4> QED BY <3>2, <4>1, <4>2
    <3>3. i <= n \/ i = n + 1
      OBVIOUS
    <3> HIDE DEF h
    <3> QED BY <3>1, <3>2, <3>3
  <2> HIDE DEF h
  <2> WITNESS h \in [0 .. n + 1 -> S]
  <2> QED BY <2>5, <2>6
<1> HIDE DEF T
<1>3. Nat \subseteq T
  BY <1>1, <1>2, Induction
<1>4. N \in T
  BY <1>3
<1>5. PICK f \in [0 .. N -> S] : Fits(N, f)
  BY <1>4 DEF T
<1>6. Solves(f, N, S, a, g)
  BY <1>5 DEF Solves
<1> QED BY <1>6

(***************************************************************************)
(* Sums.                                                                   *)
(***************************************************************************)
\* What the recursive function in Units computes.
LEMMA UnitsFacts ==
  ASSUME NEW s \in Seq(Nat)
  PROVE  /\ Units(s, 0) = 0
         /\ \A i \in 1 .. Len(s) : Units(s, i) = Units(s, i - 1) + s[i]
         /\ \A i \in 0 .. Len(s) : Units(s, i) \in Nat
<1> DEFINE N == Len(s)
           g == [i \in 1 .. N |-> [v \in Nat |-> v + s[i]]]
           Eq(f) == f = [i \in 0 .. Len(s) |-> IF i = 0 THEN 0 ELSE f[i - 1] + s[i]]
           F == CHOOSE f : Eq(f)
<1> HIDE DEF Eq, F
<1>1. N \in Nat /\ 0 \in Nat /\ g \in [1 .. N -> [Nat -> Nat]]
  OBVIOUS
<1>2. PICK S, z : S = Nat /\ z = 0
  OBVIOUS
<1>3. PICK f : Solves(f, N, S, z, g)
  <2>1. IsStep(g, N, S)
    BY <1>1, <1>2, Zenon DEF IsStep
  <2>2. z \in S /\ N \in Nat
    BY <1>1, <1>2
  <2> HIDE DEF N, g
  <2> QED BY <2>1, <2>2, Recursion
<1>a. \A i \in 1 .. N : f[i] = f[i - 1] + s[i]
  <2> SUFFICES ASSUME NEW i \in 1 .. N PROVE f[i] = f[i - 1] + s[i]
    OBVIOUS
  <2>1. i \in Int /\ i - 1 \in 0 .. N
    BY <1>1
  <2>2. f[i - 1] \in Nat
    BY <2>1, <1>2, <1>3 DEF Solves
  <2>3. g[i][f[i - 1]] = f[i - 1] + s[i]
    BY <2>2
  <2> QED BY <1>3, <2>3 DEF Solves
<1>4. Eq(f)
  BY <1>2, <1>3, <1>a DEF Eq, Solves
<1>5. Eq(F)
  BY <1>4 DEF F
<1>6. \A n : Units(s, n) = F[n]
  BY DEF Units, Eq, F
<1>7. F[0] = 0 /\ \A i \in 1 .. N : F[i] = F[i - 1] + s[i]
  <2>1. F[0] = 0
    <3>1. 0 \in 0 .. N
      BY <1>1
    <3> QED BY <1>5, <3>1, Zenon DEF Eq
  <2>2. ASSUME NEW i \in 1 .. N PROVE F[i] = F[i - 1] + s[i]
    <3>1. i \in 0 .. N /\ i # 0
      BY <1>1
    <3> QED BY <1>5, <3>1, Zenon DEF Eq
  <2> QED BY <2>1, <2>2
<1>8. \A i \in 0 .. N : F[i] \in Nat
  <2> DEFINE V == {n \in Nat : n <= N => F[n] \in Nat}
  <2>1. 0 \in V
    BY <1>7
  <2>2. ASSUME NEW n \in Nat, n \in V PROVE n + 1 \in V
    <3> SUFFICES ASSUME n + 1 <= N PROVE F[n + 1] \in Nat
      OBVIOUS
    <3>1. n + 1 \in 1 .. N /\ (n + 1) - 1 = n
      BY <1>1
    <3>2. F[n + 1] = F[n] + s[n + 1] /\ s[n + 1] \in Nat
      BY <1>7, <3>1
    <3>3. F[n] \in Nat
      BY <1>1, <2>2
    <3> QED BY <3>2, <3>3
  <2> HIDE DEF V
  <2>3. Nat \subseteq V
    BY <2>1, <2>2, Induction
  <2> QED BY <2>3 DEF V
<1> QED BY <1>6, <1>7, <1>8

\* Sums of the same elements are the same.
LEMMA UnitsSame ==
  ASSUME NEW s \in Seq(Nat), NEW t \in Seq(Nat), NEW m \in Nat,
         m <= Len(s), m <= Len(t), \A i \in 1 .. m : s[i] = t[i]
  PROVE  Units(s, m) = Units(t, m)
<1> DEFINE V == {n \in Nat : n <= m => Units(s, n) = Units(t, n)}
<1>1. 0 \in V
  BY UnitsFacts
<1>2. ASSUME NEW n \in Nat, n \in V PROVE n + 1 \in V
  <2> SUFFICES ASSUME n + 1 <= m PROVE Units(s, n + 1) = Units(t, n + 1)
    OBVIOUS
  <2>1. n + 1 \in 1 .. Len(s) /\ n + 1 \in 1 .. Len(t) /\ (n + 1) - 1 = n /\ n + 1 \in 1 .. m
    OBVIOUS
  <2>2. Units(s, n + 1) = Units(s, n) + s[n + 1] /\ Units(t, n + 1) = Units(t, n) + t[n + 1]
    BY <2>1, UnitsFacts
  <2> QED BY <1>2, <2>1, <2>2
<1> HIDE DEF V
<1>3. Nat \subseteq V
  BY <1>1, <1>2, Induction
<1> QED BY <1>3 DEF V

\* A longer piece holds no less.
LEMMA UnitsGrow ==
  ASSUME NEW s \in Seq(Nat), NEW a \in 0 .. Len(s), NEW b \in 0 .. Len(s), a <= b
  PROVE  Units(s, a) <= Units(s, b)
<1> DEFINE V == {n \in Nat : a + n <= Len(s) => Units(s, a) <= Units(s, a + n)}
<1>1. 0 \in V
  BY UnitsFacts
<1>2. ASSUME NEW n \in Nat, n \in V PROVE n + 1 \in V
  <2> SUFFICES ASSUME a + (n + 1) <= Len(s) PROVE Units(s, a) <= Units(s, a + (n + 1))
    OBVIOUS
  <2>1. a + (n + 1) \in 1 .. Len(s) /\ (a + (n + 1)) - 1 = a + n /\ a + n \in 0 .. Len(s)
    OBVIOUS
  <2>2. Units(s, a + (n + 1)) = Units(s, a + n) + s[a + (n + 1)] /\ s[a + (n + 1)] \in Nat
    BY <2>1, UnitsFacts
  <2>3. Units(s, a) \in Nat /\ Units(s, a + n) \in Nat
    BY <2>1, UnitsFacts
  <2> QED BY <1>2, <2>1, <2>2, <2>3
<1> HIDE DEF V
<1>3. Nat \subseteq V
  BY <1>1, <1>2, Induction
<1>4. b - a \in V /\ a + (b - a) = b
  BY <1>3
<1> QED BY <1>4 DEF V

(***************************************************************************)
(* The copy loop.                                                          *)
(***************************************************************************)
Places == [cur : Nat, off : Int, rest : Int, on : BOOLEAN]

\* Where the loop stands in the buffers r, w units after their start.
Stands(r, at, w) ==
  /\ at.cur \in 0 .. Len(r) /\ at.off \in Nat /\ at.rest \in Nat
  /\ at.cur < Len(r) => at.off <= r[at.cur + 1]
  /\ at.cur = Len(r) => at.off = 0
  /\ Units(r, at.cur) + at.off + at.rest = w

\* A turn finds a place whatever it starts from.
LEMMA TurnPlace ==
  ASSUME NEW r \in Seq(Nat), NEW at \in Places
  PROVE  Turn(r, at) \in Places
<1> DEFINE full == at.cur < Len(r) /\ at.off = r[at.cur + 1]
           c == IF full THEN at.cur + 1 ELSE at.cur
           o == IF full THEN 0 ELSE at.off
           n == IF r[c + 1] - o < at.rest THEN r[c + 1] - o ELSE at.rest
<1>1. at.cur \in Nat /\ at.off \in Int /\ at.rest \in Int /\ Len(r) \in Nat
  BY DEF Places
<1>2. c \in Nat /\ o \in Int
  BY <1>1
<1>3. Turn(r, at) = IF c >= Len(r) THEN [cur |-> c, off |-> o, rest |-> at.rest, on |-> FALSE]
                    ELSE [cur |-> c, off |-> o + n, rest |-> at.rest - n, on |-> n < at.rest]
  BY DEF Turn
<1> HIDE DEF c, o
<1>4. CASE c >= Len(r)
  BY <1>1, <1>2, <1>3, <1>4 DEF Places
<1>5. CASE ~(c >= Len(r))
  <2>1. c + 1 \in 1 .. Len(r)
    BY <1>1, <1>2, <1>5
  <2>2. r[c + 1] \in Nat
    BY <2>1, ElementOfSeq
  <2>3. n \in Int
    BY <1>1, <1>2, <2>2
  <2> HIDE DEF n
  <2>4. o + n \in Int /\ at.rest - n \in Int /\ (n < at.rest) \in BOOLEAN
    BY <1>1, <1>2, <2>3
  <2> QED BY <1>2, <1>3, <1>5, <2>4 DEF Places
<1> QED BY <1>4, <1>5

\* A turn goes on with the same sum; when it is not the last one it has filled
\* the buffer it stands at, and when it started at a full one, that is another.
LEMMA TurnStands ==
  ASSUME NEW r \in Seq(Nat), NEW at \in Places, NEW w \in Nat, w <= Total(r),
         Stands(r, at, w)
  PROVE  LET t == Turn(r, at) IN
         /\ Stands(r, t, w)
         /\ t.on => /\ t.cur < Len(r) /\ t.off = r[t.cur + 1] /\ t.cur >= at.cur
                    /\ t.rest > 0
                    /\ at.cur < Len(r) /\ at.off = r[at.cur + 1] => t.cur > at.cur
         /\ ~t.on => t.rest = 0
         /\ t.cur = Len(r) => Units(r, at.cur) + at.off = Total(r)
<1> DEFINE full == at.cur < Len(r) /\ at.off = r[at.cur + 1]
           c == IF full THEN at.cur + 1 ELSE at.cur
           o == IF full THEN 0 ELSE at.off
           n == IF r[c + 1] - o < at.rest THEN r[c + 1] - o ELSE at.rest
<1>1. PICK L \in Nat : L = Len(r)
  OBVIOUS
<1>2. /\ at.cur \in 0 .. L /\ at.off \in Nat /\ at.rest \in Nat
      /\ at.cur < L => at.off <= r[at.cur + 1]
      /\ at.cur = L => at.off = 0
      /\ Units(r, at.cur) + at.off + at.rest = w
  BY <1>1 DEF Stands
<1>3. /\ \A i \in 1 .. L : Units(r, i) = Units(r, i - 1) + r[i] /\ r[i] \in Nat
      /\ \A i \in 0 .. L : Units(r, i) \in Nat
      /\ Total(r) = Units(r, L)
  BY <1>1, UnitsFacts, ElementOfSeq DEF Total
<1>4. c \in 0 .. L /\ o \in Nat /\ Units(r, c) + o = Units(r, at.cur) + at.off
  <2>1. CASE full
    <3>1. at.cur + 1 \in 1 .. L /\ (at.cur + 1) - 1 = at.cur
      BY <1>1, <1>2, <2>1
    <3>2. Units(r, at.cur + 1) = Units(r, at.cur) + at.off
      BY <1>3, <2>1, <3>1
    <3>3. Units(r, at.cur + 1) \in Nat
      BY <1>3, <3>1
    <3> QED BY <2>1, <3>1, <3>2, <3>3
  <2>2. CASE ~full
    BY <1>2, <1>3, <2>2
  <2> QED BY <2>1, <2>2
<1>5. (c < L => o <= r[c + 1]) /\ (c = L => o = 0)
  <2>1. CASE full
    <3>1. c < L => c + 1 \in 1 .. L
      BY <1>4
    <3>2. c < L => r[c + 1] \in Nat
      BY <1>3, <3>1
    <3> QED BY <2>1, <3>2
  <2>2. CASE ~full
    BY <1>2, <2>2
  <2> QED BY <2>1, <2>2
<1>6. /\ c >= at.cur /\ (at.cur < L /\ at.off = r[at.cur + 1] => c > at.cur)
  BY <1>1, <1>2
<1>7. PICK t : t = Turn(r, at)
  OBVIOUS
<1>8. t = IF c >= L THEN [cur |-> c, off |-> o, rest |-> at.rest, on |-> FALSE]
          ELSE [cur |-> c, off |-> o + n, rest |-> at.rest - n, on |-> n < at.rest]
  BY <1>1, <1>7 DEF Turn
<1> HIDE DEF c, o
<1>9. CASE c >= L
  <2>1. t.cur = c /\ t.off = o /\ t.rest = at.rest /\ t.on = FALSE
    BY <1>8, <1>9
  <2>2. c = L
    BY <1>1, <1>4, <1>9
  <2>3. Units(r, at.cur) + at.off = Total(r) /\ at.rest = 0
    <3>1. Total(r) \in Nat /\ Units(r, at.cur) \in Nat /\ o = 0
      <4>1. L \in 0 .. L /\ at.cur \in 0 .. L
        BY <1>2
      <4>2. o = 0
        BY <1>5, <2>2
      <4> QED BY <1>3, <4>1, <4>2, Zenon
    <3>2. Units(r, at.cur) + at.off = Total(r)
      BY <1>3, <1>4, <2>2, <3>1
    <3> QED BY <1>2, <3>1, <3>2
  <2>4. Stands(r, t, w)
    <3>1. Units(r, c) + o + at.rest = w
      BY <1>2, <1>4
    <3> QED BY <1>1, <1>2, <1>4, <1>5, <2>1, <2>2, <3>1 DEF Stands
  <2> QED BY <1>7, <2>1, <2>3, <2>4
<1>10. CASE ~(c >= L)
  <2>1. c < L /\ c + 1 \in 1 .. L
    BY <1>1, <1>4, <1>10
  <2>2. PICK b \in Nat : b = r[c + 1]
    BY <1>3, <2>1
  <2>3. o <= b
    BY <1>5, <2>1, <2>2
  <2>4. n \in Nat /\ n <= at.rest /\ o + n <= b /\ (n < at.rest => o + n = b)
    <3>1. PICK d, e \in Nat : d = at.rest /\ e = o
      BY <1>2, <1>4
    <3>2. n = IF b - e < d THEN b - e ELSE d
      BY <2>2, <3>1
    <3> HIDE DEF n
    <3>3. e <= b
      BY <2>3, <3>1
    <3> QED BY <3>1, <3>2, <3>3
  <2> HIDE DEF n
  <2>5. t.cur = c /\ t.off = o + n /\ t.rest = at.rest - n /\ t.on = (n < at.rest)
    BY <1>8, <1>10
  <2>6. Units(r, c) + (o + n) + (at.rest - n) = w
    <3>1. Units(r, c) \in Nat /\ Units(r, at.cur) \in Nat
      BY <1>2, <1>3, <1>4
    <3> QED BY <1>2, <1>4, <2>4, <3>1
  <2>7. Stands(r, t, w)
    <3>1. o + n \in Nat /\ at.rest - n \in Nat /\ o + n <= r[c + 1] /\ c # L
      <4>1. PICK d, e, h \in Nat : d = at.rest /\ e = o /\ h = n
        BY <1>2, <1>4, <2>4
      <4>2. h <= d /\ e + h <= b
        BY <2>4, <4>1
      <4>3. e + h \in Nat /\ d - h \in Nat
        BY <4>2
      <4>4. c # L
        BY <1>4, <2>1
      <4> QED BY <2>2, <4>1, <4>2, <4>3, <4>4
    <3> QED BY <1>1, <1>4, <2>1, <2>5, <2>6, <3>1 DEF Stands
  <2>8. t.on => t.off = r[t.cur + 1]
    BY <2>2, <2>4, <2>5
  <2>9. ~t.on => t.rest = 0
    <3>1. PICK d, h \in Nat : d = at.rest /\ h = n
      BY <1>2, <2>4
    <3>2. h <= d /\ (~(h < d) => d - h = 0)
      BY <2>4, <3>1
    <3> QED BY <2>5, <3>1, <3>2
  <2>11. t.on => t.rest > 0
    <3>1. PICK d, h \in Nat : d = at.rest /\ h = n
      BY <1>2, <2>4
    <3>2. h < d => d - h > 0
      BY <3>1
    <3> QED BY <2>5, <3>1, <3>2
  <2>10. t.cur < L /\ t.cur # L
    BY <1>1, <1>4, <2>1, <2>5
  <2> QED BY <1>1, <1>6, <1>7, <2>5, <2>7, <2>8, <2>9, <2>10, <2>11
<1> QED BY <1>9, <1>10

\* What the recursive function in Copy computes.
Loops(f, r, z) ==
  /\ f \in [0 .. Len(r) -> Places] /\ f[0] = Turn(r, z)
  /\ \A i \in 1 .. Len(r) : f[i] = IF f[i - 1].on THEN Turn(r, f[i - 1]) ELSE f[i - 1]

\* It has a solution.
LEMMA LoopFacts ==
  ASSUME NEW r \in Seq(Nat), NEW cur, NEW off, NEW len, NEW z \in Places,
         z = [cur |-> cur, off |-> off, rest |-> len, on |-> TRUE]
  PROVE  \E f : Loops(f, r, z) /\ Copy(r, cur, off, len) = <<f[Len(r)].cur, f[Len(r)].off>>
<1> DEFINE N == Len(r)
           g == [i \in 1 .. N |-> [v \in Places |-> IF v.on THEN Turn(r, v) ELSE v]]
           Eq(f) == f = [i \in 0 .. Len(r) |->
                           IF i = 0 THEN Turn(r, [cur |-> cur, off |-> off, rest |-> len, on |-> TRUE])
                           ELSE IF f[i - 1].on THEN Turn(r, f[i - 1]) ELSE f[i - 1]]
           F == CHOOSE f : Eq(f)
<1> HIDE DEF Eq, F
<1>1. N \in Nat /\ Turn(r, z) \in Places
  BY TurnPlace
<1>2. g \in [1 .. N -> [Places -> Places]]
  <2>1. ASSUME NEW v \in Places PROVE (IF v.on THEN Turn(r, v) ELSE v) \in Places
    BY TurnPlace
  <2>2. PICK h : h = [v \in Places |-> IF v.on THEN Turn(r, v) ELSE v]
    OBVIOUS
  <2>3. h \in [Places -> Places]
    BY <2>1, <2>2
  <2> QED BY <2>2, <2>3, Zenon
<1>3. PICK f : Solves(f, N, Places, Turn(r, z), g)
  <2>1. IsStep(g, N, Places)
    BY <1>2, Zenon DEF IsStep
  <2> HIDE DEF N, g
  <2> QED BY <1>1, <2>1, Recursion
<1>4. f \in [0 .. N -> Places] /\ f[0] = Turn(r, z)
  BY <1>3 DEF Solves
<1>5. ASSUME NEW i \in 1 .. N
      PROVE  f[i] = IF f[i - 1].on THEN Turn(r, f[i - 1]) ELSE f[i - 1]
  <2>1. i - 1 \in 0 .. N
    BY <1>1
  <2>2. PICK v \in Places : v = f[i - 1]
    BY <1>4, <2>1
  <2>3. g[i] = [u \in Places |-> IF u.on THEN Turn(r, u) ELSE u]
    OBVIOUS
  <2>4. g[i][v] = IF v.on THEN Turn(r, v) ELSE v
    BY <2>3, Zenon
  <2>5. f[i] = g[i][f[i - 1]]
    BY <1>3 DEF Solves
  <2> HIDE DEF g
  <2> QED BY <2>2, <2>4, <2>5
<1>6. \A i \in 0 .. N : i = 0 \/ i \in 1 .. N
  BY <1>1
<1>7. Eq(f)
  <2>1. \A i \in 0 .. N : f[i] = IF i = 0 THEN Turn(r, [cur |-> cur, off |-> off, rest |-> len, on |-> TRUE])
                           ELSE IF f[i - 1].on THEN Turn(r, f[i - 1]) ELSE f[i - 1]
    BY <1>4, <1>5, <1>6
  <2>2. f = [i \in 0 .. N |-> f[i]]
    BY <1>4
  <2> QED BY <2>1, <2>2, Zenon DEF Eq
<1>8. Eq(F)
  BY <1>7 DEF F
<1>9. Copy(r, cur, off, len) = <<F[Len(r)].cur, F[Len(r)].off>>
  BY DEF Copy, Eq, F
<1>10. \A i \in 0 .. N : F[i] = IF i = 0 THEN Turn(r, z)
                                 ELSE IF F[i - 1].on THEN Turn(r, F[i - 1]) ELSE F[i - 1]
  BY <1>8, Zenon DEF Eq
<1>11. F \in [0 .. N -> Places]
  <2> DEFINE V == {n \in Nat : n <= N => F[n] \in Places}
  <2>1. 0 \in V
    <3>1. 0 \in 0 .. N
      BY <1>1
    <3>2. F[0] = Turn(r, z)
      BY <1>10, <3>1, Zenon
    <3> QED BY <1>1, <3>2
  <2>2. ASSUME NEW n \in Nat, n \in V PROVE n + 1 \in V
    <3> SUFFICES ASSUME n + 1 <= N PROVE F[n + 1] \in Places
      OBVIOUS
    <3>1. n + 1 \in 0 .. N /\ (n + 1) - 1 = n /\ n + 1 # 0 /\ n <= N
      BY <1>1
    <3>2. F[n + 1] = IF F[n].on THEN Turn(r, F[n]) ELSE F[n]
      BY <1>10, <3>1
    <3>3. F[n] \in Places
      BY <2>2, <3>1
    <3> QED BY <3>2, <3>3, TurnPlace
  <2> HIDE DEF V
  <2>3. Nat \subseteq V
    BY <2>1, <2>2, Induction
  <2>4. \A n \in 0 .. N : F[n] \in Places
    BY <1>1, <2>3 DEF V
  <2>5. F = [i \in 0 .. N |-> F[i]]
    BY <1>8, <1>10, Zenon DEF Eq
  <2> QED BY <2>4, <2>5
<1>12. Loops(F, r, z)
  <2>1. F[0] = Turn(r, z)
    <3>1. 0 \in 0 .. N
      BY <1>1
    <3> QED BY <1>10, <3>1, Zenon
  <2>2. \A i \in 1 .. N : i \in 0 .. N /\ i # 0
    BY <1>1
  <2> QED BY <1>10, <1>11, <2>1, <2>2, Zenon DEF Loops
<1> QED BY <1>9, <1>12

\* The same of the turns from z on.
Copies(f, r, z) == Copy(r, z.cur, z.off, z.rest) = <<f[Len(r)].cur, f[Len(r)].off>>

\* Every place has its turns.
LEMMA LoopsFrom ==
  ASSUME NEW r \in Seq(Nat), NEW z \in Places, z.on = TRUE
  PROVE  \E f : Loops(f, r, z) /\ Copies(f, r, z)
<1>1. z = [cur |-> z.cur, off |-> z.off, rest |-> z.rest, on |-> TRUE]
  BY DEF Places
<1> QED BY <1>1, LoopFacts DEF Copies

\* What is copied is a place.
LEMMA CopyPlace ==
  ASSUME NEW r \in Seq(Nat), NEW cur \in Nat, NEW off \in Int, NEW len \in Int
  PROVE  Copy(r, cur, off, len)[1] \in Nat /\ Copy(r, cur, off, len)[2] \in Int
<1>1. PICK z : z = [cur |-> cur, off |-> off, rest |-> len, on |-> TRUE]
  OBVIOUS
<1>2. z \in Places
  BY <1>1 DEF Places
<1>a. z.cur = cur /\ z.off = off /\ z.rest = len /\ z.on = TRUE
  BY <1>1
<1>b. PICK f : Loops(f, r, z) /\ Copies(f, r, z)
  BY <1>2, <1>a, LoopsFrom, Zenon
<1>3. Loops(f, r, z) /\ Copy(r, cur, off, len) = <<f[Len(r)].cur, f[Len(r)].off>>
  BY <1>a, <1>b DEF Copies
<1>4. f[Len(r)] \in Places
  <2>1. Len(r) \in 0 .. Len(r)
    OBVIOUS
  <2> QED BY <1>3, <2>1 DEF Loops
<1> QED BY <1>3, <1>4 DEF Places

\* The copy ends with everything copied.  It uses all of R up only when all was
\* full before it.
LEMMA CopyStands ==
  ASSUME NEW r \in Seq(Nat), NEW z \in Places, NEW w \in Nat, w <= Total(r), z.on = TRUE,
         Stands(r, z, w)
  PROVE  LET to == Copy(r, z.cur, z.off, z.rest) IN
         \E t \in Places : /\ to[1] = t.cur /\ to[2] = t.off
                           /\ Stands(r, t, w) /\ t.rest = 0
                           /\ t.cur = Len(r) => Units(r, z.cur) + z.off = Total(r)
<1>1. PICK f : Loops(f, r, z) /\ Copies(f, r, z)
  BY LoopsFrom, Zenon
<1>2. Loops(f, r, z) /\ Copy(r, z.cur, z.off, z.rest) = <<f[Len(r)].cur, f[Len(r)].off>>
  BY <1>1 DEF Copies
<1>3. PICK N \in Nat : N = Len(r)
  OBVIOUS
<1>4. /\ \A i \in 0 .. N : f[i] \in Places
      /\ f[0] = Turn(r, z)
      /\ \A i \in 1 .. N : f[i] = IF f[i - 1].on THEN Turn(r, f[i - 1]) ELSE f[i - 1]
  BY <1>2, <1>3 DEF Loops
<1> DEFINE Good(i) ==
                     /\ Stands(r, f[i], w)
                     /\ f[i].on => /\ f[i].cur < N /\ f[i].off = r[f[i].cur + 1]
                                   /\ f[i].cur >= i /\ f[i].rest > 0
                     /\ ~f[i].on => f[i].rest = 0
                     /\ f[i].cur = N => Units(r, z.cur) + z.off = Total(r)
           V == {n \in Nat : n <= N => Good(n)}
<1>5. 0 \in V
  <2>1. PICK t : t = f[0]
    OBVIOUS
  <2>2. t = Turn(r, z)
    BY <1>4, <2>1
  <2>3. /\ Stands(r, t, w)
        /\ t.on => t.cur < N /\ t.off = r[t.cur + 1] /\ t.rest > 0
        /\ ~t.on => t.rest = 0
        /\ t.cur = N => Units(r, z.cur) + z.off = Total(r)
    BY <1>3, <2>2, TurnStands
  <2>4. t.cur >= 0
    BY <2>3 DEF Stands
  <2> QED BY <2>1, <2>3, <2>4
<1>6. ASSUME NEW n \in Nat, n \in V PROVE n + 1 \in V
  <2> SUFFICES ASSUME n + 1 <= N PROVE Good(n + 1)
    OBVIOUS
  <2>1. Good(n)
    BY <1>6
  <2>2. n \in 0 .. N /\ n + 1 \in 1 .. N /\ (n + 1) - 1 = n
    OBVIOUS
  <2>3. PICK u, t : u = f[n] /\ t = f[n + 1]
    OBVIOUS
  <2>4. u \in Places /\ t = IF u.on THEN Turn(r, u) ELSE u
    BY <1>4, <2>2, <2>3
  <2>5. CASE u.on
    <3>1. /\ Stands(r, t, w)
          /\ t.on => /\ t.cur < N /\ t.off = r[t.cur + 1] /\ t.rest > 0
                     /\ u.cur < N /\ u.off = r[u.cur + 1] => t.cur > u.cur
          /\ ~t.on => t.rest = 0
          /\ t.cur = N => Units(r, u.cur) + u.off = Total(r)
      <4>1. t = Turn(r, u) /\ Stands(r, u, w)
        BY <2>1, <2>3, <2>4, <2>5
      <4> QED BY <1>3, <2>4, <4>1, TurnStands
    <3>2. u.cur < N /\ u.off = r[u.cur + 1] /\ u.cur >= n /\ u.rest > 0 /\ Stands(r, u, w)
      BY <2>1, <2>3, <2>5
    <3>3. t.cur # N
      <4>1. Units(r, u.cur) \in Nat /\ u.off \in Nat /\ u.rest \in Nat
            /\ Units(r, u.cur) + u.off + u.rest = w
        BY <3>2, UnitsFacts DEF Stands
      <4>2. Total(r) \in Nat
        <5>1. Len(r) \in 0 .. Len(r)
          OBVIOUS
        <5> QED BY <5>1, UnitsFacts, Zenon DEF Total
      <4> SUFFICES ASSUME t.cur = N PROVE FALSE
        OBVIOUS
      <4>3. Units(r, u.cur) + u.off = Total(r)
        BY <3>1
      <4> QED BY <3>2, <4>1, <4>2, <4>3
    <3>4. t.on => t.cur >= n + 1
      <4>1. t.on => t.cur > u.cur
        BY <3>1, <3>2
      <4>2. t.cur \in Int /\ u.cur \in Int
        BY <3>1, <3>2 DEF Stands
      <4> QED BY <3>2, <4>1, <4>2
    <3> QED BY <2>3, <3>1, <3>3, <3>4
  <2>6. CASE ~u.on
    BY <2>1, <2>3, <2>4, <2>6
  <2> QED BY <2>5, <2>6
<1> HIDE DEF V
<1>7. Nat \subseteq V
  BY <1>5, <1>6, Induction
<1>8. Good(N)
  BY <1>7 DEF V
<1>9. PICK t : t = f[N]
  OBVIOUS
<1>10. t \in Places
  BY <1>4, <1>9
<1>11. ~t.on
  <2>1. Stands(r, t, w) /\ (t.on => t.cur < N /\ t.cur >= N)
    BY <1>8, <1>9
  <2>2. t.cur \in Int
    BY <2>1 DEF Stands
  <2> QED BY <2>1, <2>2
<1>12. Stands(r, t, w) /\ t.rest = 0 /\ (t.cur = N => Units(r, z.cur) + z.off = Total(r))
  BY <1>8, <1>9, <1>11
<1>13. PICK to : to = Copy(r, z.cur, z.off, z.rest)
  OBVIOUS
<1>14. to[1] = t.cur /\ to[2] = t.off
  BY <1>2, <1>3, <1>9, <1>13
<1> QED BY <1>3, <1>10, <1>12, <1>13, <1>14

(***************************************************************************)
(* The order of the indications.                                           *)
(***************************************************************************)
Rec == [id : Entity, n : Nat, len : Nat, before : Nat, total : Nat,
        first : BOOLEAN, last : BOOLEAN, rnr : BOOLEAN]

Types ==
  /\ known \subseteq Entity
  /\ RCurrent \in [Entity -> Nat] /\ ROffset \in [Entity -> Int]
  /\ RNR \in [Entity -> {0, 2}] /\ R \in [Entity -> Seq(Nat)]
  /\ IndMem \in Seq(Rec) /\ irq \in BOOLEAN /\ k \in Nat /\ k >= 1
  /\ RNRId \in Entity \cup {NULL}
  /\ cardInd \in [Entity -> Seq(Rec)] /\ sent \in [Entity -> Nat]
  /\ got \in [Entity -> Seq(Nat)] /\ forgot \subseteq Entity

\* The indications of x among M that it has still to take: those the loop has
\* not come to, from h on, and those refused.
Waits(M, h, x) == {j \in DOMAIN M : M[j].id = x /\ (j >= h \/ M[j].rnr)}

\* x has taken t of s indications; the others wait in M, in their order and
\* each once, and after them those that q has.
Line(x, M, h, q, s, t) ==
  /\ t + Len(q) <= s
  /\ \A j \in DOMAIN q : q[j].id = x /\ q[j].n = (s - Len(q)) + j
  /\ \A j \in Waits(M, h, x) : M[j].n \in t + 1 .. s - Len(q)
  /\ \A n \in t + 1 .. s - Len(q) : \E j \in Waits(M, h, x) : M[j].n = n
  /\ \A i, j \in Waits(M, h, x) : i < j => M[i].n < M[j].n

\* pr_dpc's loop: RNRId is the Id of the indication handled last if that was
\* refused, and a refused one holds back those after it.
Loop ==
  /\ k <= Len(IndMem) + 1 /\ (~irq => k = 1)
  /\ RNRId = IF k > 1 /\ IndMem[k - 1].rnr THEN IndMem[k - 1].id ELSE NULL
  /\ \A j \in DOMAIN IndMem : IndMem[j].rnr => j < k
  /\ \A i, j \in DOMAIN IndMem :
       /\ i < j /\ j < k /\ IndMem[i].rnr
       /\ IndMem[j].id = IndMem[i].id /\ IndMem[i].id \notin forgot
       => IndMem[j].rnr

\* The card has indications of x for x only.
Ids(q, x) == q \in Seq(Rec) /\ \A j \in 1 .. Len(q) : q[j].id = x
Own == \A x \in Entity : Ids(cardInd[x], x)

LineInv ==
  /\ Types /\ Loop /\ InOrder /\ Own
  /\ \A x \in known \ forgot : Line(x, IndMem, k, cardInd[x], sent[x], Len(got[x]))
  /\ \A x \in Entity \ known : cardInd[x] = <<>>

\* A line is what waits, in which order.
LEMMA LineSame ==
  ASSUME NEW x, NEW M, NEW N, NEW h, NEW i, NEW q, NEW s, NEW t,
         Line(x, M, h, q, s, t), Waits(N, i, x) = Waits(M, h, x),
         \A j \in Waits(M, h, x) : N[j].n = M[j].n
  PROVE  Line(x, N, i, q, s, t)
BY DEF Line

\* The indications of an interrupt that the loop is about to handle.
LEMMA AtInd ==
  ASSUME LineInv, k <= Len(IndMem)
  PROVE  /\ k \in DOMAIN IndMem /\ Ind \in Rec /\ Ind = IndMem[k] /\ IndMem[k].rnr = FALSE
         /\ \A j \in DOMAIN IndMem : j \in Nat /\ j >= 1 /\ j <= Len(IndMem) /\ IndMem[j] \in Rec
<1>1. IndMem \in Seq(Rec) /\ k \in Nat /\ k >= 1
  BY DEF LineInv, Types
<1>2. \A j : j \in DOMAIN IndMem <=> j \in 1 .. Len(IndMem)
  BY <1>1, LenProperties, Zenon
<1>3. Len(IndMem) \in Nat
  BY <1>1
<1>4. k \in DOMAIN IndMem
  BY <1>1, <1>2, <1>3
<1>5. \A j \in DOMAIN IndMem : IndMem[j] \in Rec
  BY <1>1, <1>2, ElementOfSeq
<1>6. Ind = IndMem[k] /\ Ind \in Rec
  BY <1>4, <1>5 DEF Ind
<1>7. IndMem[k].rnr = FALSE
  <2>1. IndMem[k].rnr \in BOOLEAN /\ (IndMem[k].rnr => k < k)
    BY <1>4, <1>5 DEF LineInv, Loop, Rec
  <2> QED BY <1>1, <2>1
<1> QED BY <1>2, <1>3, <1>4, <1>5, <1>6, <1>7

\* One refused holds back those of the same Id after it, if pr_dpc has not
\* forgotten it.
LEMMA HeldBack ==
  ASSUME LineInv, k <= Len(IndMem), NEW i \in DOMAIN IndMem, i < k, IndMem[i].rnr,
         IndMem[i].id = IndMem[k].id, IndMem[k].id \notin forgot, ~Forgets(IndMem[k].id)
  PROVE  RNRId = IndMem[k].id
<1>1. k \in Nat /\ k \in DOMAIN IndMem /\ \A j : j \in DOMAIN IndMem <=> j \in 1 .. Len(IndMem)
  <2>1. IndMem \in Seq(Rec) /\ k \in Nat
    BY DEF LineInv, Types
  <2>2. \A j : j \in DOMAIN IndMem <=> j \in 1 .. Len(IndMem)
    BY <2>1, LenProperties, Zenon
  <2> QED BY <2>1, <2>2, AtInd
<1>2. PICK h \in Int : h = k - 1
  BY <1>1
<1>3. h \in DOMAIN IndMem /\ k > 1 /\ h < k /\ (i = h \/ i < h)
  <2>1. IndMem \in Seq(Rec)
    BY DEF LineInv, Types
  <2>2. Len(IndMem) \in Nat
    BY <2>1
  <2> QED BY <1>1, <1>2, <2>2
<1>4. IndMem[h].id = IndMem[k].id
  <2>1. CASE i < h
    <3>1. i \in 1 .. (k - 1) /\ h \in 1 .. (k - 1)
      <4>1. i \in Nat /\ i >= 1
        BY AtInd
      <4> QED BY <1>1, <1>2, <2>1, <4>1
    <3> QED BY <2>1, <3>1 DEF Forgets
  <2> QED BY <1>3, <2>1
<1>5. IndMem[h].rnr
  <2>1. CASE i < h
    BY <1>1, <1>3, <1>4, <2>1 DEF LineInv, Loop
  <2> QED BY <1>3, <2>1
<1> QED BY <1>2, <1>3, <1>4, <1>5 DEF LineInv, Loop

\* One that is not held back is the next of its entity.
LEMMA NextInLine ==
  ASSUME LineInv, k <= Len(IndMem), NEW x \in known, IndMem[k].id = x, RNRId # x,
         x \notin forgot, ~Forgets(x)
  PROVE  IndMem[k].n = Len(got[x]) + 1
<1>1. PICK t \in Nat : t = Len(got[x])
  <2>1. got[x] \in Seq(Nat)
    BY DEF LineInv, Types
  <2> QED BY <2>1
<1>2. PICK u \in Int : u = sent[x] - Len(cardInd[x])
  <2>1. sent[x] \in Nat /\ cardInd[x] \in Seq(Rec)
    BY DEF LineInv, Types
  <2> QED BY <2>1
<1> DEFINE W == Waits(IndMem, k, x)
<1>3. /\ \A j \in W : IndMem[j].n \in t + 1 .. u
      /\ \A n \in t + 1 .. u : \E j \in W : IndMem[j].n = n
      /\ \A i, j \in W : i < j => IndMem[i].n < IndMem[j].n
  <2>1. Line(x, IndMem, k, cardInd[x], sent[x], Len(got[x]))
    BY DEF LineInv
  <2>2. Line(x, IndMem, k, cardInd[x], sent[x], t)
    BY <1>1, <2>1
  <2> QED BY <1>2, <2>2 DEF Line
<1>4. /\ k \in DOMAIN IndMem /\ k \in Nat
      /\ \A j \in DOMAIN IndMem : j \in Nat /\ j >= 1
  BY AtInd DEF LineInv, Types
<1>5. k \in W
  BY <1>4 DEF Waits
<1>6. IndMem[k].n \in t + 1 .. u /\ IndMem[k].n \in Int
  BY <1>3, <1>5
<1>7. PICK i \in W : IndMem[i].n = t + 1
  <2>1. t + 1 \in t + 1 .. u
    BY <1>6
  <2> QED BY <1>3, <2>1
<1>8. i \in DOMAIN IndMem /\ IndMem[i].id = x /\ (i >= k \/ IndMem[i].rnr) /\ i \in Nat /\ i >= 1
  BY <1>4 DEF Waits
<1>9. CASE i > k
  <2>1. IndMem[k].n < t + 1
    BY <1>3, <1>5, <1>7, <1>9
  <2> QED BY <1>6, <2>1
<1>10. CASE i < k
  <2>1. IndMem[i].rnr
    BY <1>4, <1>8, <1>10
  <2> QED BY <1>8, <1>10, <2>1, HeldBack
<1>11. CASE i = k
  BY <1>1, <1>7, <1>11
<1> QED BY <1>4, <1>8, <1>9, <1>10, <1>11

\* What an entity keeps has its type after a copy.
LEMMA CopyIndTypes ==
  ASSUME LineInv, k <= Len(IndMem), NEW x \in Entity, NEW r \in Seq(Nat), NEW cur \in Nat,
         NEW off \in Int, CopyInd(x, r, cur, off)
  PROVE  /\ RCurrent' \in [Entity -> Nat] /\ ROffset' \in [Entity -> Int]
         /\ RNR' \in [Entity -> {0, 2}] /\ R' \in [Entity -> Seq(Nat)]
         /\ known' = known /\ Took(x)
<1>0. PICK at : at = Copy(r, cur, off, Ind.len)
  OBVIOUS
<1>a. at[1] \in Nat /\ at[2] \in Int
  <2>1. Ind.len \in Int
    BY AtInd DEF Rec
  <2> QED BY <1>0, <2>1, CopyPlace
<1>b. PICK pass \in {0, 1} :
        /\ R' = [R EXCEPT ![x] = r]
        /\ ROffset' = [ROffset EXCEPT ![x] = at[2]]
        /\ RCurrent' = [RCurrent EXCEPT ![x] = IF Ind.last THEN 255 ELSE at[1] + pass]
        /\ known' = known /\ RNR' = RNR /\ Took(x)
  BY <1>0 DEF CopyInd
<1>1. PICK c \in Nat, o \in Int : c = at[1] + pass /\ o = at[2]
  <2>1. at[1] + pass \in Nat
    BY <1>a
  <2> QED BY <1>a, <2>1
<1>2. /\ R' = [R EXCEPT ![x] = r]
      /\ ROffset' = [ROffset EXCEPT ![x] = o]
      /\ RCurrent' = [RCurrent EXCEPT ![x] = IF Ind.last THEN 255 ELSE c]
      /\ known' = known /\ RNR' = RNR /\ Took(x)
  BY <1>b, <1>1
<1>3. /\ RCurrent \in [Entity -> Nat] /\ ROffset \in [Entity -> Int]
      /\ RNR \in [Entity -> {0, 2}] /\ R \in [Entity -> Seq(Nat)]
  BY DEF LineInv, Types
<1>4. (IF Ind.last THEN 255 ELSE c) \in Nat
  OBVIOUS
<1> QED BY <1>1, <1>2, <1>3, <1>4

\* A turn of the loop: an indication is refused, taken, or of nobody.
Refused(x) == IndMem' = [IndMem EXCEPT ![k].rnr = TRUE] /\ RNRId' = x /\ got' = got
Taken(x) == x \in known /\ RNRId # x /\ IndMem' = IndMem /\ RNRId' = NULL /\ Took(x)
Nobodys(x) == x \notin known /\ RNRId # x /\ IndMem' = IndMem /\ RNRId' = NULL /\ got' = got

\* What a turn of the loop does with the shared memory.
LEMMA HandleTurn ==
  ASSUME LineInv, Handle, Offers \subseteq Seq(Nat)
  PROVE  /\ irq /\ k <= Len(IndMem) /\ k' = k + 1
         /\ UNCHANGED <<irq, cardInd, sent, known>>
         /\ RCurrent' \in [Entity -> Nat] /\ ROffset' \in [Entity -> Int]
         /\ RNR' \in [Entity -> {0, 2}] /\ R' \in [Entity -> Seq(Nat)]
         /\ \E x \in Entity : x = IndMem[k].id /\ (Refused(x) \/ Taken(x) \/ Nobodys(x))
<1>1. irq /\ k <= Len(IndMem) /\ k' = k + 1 /\ UNCHANGED <<irq, cardInd, sent>>
  BY DEF Handle
<1>2. PICK x \in Entity : x = Ind.id /\ x = IndMem[k].id
  BY <1>1, AtInd DEF Rec
<1>3. /\ RCurrent \in [Entity -> Nat] /\ ROffset \in [Entity -> Int]
      /\ RNR \in [Entity -> {0, 2}] /\ R \in [Entity -> Seq(Nat)]
  BY DEF LineInv, Types
<1> DEFINE Kept == /\ RCurrent' \in [Entity -> Nat] /\ ROffset' \in [Entity -> Int]
                   /\ RNR' \in [Entity -> {0, 2}] /\ R' \in [Entity -> Seq(Nat)]
                   /\ known' = known
<1>4. host' = host => Kept
  BY <1>3 DEF host
<1>5. ASSUME NEW b \in BOOLEAN, NEW u \in Nat,
             RCurrent' = [RCurrent EXCEPT ![x] = IF b THEN 255 ELSE u],
             RNR' = [RNR EXCEPT ![x] = IF b THEN 0 ELSE 2],
             ROffset' \in [Entity -> Int], R' = R, known' = known
      PROVE  Kept
  <2>1. PICK c \in Nat, e \in {0, 2} : c = (IF b THEN 255 ELSE u) /\ e = IF b THEN 0 ELSE 2
    OBVIOUS
  <2>2. RCurrent' = [RCurrent EXCEPT ![x] = c] /\ RNR' = [RNR EXCEPT ![x] = e]
    BY <1>5, <2>1, Zenon
  <2>3. RCurrent' \in [Entity -> Nat] /\ RNR' \in [Entity -> {0, 2}]
    BY <1>3, <2>2
  <2>4. ROffset' \in [Entity -> Int] /\ R' \in [Entity -> Seq(Nat)] /\ known' = known
    BY <1>3, <1>5
  <2> QED BY <2>3, <2>4
<1>6. Ind.last \in BOOLEAN
  BY <1>1, AtInd DEF Rec
<1>7. \A r \in Seq(Nat), cur \in Nat, off \in Int : CopyInd(x, r, cur, off) => Kept /\ Took(x)
  BY <1>1, CopyIndTypes
<1> HIDE DEF Kept
<1>8. Refuse(x) => Kept /\ Refused(x)
  BY <1>4 DEF Refuse, Refused
<1>9. CASE RNRId = x /\ IndMem' = [IndMem EXCEPT ![k].rnr = TRUE]
           /\ UNCHANGED <<host, RNRId, got, copied, behind>>
  BY <1>1, <1>2, <1>4, <1>9 DEF Kept, Refused
<1>10. CASE RNRId # x /\ x \in known /\ LookAhead(x)
  <2>1. CASE Refuse(x)
    BY <1>1, <1>2, <1>8, <2>1 DEF Kept
  <2>2. CASE Took(x) /\ RNRId' = NULL /\ UNCHANGED <<host, copied, behind, IndMem>>
    BY <1>1, <1>2, <1>4, <1>10, <2>2 DEF Kept, Taken
  <2>3. CASE /\ RCurrent' = [RCurrent EXCEPT ![x] = IF Ind.last THEN 255 ELSE 0]
             /\ ROffset' = [ROffset EXCEPT ![x] = 0]
             /\ RNR' = [RNR EXCEPT ![x] = IF Ind.last THEN 0 ELSE 2]
             /\ Took(x) /\ RNRId' = NULL
             /\ UNCHANGED <<known, R, copied, behind, IndMem>>
    <3>1. PICK z \in Nat : z = 0
      OBVIOUS
    <3>2. RCurrent' = [RCurrent EXCEPT ![x] = IF Ind.last THEN 255 ELSE z]
          /\ ROffset' = [ROffset EXCEPT ![x] = z]
      BY <2>3, <3>1
    <3>3. ROffset' \in [Entity -> Int]
      BY <1>3, <3>2
    <3>4. Kept
      BY <1>5, <1>6, <2>3, <3>2, <3>3
    <3> QED BY <1>1, <1>2, <1>10, <2>3, <3>4 DEF Kept, Taken
  <2>4. CASE /\ \E r \in Offers : Total(r) >= Ind.total /\ CopyInd(x, r, 0, 0)
             /\ RNRId' = NULL /\ UNCHANGED IndMem
    <3>1. PICK r \in Offers : CopyInd(x, r, 0, 0)
      BY <2>4
    <3>2. Kept /\ Took(x)
      BY <1>7, <3>1
    <3> QED BY <1>1, <1>2, <1>10, <2>4, <3>2 DEF Kept, Taken
  <2> QED BY <1>10, <2>1, <2>2, <2>3, <2>4 DEF LookAhead
<1>11. CASE RNRId # x /\ x \in known /\ Continue(x)
  <2>1. RNRId' = NULL /\ IndMem' = IndMem
    BY <1>11 DEF Continue
  <2>2. CASE /\ RCurrent' = [RCurrent EXCEPT ![x] = IF Ind.last THEN 255 ELSE @]
             /\ RNR' = [RNR EXCEPT ![x] = IF Ind.last THEN 0 ELSE 2]
             /\ Took(x) /\ UNCHANGED <<known, ROffset, R, copied, behind>>
    <3>1. PICK u \in Nat : u = RCurrent[x]
      BY <1>3
    <3>2. RCurrent' = [RCurrent EXCEPT ![x] = IF Ind.last THEN 255 ELSE u]
      BY <2>2, <3>1
    <3>3. Kept
      BY <1>3, <1>5, <1>6, <2>2, <3>2
    <3> QED BY <1>1, <1>2, <1>11, <2>1, <2>2, <3>3 DEF Kept, Taken
  <2>3. CASE CopyInd(x, R[x], RCurrent[x], ROffset[x])
    <3>1. R[x] \in Seq(Nat) /\ RCurrent[x] \in Nat /\ ROffset[x] \in Int
      BY <1>3
    <3>2. Kept /\ Took(x)
      BY <1>7, <2>3, <3>1
    <3> QED BY <1>1, <1>2, <1>11, <2>1, <3>2 DEF Kept, Taken
  <2> QED BY <1>11, <2>2, <2>3 DEF Continue
<1>12. CASE RNRId # x /\ x \notin known /\ RNRId' = NULL /\ UNCHANGED <<host, IndMem, got, copied, behind>>
  BY <1>1, <1>2, <1>4, <1>12 DEF Kept, Nobodys
<1> QED BY <1>2, <1>9, <1>10, <1>11, <1>12 DEF Handle

\* What a turn of the loop forgets.
LEMMA HandleForgets ==
  ASSUME LineInv, Handle
  PROVE  /\ forgot \subseteq forgot' /\ forgot' \subseteq Entity
         /\ \A y : y # IndMem[k].id => (y \in forgot' <=> y \in forgot)
         /\ IndMem[k].id \notin forgot' => ~Forgets(IndMem[k].id)
<1>1. k <= Len(IndMem)
  BY DEF Handle
<1>2. PICK x \in Entity : x = Ind.id /\ x = IndMem[k].id
  BY <1>1, AtInd DEF Rec
<1>3. forgot' = IF Forgets(x) THEN forgot \cup {x} ELSE forgot
  BY <1>2 DEF Handle
<1>4. forgot \subseteq Entity
  BY DEF LineInv, Types
<1> QED BY <1>2, <1>3, <1>4

\* The memory after a refusal.
LEMMA RefusedMem ==
  ASSUME LineInv, k <= Len(IndMem), IndMem' = [IndMem EXCEPT ![k].rnr = TRUE]
  PROVE  /\ IndMem' \in Seq(Rec) /\ DOMAIN IndMem' = DOMAIN IndMem /\ Len(IndMem') = Len(IndMem)
         /\ \A j \in DOMAIN IndMem :
              /\ IndMem'[j].rnr <=> (j = k \/ IndMem[j].rnr)
              /\ \E b \in BOOLEAN : IndMem'[j] = [IndMem[j] EXCEPT !.rnr = b]
              /\ IndMem'[j].id = IndMem[j].id /\ IndMem'[j].n = IndMem[j].n
<1>1. PICK a \in Rec, c \in BOOLEAN : a = [IndMem[k] EXCEPT !.rnr = c] /\ c = TRUE
  <2>1. PICK c \in BOOLEAN : c = TRUE
    OBVIOUS
  <2>2. [IndMem[k] EXCEPT !.rnr = c] \in Rec
    BY AtInd DEF Rec
  <2> QED BY <2>1, <2>2
<1>2. IndMem' = [IndMem EXCEPT ![k] = a]
  BY <1>1
<1>3. IndMem \in Seq(Rec) /\ k \in 1 .. Len(IndMem)
  BY AtInd DEF LineInv, Types
<1>4. IndMem' \in Seq(Rec) /\ Len(IndMem') = Len(IndMem)
      /\ \A j \in 1 .. Len(IndMem) : IndMem'[j] = IF j = k THEN a ELSE IndMem[j]
  <2>1. a \in Rec
    BY <1>1
  <2>a. PICK M \in Seq(Rec) : M = IndMem
    BY <1>3
  <2>2. PICK i \in 1 .. Len(M) : M = IndMem /\ i = k
    BY <1>3, <2>a
  <2>3. PICK N : N = IndMem' /\ N = [M EXCEPT ![i] = a]
    BY <1>2, <2>2
  <2>4. N \in Seq(Rec) /\ Len(N) = Len(M) /\ \A j \in 1 .. Len(M) : N[j] = IF j = i THEN a ELSE M[j]
    <3>1. /\ [M EXCEPT ![i] = a] \in Seq(Rec)
          /\ Len([M EXCEPT ![i] = a]) = Len(M)
          /\ \A j \in 1 .. Len(M) : [M EXCEPT ![i] = a][j] = IF j = i THEN a ELSE M[j]
      BY <2>1, ExceptSeq
    <3> QED BY <2>3, <3>1
  <2> QED BY <2>2, <2>3, <2>4
<1>5. DOMAIN IndMem' = DOMAIN IndMem
  BY <1>2
<1>6. ASSUME NEW j \in DOMAIN IndMem
      PROVE  /\ IndMem'[j].rnr <=> (j = k \/ IndMem[j].rnr)
             /\ \E b \in BOOLEAN : IndMem'[j] = [IndMem[j] EXCEPT !.rnr = b]
             /\ IndMem'[j].id = IndMem[j].id /\ IndMem'[j].n = IndMem[j].n
  <2>1. PICK b \in Rec : b = IndMem[j] /\ j \in 1 .. Len(IndMem)
    BY AtInd
  <2>2. PICK d \in BOOLEAN : d = b.rnr /\ b = [b EXCEPT !.rnr = d]
    <3>1. b.rnr \in BOOLEAN /\ b = [b EXCEPT !.rnr = b.rnr]
      BY DEF Rec
    <3> QED BY <3>1
  <2>3. CASE j = k
    <3>1. IndMem'[j] = [b EXCEPT !.rnr = c]
      BY <1>1, <1>4, <2>1, <2>3
    <3>2. IndMem'[j].rnr = c /\ IndMem'[j].id = b.id /\ IndMem'[j].n = b.n
      BY <3>1 DEF Rec
    <3> QED BY <1>1, <2>1, <2>3, <3>1, <3>2
  <2>4. CASE j # k
    <3>1. IndMem'[j] = b
      BY <1>4, <2>1, <2>4
    <3> QED BY <2>1, <2>2, <2>4, <3>1
  <2> QED BY <2>3, <2>4
<1> QED BY <1>4, <1>5, <1>6

\* Who still waits after a turn of the loop: the one that was taken not.
LEMMA HandleWaits ==
  ASSUME LineInv, k <= Len(IndMem), k' = k + 1, NEW x \in Entity, x = IndMem[k].id,
         Refused(x) \/ Taken(x) \/ Nobodys(x)
  PROVE  /\ IndMem' \in Seq(Rec) /\ DOMAIN IndMem' = DOMAIN IndMem /\ Len(IndMem') = Len(IndMem)
         /\ \A j \in DOMAIN IndMem :
              /\ IndMem'[j].rnr <=> IndMem[j].rnr \/ (j = k /\ Refused(x))
              /\ \E b \in BOOLEAN : IndMem'[j] = [IndMem[j] EXCEPT !.rnr = b]
              /\ IndMem'[j].id = IndMem[j].id /\ IndMem'[j].n = IndMem[j].n
         /\ \A y \in known : Waits(IndMem', k', y) =
                               IF y = x /\ ~Refused(x) THEN Waits(IndMem, k, y) \ {k}
                               ELSE Waits(IndMem, k, y)
<1>1. /\ IndMem' \in Seq(Rec) /\ DOMAIN IndMem' = DOMAIN IndMem /\ Len(IndMem') = Len(IndMem)
      /\ \A j \in DOMAIN IndMem :
           /\ IndMem'[j].rnr <=> IndMem[j].rnr \/ (j = k /\ Refused(x))
           /\ \E b \in BOOLEAN : IndMem'[j] = [IndMem[j] EXCEPT !.rnr = b]
           /\ IndMem'[j].id = IndMem[j].id /\ IndMem'[j].n = IndMem[j].n
  <2>1. CASE Refused(x)
    <3>1. IndMem' = [IndMem EXCEPT ![k].rnr = TRUE]
      BY <2>1 DEF Refused
    <3>2. \A j \in DOMAIN IndMem : (j = k \/ IndMem[j].rnr) \in BOOLEAN
      OBVIOUS
    <3> QED BY <2>1, <3>1, <3>2, RefusedMem
  <2>2. CASE ~Refused(x)
    <3>1. IndMem' = IndMem
      BY <2>2 DEF Taken, Nobodys
    <3>2. IndMem \in Seq(Rec)
      BY DEF LineInv, Types
    <3>3. ASSUME NEW j \in DOMAIN IndMem
          PROVE  \E b \in BOOLEAN : IndMem[j] = [IndMem[j] EXCEPT !.rnr = b]
      <4>1. PICK a \in Rec : a = IndMem[j]
        BY AtInd
      <4>2. a.rnr \in BOOLEAN /\ a = [a EXCEPT !.rnr = a.rnr]
        BY DEF Rec
      <4> QED BY <4>1, <4>2
    <3> QED BY <2>2, <3>1, <3>2, <3>3
  <2> QED BY <2>1, <2>2
<1>2. ASSUME NEW y \in known
      PROVE  Waits(IndMem', k', y) = IF y = x /\ ~Refused(x) THEN Waits(IndMem, k, y) \ {k}
                                     ELSE Waits(IndMem, k, y)
  <2>1. ASSUME NEW j \in DOMAIN IndMem
        PROVE  j \in Waits(IndMem', k', y) <=>
                 j \in Waits(IndMem, k, y) /\ ~(j = k /\ y = x /\ ~Refused(x))
    <3>1. j \in Nat /\ k \in Nat
      BY AtInd DEF LineInv, Types
    <3>2. j >= k' <=> j >= k /\ j # k
      BY <3>1
    <3>3. /\ IndMem'[j].rnr <=> IndMem[j].rnr \/ (j = k /\ Refused(x))
          /\ IndMem'[j].id = IndMem[j].id /\ j \in DOMAIN IndMem'
      BY <1>1
    <3>4. CASE j = k
      <4>1. ~IndMem[j].rnr /\ IndMem[j].id = x
        BY <3>4, AtInd
      <4> QED BY <3>1, <3>2, <3>3, <3>4, <4>1 DEF Waits
    <3>5. CASE j # k
      BY <3>2, <3>3, <3>5 DEF Waits
    <3> QED BY <3>4, <3>5
  <2>2. Waits(IndMem', k', y) \subseteq DOMAIN IndMem /\ Waits(IndMem, k, y) \subseteq DOMAIN IndMem
    BY <1>1 DEF Waits
  <2> QED BY <2>1, <2>2
<1> QED BY <1>1, <1>2

\* A turn of the loop keeps the order.
LEMMA HandleLine ==
  ASSUME LineInv, Handle, Offers \subseteq Seq(Nat), NULL \notin Entity
  PROVE  LineInv'
<1>1. /\ irq /\ k <= Len(IndMem) /\ k' = k + 1
      /\ UNCHANGED <<irq, cardInd, sent, known>>
      /\ RCurrent' \in [Entity -> Nat] /\ ROffset' \in [Entity -> Int]
      /\ RNR' \in [Entity -> {0, 2}] /\ R' \in [Entity -> Seq(Nat)]
  BY HandleTurn
<1>2. PICK x \in Entity : x = IndMem[k].id /\ (Refused(x) \/ Taken(x) \/ Nobodys(x))
  BY HandleTurn
<1>3. /\ IndMem' \in Seq(Rec) /\ DOMAIN IndMem' = DOMAIN IndMem /\ Len(IndMem') = Len(IndMem)
      /\ \A j \in DOMAIN IndMem :
           /\ IndMem'[j].rnr <=> IndMem[j].rnr \/ (j = k /\ Refused(x))
           /\ IndMem'[j].id = IndMem[j].id /\ IndMem'[j].n = IndMem[j].n
  BY <1>1, <1>2, HandleWaits
<1>4. \A y \in known : Waits(IndMem', k', y) =
                         IF y = x /\ ~Refused(x) THEN Waits(IndMem, k, y) \ {k}
                         ELSE Waits(IndMem, k, y)
  BY <1>1, <1>2, HandleWaits
<1>5. /\ k \in DOMAIN IndMem /\ k \in Nat /\ k >= 1 /\ Len(IndMem) \in Nat /\ Ind = IndMem[k]
      /\ \A j \in DOMAIN IndMem : j \in Nat
      /\ IndMem[k].rnr = FALSE /\ IndMem[k].n \in Nat
  <2>1. IndMem \in Seq(Rec) /\ k \in Nat /\ k >= 1
    BY DEF LineInv, Types
  <2>2. Len(IndMem) \in Nat
    BY <2>1
  <2>3. k \in DOMAIN IndMem /\ Ind = IndMem[k] /\ Ind \in Rec /\ IndMem[k].rnr = FALSE
        /\ \A j \in DOMAIN IndMem : j \in Nat
    BY <1>1, AtInd
  <2> QED BY <2>1, <2>2, <2>3 DEF Rec
<1>6. PICK t \in [Entity -> Nat] : \A y \in Entity : got[y] \in Seq(Nat) /\ t[y] = Len(got[y])
  <2>1. \A y \in Entity : got[y] \in Seq(Nat)
    BY DEF LineInv, Types
  <2>2. \A y \in Entity : Len(got[y]) \in Nat
    BY <2>1
  <2>3. [y \in Entity |-> Len(got[y])] \in [Entity -> Nat]
    BY <2>2
  <2> QED BY <2>1, <2>3
<1>f. /\ forgot \subseteq forgot' /\ forgot' \subseteq Entity
      /\ \A y : y # x => (y \in forgot' <=> y \in forgot)
      /\ x \notin forgot' => ~Forgets(x) /\ x \notin forgot
  BY <1>2, HandleForgets
<1>e. PICK e \in Nat : e = IndMem[k].n
  BY <1>5
<1>7. Taken(x) => /\ x \notin forgot' => e = t[x] + 1
                  /\ got' = [got EXCEPT ![x] = Append(got[x], e)]
  <2> SUFFICES ASSUME Taken(x) PROVE /\ x \notin forgot' => e = t[x] + 1
                                     /\ got' = [got EXCEPT ![x] = Append(got[x], e)]
    OBVIOUS
  <2>1. x \notin forgot' => IndMem[k].n = Len(got[x]) + 1
    BY <1>1, <1>2, <1>f, NextInLine DEF Taken
  <2>2. got' = [got EXCEPT ![x] = Append(got[x], IndMem[k].n)]
    BY <1>5 DEF Taken, Took
  <2> QED BY <1>6, <1>e, <2>1, <2>2
<1>8. /\ got \in [Entity -> Seq(Nat)]
      /\ \A y \in Entity \ forgot' : \A n \in DOMAIN got[y] : got[y][n] = n
  BY <1>f DEF LineInv, Types, InOrder
<1>9. /\ got' \in [Entity -> Seq(Nat)]
      /\ \A y \in Entity : /\ ~(Taken(x) /\ y = x) => got'[y] = got[y]
                           /\ Taken(x) /\ y = x => got'[y] = Append(got[y], e)
  <2>1. CASE Taken(x)
    <3>1. PICK b \in Seq(Nat) : b = Append(got[x], e)
      BY <1>6, AppendProperties
    <3>2. got' = [got EXCEPT ![x] = b]
      BY <1>7, <2>1, <3>1
    <3> QED BY <1>8, <2>1, <3>1, <3>2
  <2>2. CASE ~Taken(x)
    <3>1. got' = got
      BY <1>2, <2>2 DEF Refused, Nobodys
    <3> QED BY <1>8, <2>2, <3>1
  <2> QED BY <2>1, <2>2
<1>10. InOrder'
  <2> SUFFICES ASSUME NEW y \in Entity \ forgot', NEW n \in DOMAIN got'[y] PROVE got'[y][n] = n
    BY DEF InOrder
  <2>1. CASE ~(Taken(x) /\ y = x)
    BY <1>8, <1>9, <2>1
  <2>2. CASE Taken(x) /\ y = x
    <3>a. e = t[y] + 1
      BY <1>7, <2>2
    <3>1. got'[y] = Append(got[y], t[y] + 1) /\ got[y] \in Seq(Nat) /\ t[y] = Len(got[y]) /\ t[y] \in Nat
      BY <1>6, <1>9, <2>2, <3>a
    <3>2. \A i : i \in DOMAIN got[y] <=> i \in 1 .. t[y]
      BY <3>1, LenProperties, Zenon
    <3>3. PICK p, q \in Seq(Nat) : p = got[y] /\ q = Append(p, t[y] + 1) /\ q = got'[y]
      <4>1. t[y] + 1 \in Nat
        BY <3>1
      <4>2. Append(got[y], t[y] + 1) \in Seq(Nat)
        BY <3>1, <4>1, AppendProperties
      <4> QED BY <3>1, <4>2
    <3>4. Len(q) = t[y] + 1 /\ q[t[y] + 1] = t[y] + 1 /\ \A i \in 1 .. t[y] : q[i] = p[i]
      BY <3>1, <3>3
    <3>5. n \in 1 .. t[y] + 1
      <4>1. \A i : i \in DOMAIN q <=> i \in 1 .. Len(q)
        BY LenProperties, Zenon
      <4> QED BY <3>3, <3>4, <4>1
    <3>6. n = t[y] + 1 \/ n \in 1 .. t[y]
      BY <3>1, <3>5
    <3> QED BY <1>8, <3>2, <3>3, <3>4, <3>6
  <2> QED BY <2>1, <2>2
<1>11. RNRId' = IF Refused(x) THEN x ELSE NULL
  BY <1>2 DEF Refused, Taken, Nobodys
<1>12. Types'
  <2>1. /\ known \subseteq Entity /\ irq \in BOOLEAN
        /\ cardInd \in [Entity -> Seq(Rec)] /\ sent \in [Entity -> Nat]
    BY DEF LineInv, Types
  <2>2. k' \in Nat /\ k' >= 1
    BY <1>1, <1>5
  <2>3. RNRId' \in Entity \cup {NULL}
    BY <1>11
  <2> QED BY <1>1, <1>3, <1>9, <1>f, <2>1, <2>2, <2>3 DEF Types
<1>13. Loop'
  <2>1. k' <= Len(IndMem') + 1 /\ (~irq' => k' = 1)
    BY <1>1, <1>3, <1>5
  <2>2. RNRId' = IF k' > 1 /\ IndMem'[k' - 1].rnr THEN IndMem'[k' - 1].id ELSE NULL
    <3>1. k' - 1 = k /\ k' > 1
      BY <1>1, <1>5
    <3>2. (IndMem'[k].rnr <=> Refused(x)) /\ IndMem'[k].id = x
      BY <1>2, <1>3, <1>5
    <3> QED BY <1>11, <3>1, <3>2
  <2>3. \A j \in DOMAIN IndMem' : IndMem'[j].rnr => j < k'
    <3>1. \A j \in DOMAIN IndMem : IndMem[j].rnr => j < k
      BY DEF LineInv, Loop
    <3>2. ASSUME NEW j \in DOMAIN IndMem, j < k \/ j = k PROVE j < k + 1
      BY <1>5, <3>2
    <3> QED BY <1>1, <1>3, <3>1, <3>2
  <2>4. ASSUME NEW i \in DOMAIN IndMem', NEW j \in DOMAIN IndMem',
               i < j, j < k', IndMem'[i].rnr, IndMem'[j].id = IndMem'[i].id,
               IndMem'[i].id \notin forgot'
        PROVE  IndMem'[j].rnr
    <3>a. i \in DOMAIN IndMem /\ j \in DOMAIN IndMem /\ i # k /\ IndMem[i].rnr
          /\ IndMem[j].id = IndMem[i].id /\ (j = k \/ j < k)
      BY <1>1, <1>3, <1>5, <2>4
    <3>b. IndMem[i].id \notin forgot' /\ IndMem[i].id \notin forgot
      BY <1>3, <1>f, <2>4, <3>a
    <3>1. i \in DOMAIN IndMem /\ j \in DOMAIN IndMem /\ i # k /\ IndMem[i].rnr
          /\ IndMem[j].id = IndMem[i].id /\ (j = k \/ j < k) /\ IndMem[i].id \notin forgot
      BY <3>a, <3>b
    <3>2. CASE j < k
      <4>1. IndMem[j].rnr
        BY <2>4, <3>1, <3>2 DEF LineInv, Loop
      <4> QED BY <1>3, <3>1, <4>1
    <3>3. CASE j = k
      <4>a. x \notin forgot /\ ~Forgets(x) /\ i < k
        BY <1>2, <1>f, <2>4, <3>1, <3>3, <3>b
      <4>1. RNRId = x
        BY <1>1, <1>2, <2>4, <3>1, <3>3, <4>a, HeldBack
      <4>2. Refused(x)
        BY <1>2, <4>1 DEF Taken, Nobodys
      <4> QED BY <1>3, <1>5, <3>3, <4>2
    <3> QED BY <3>1, <3>2, <3>3
  <2> QED BY <2>1, <2>2, <2>3, <2>4 DEF Loop
<1>14. ASSUME NEW y \in known' \ forgot'
       PROVE  Line(y, IndMem', k', cardInd'[y], sent'[y], Len(got'[y]))
  <2>1. y \in known /\ y \in Entity /\ cardInd' = cardInd /\ sent' = sent /\ y \notin forgot
    BY <1>1, <1>f DEF LineInv, Types
  <2>2. Line(y, IndMem, k, cardInd[y], sent[y], t[y])
    BY <1>6, <2>1 DEF LineInv
  <2>3. CASE ~(Taken(x) /\ y = x)
    <3>1. Waits(IndMem', k', y) = Waits(IndMem, k, y)
      BY <1>2, <1>4, <2>1, <2>3 DEF Nobodys
    <3>2. Len(got'[y]) = t[y]
      BY <1>6, <1>9, <2>1, <2>3
    <3>3. \A j \in Waits(IndMem, k, y) : IndMem'[j].n = IndMem[j].n
      BY <1>3 DEF Waits
    <3>4. Line(y, IndMem', k', cardInd[y], sent[y], t[y])
      BY <2>2, <3>1, <3>3, LineSame
    <3> QED BY <2>1, <3>2, <3>4
  <2>4. CASE Taken(x) /\ y = x
    <3>b. e = t[y] + 1
      BY <1>7, <2>4
    <3>1. Len(got'[y]) = t[y] + 1 /\ t[y] \in Nat
      <4>1. got'[y] = Append(got[y], e) /\ got[y] \in Seq(Nat) /\ t[y] = Len(got[y]) /\ t[y] \in Nat
        BY <1>6, <1>9, <2>1, <2>4
      <4>2. Len(got'[y]) = Len(got[y]) + 1
        BY <4>1, AppendProperties
      <4> QED BY <4>1, <4>2
    <3>2. Waits(IndMem', k', y) = Waits(IndMem, k, y) \ {k} /\ IndMem' = IndMem
      <4>1. IndMem' = IndMem
        BY <2>4 DEF Taken
      <4>2. ~Refused(x)
        <5>1. IndMem'[k].rnr = FALSE
          BY <1>5, <4>1
        <5> QED BY <1>3, <1>5, <5>1
      <4> QED BY <1>4, <2>1, <2>4, <4>1, <4>2
    <3>3. k \in Waits(IndMem, k, y) /\ IndMem[k].n = t[y] + 1
      BY <1>2, <1>5, <1>e, <2>4, <3>b DEF Waits
    <3>a. PICK W : W = Waits(IndMem, k, y)
      OBVIOUS
    <3>4. PICK u \in Int : W = Waits(IndMem, k, y) /\ u = sent[y] - Len(cardInd[y])
      <4>1. sent[y] \in Nat /\ cardInd[y] \in Seq(Rec)
        BY <2>1 DEF LineInv, Types
      <4> QED BY <3>a, <4>1
    <3>5. /\ t[y] + Len(cardInd[y]) <= sent[y]
          /\ \A j \in DOMAIN cardInd[y] : cardInd[y][j].id = y
                                          /\ cardInd[y][j].n = (sent[y] - Len(cardInd[y])) + j
          /\ \A j \in W : IndMem[j].n \in t[y] + 1 .. u
          /\ \A n \in t[y] + 1 .. u : \E j \in W : IndMem[j].n = n
          /\ \A i, j \in W : i < j => IndMem[i].n < IndMem[j].n
      BY <2>2, <3>4 DEF Line
    <3>6. W \subseteq DOMAIN IndMem
      BY <3>4 DEF Waits
    <3>7. ASSUME NEW j \in W \ {k} PROVE IndMem[j].n \in t[y] + 2 .. u
      <4>1. j \in Nat /\ k \in Nat /\ k \in W /\ (j < k \/ k < j)
        BY <1>5, <3>3, <3>4, <3>6
      <4>2. IndMem[j].n \in t[y] + 1 .. u /\ IndMem[j].n # t[y] + 1
        BY <3>3, <3>5, <4>1
      <4> QED BY <3>1, <3>4, <4>2
    <3>8. \A n \in t[y] + 2 .. u : \E j \in W \ {k} : IndMem[j].n = n
      <4> SUFFICES ASSUME NEW n \in t[y] + 2 .. u PROVE \E j \in W \ {k} : IndMem[j].n = n
        OBVIOUS
      <4>1. n \in t[y] + 1 .. u /\ n # t[y] + 1
        BY <3>1, <3>4
      <4> QED BY <3>3, <3>5, <4>1
    <3>9. t[y] + 1 + Len(cardInd[y]) <= sent[y]
      <4>1. t[y] + 1 <= u
        BY <3>1, <3>3, <3>4, <3>5
      <4>2. sent[y] \in Nat /\ cardInd[y] \in Seq(Rec)
        BY <2>1 DEF LineInv, Types
      <4>3. Len(cardInd[y]) \in Nat
        BY <4>2
      <4> QED BY <3>1, <3>4, <4>1, <4>2, <4>3
    <3>10. PICK v \in Nat : v = t[y] + 1 /\ v + 1 = t[y] + 2
      BY <3>1
    <3>11. Line(y, IndMem, k', cardInd[y], sent[y], v)
      <4>1. v + Len(cardInd[y]) <= sent[y]
        BY <3>9, <3>10
      <4>2. /\ \A j \in W \ {k} : IndMem[j].n \in v + 1 .. u
            /\ \A n \in v + 1 .. u : \E j \in W \ {k} : IndMem[j].n = n
        BY <3>7, <3>8, <3>10
      <4>3. \A i, j \in W \ {k} : i < j => IndMem[i].n < IndMem[j].n
        BY <3>5
      <4>4. Waits(IndMem, k', y) = W \ {k}
        BY <3>2, <3>4
      <4> QED BY <3>4, <3>5, <4>1, <4>2, <4>3, <4>4 DEF Line
    <3> QED BY <2>1, <3>1, <3>2, <3>10, <3>11
  <2> QED BY <2>3, <2>4
<1>15. \A y \in Entity \ known' : cardInd'[y] = <<>>
  BY <1>1 DEF LineInv
<1>16. Own'
  BY <1>1 DEF LineInv, Own
<1> QED BY <1>10, <1>12, <1>13, <1>14, <1>15, <1>16 DEF LineInv

\* num numbers the elements of B a .. b.
Numbers(B, num, a, b) ==
  /\ \A i \in B : num[i] \in a .. b
  /\ \A i, j \in B : num[i] = num[j] => i = j
  /\ \A n \in a .. b : \E i \in B : num[i] = n

\* A set counted by numbers a .. b.
LEMMA Count ==
  ASSUME NEW B, NEW num, NEW a \in Int, NEW b \in Int, a <= b + 1, Numbers(B, num, a, b)
  PROVE  Cardinality(B) = b - a + 1
<1> DEFINE f == [i \in B |-> num[i]]
<1>1. f \in [B -> a .. b] /\ \A i \in B : f[i] = num[i]
  BY DEF Numbers
<1> HIDE DEF f
<1>2. f \in Bijection(B, a .. b)
  <2>1. \A i, j \in B : f[i] = f[j] => i = j
    BY <1>1 DEF Numbers
  <2>2. \A n \in a .. b : \E i \in B : f[i] = n
    BY <1>1 DEF Numbers
  <2> QED BY <1>1, <2>1, <2>2 DEF Bijection, Injection, Surjection, IsInjective
<1>3. IsFiniteSet(a .. b) /\ Cardinality(a .. b) = b - a + 1
  <2>1. IsFiniteSet(a .. b) /\ Cardinality(a .. b) = IF a > b THEN 0 ELSE b - a + 1
    BY FS_Interval
  <2>2. a > b => b - a + 1 = 0
    OBVIOUS
  <2> QED BY <2>1, <2>2
<1>4. IsFiniteSet(B) /\ Cardinality(B) = Cardinality(a .. b)
  <2>1. f \in Injection(B, a .. b) /\ f \in Surjection(B, a .. b)
    BY <1>2 DEF Bijection
  <2> QED BY <1>3, <2>1, FS_Injection
<1> QED BY <1>3, <1>4

\* num numbers the elements of D t + 1 .. u in their order.
InTurn(D, num, t, u) ==
  /\ D \subseteq Nat /\ t <= u
  /\ \A i \in D : num[i] \in t + 1 .. u
  /\ \A n \in t + 1 .. u : \E i \in D : num[i] = n
  /\ \A i, j \in D : i < j => num[i] < num[j]

\* The j-th element of D.
Nth(D, j) == CHOOSE i \in D : Cardinality({h \in D : h <= i}) = j

\* The elements of D counted in their order.
LEMMA Ranked ==
  ASSUME NEW D, NEW num, NEW t \in Int, NEW u \in Int, InTurn(D, num, t, u)
  PROVE  /\ Cardinality(D) = u - t
         /\ \A j \in 1 .. u - t : Nth(D, j) \in D /\ num[Nth(D, j)] = t + j
<1>0. /\ D \subseteq Nat /\ t <= u
      /\ \A i \in D : num[i] \in t + 1 .. u
      /\ \A n \in t + 1 .. u : \E i \in D : num[i] = n
      /\ \A i, j \in D : i < j => num[i] < num[j]
  BY DEF InTurn
<1>1. \A i \in D : i \in Nat /\ num[i] \in Int
  BY <1>0
<1>2. \A i, j \in D : (num[i] = num[j] => i = j) /\ (i <= j <=> num[i] <= num[j])
  <2> SUFFICES ASSUME NEW i \in D, NEW j \in D
               PROVE  (num[i] = num[j] => i = j) /\ (i <= j <=> num[i] <= num[j])
    OBVIOUS
  <2>1. i \in Nat /\ j \in Nat /\ num[i] \in Int /\ num[j] \in Int
    BY <1>1
  <2>2. (i < j => num[i] < num[j]) /\ (j < i => num[j] < num[i])
    BY <1>0
  <2> QED BY <2>1, <2>2
<1>3. Cardinality(D) = u - t
  <2>1. PICK a \in Int : a = t + 1
    OBVIOUS
  <2>2. /\ \A i \in D : num[i] \in a .. u
        /\ \A i, j \in D : num[i] = num[j] => i = j
        /\ \A n \in a .. u : \E i \in D : num[i] = n
    BY <1>0, <1>2, <2>1
  <2>3. a <= u + 1 /\ Numbers(D, num, a, u)
    BY <1>0, <2>1, <2>2 DEF Numbers
  <2>4. Cardinality(D) = u - a + 1
    BY <2>3, Count
  <2> QED BY <2>1, <2>4
<1> DEFINE A(i) == {g \in D : g <= i}
<1>4. ASSUME NEW i \in D PROVE Cardinality(A(i)) = num[i] - t
  <2>1. PICK a, b \in Int : a = t + 1 /\ b = num[i] /\ a <= b /\ b <= u
    <3>1. num[i] \in t + 1 .. u /\ num[i] \in Int
      BY <1>0, <1>1
    <3> QED BY <3>1
  <2>2. PICK B : B = A(i)
    OBVIOUS
  <2>3. \A h : h \in B <=> h \in D /\ num[h] <= b
    BY <1>2, <2>1, <2>2
  <2> HIDE DEF A
  <2>4. \A h \in B : num[h] \in a .. b
    <3> SUFFICES ASSUME NEW h \in B PROVE num[h] \in a .. b
      OBVIOUS
    <3>1. h \in D /\ num[h] <= b /\ num[h] \in Int /\ num[h] \in t + 1 .. u
      BY <1>0, <1>1, <2>3
    <3> QED BY <2>1, <3>1
  <2>5. \A g, h \in B : num[g] = num[h] => g = h
    BY <1>2, <2>3
  <2>6. ASSUME NEW n \in a .. b PROVE \E h \in B : num[h] = n
    <3>1. n \in t + 1 .. u /\ n <= b
      BY <2>1
    <3> QED BY <1>0, <2>3, <3>1
  <2>7. a <= b + 1 /\ Numbers(B, num, a, b)
    BY <2>1, <2>4, <2>5, <2>6 DEF Numbers
  <2>8. Cardinality(B) = b - a + 1
    BY <2>7, Count
  <2> QED BY <2>1, <2>2, <2>8
<1>5. ASSUME NEW j \in 1 .. u - t
      PROVE  Nth(D, j) \in D /\ num[Nth(D, j)] = t + j
  <2>0. PICK h : h = Nth(D, j) /\ h = CHOOSE g \in D : Cardinality(A(g)) = j
    BY Zenon DEF Nth
  <2> HIDE DEF A
  <2>1. t + j \in t + 1 .. u /\ j \in Int
    OBVIOUS
  <2>2. PICK i \in D : num[i] = t + j
    BY <1>0, <2>1
  <2>3. Cardinality(A(i)) = j
    BY <1>4, <2>1, <2>2
  <2>5. h \in D /\ Cardinality(A(h)) = j
    BY <2>0, <2>3
  <2>6. num[h] - t = j /\ num[h] \in Int
    BY <1>1, <1>4, <2>5
  <2>7. num[h] = t + j
    BY <2>1, <2>6
  <2> QED BY <2>0, <2>5, <2>7
<1> QED BY <1>3, <1>5

\* In a finite set of numbers there is a j-th one for every j up to its size.
LEMMA Rank ==
  ASSUME NEW L \in Nat, NEW D, D \subseteq 1 .. L
  PROVE  /\ IsFiniteSet(D)
         /\ \A j \in 1 .. Cardinality(D) : Nth(D, j) \in D
<1> DEFINE A(i) == {g \in D : g <= i}
           Has(n) == \A j \in 1 .. Cardinality(A(n)) : \E i \in D : Cardinality(A(i)) = j
           V == {n \in Nat : n <= L => IsFiniteSet(A(n)) /\ Has(n)}
<1>0. \A g \in D : g \in Int /\ g >= 1 /\ g <= L
  OBVIOUS
<1>1. 0 \in V
  <2>1. A(0) = {}
    <3>1. \A g \in D : ~(g <= 0)
      BY <1>0
    <3>2. \A g : g \notin A(0)
      BY <3>1, Zenon
    <3> QED BY <3>2, Zenon
  <2>2. IsFiniteSet(A(0)) /\ Cardinality(A(0)) = 0
    BY <2>1, FS_EmptySet
  <2>3. 1 .. Cardinality(A(0)) = {}
    BY <2>2
  <2> QED BY <2>2, <2>3
<1>2. ASSUME NEW n \in Nat, n \in V PROVE n + 1 \in V
  <2> SUFFICES ASSUME n + 1 <= L PROVE IsFiniteSet(A(n + 1)) /\ Has(n + 1)
    OBVIOUS
  <2>1. IsFiniteSet(A(n)) /\ Has(n)
    BY <1>2
  <2>2. PICK h \in Nat : h = n + 1
    OBVIOUS
  <2>3. CASE h \in D
    <3>1. A(h) = A(n) \cup {h} /\ h \notin A(n)
      <4>1. h <= h /\ ~(h <= n) /\ \A g \in D : g <= h <=> g <= n \/ g = h
        BY <1>0, <2>2
      <4>2. \A g : g \in A(h) <=> g \in A(n) \cup {h}
        BY <2>3, <4>1, Zenon
      <4>3. h \notin A(n)
        BY <4>1, Zenon
      <4> QED BY <4>2, <4>3, Zenon
    <3>2. IsFiniteSet(A(h)) /\ Cardinality(A(h)) = Cardinality(A(n)) + 1 /\ Cardinality(A(n)) \in Nat
      <4> HIDE DEF A
      <4>1. Cardinality(A(n)) \in Nat
        BY <2>1, FS_CardinalityType
      <4> QED BY <2>1, <3>1, <4>1, FS_AddElement
    <3>3. ASSUME NEW j \in 1 .. Cardinality(A(h)) PROVE \E i \in D : Cardinality(A(i)) = j
      <4> HIDE DEF A
      <4>1. j \in 1 .. Cardinality(A(n)) \/ j = Cardinality(A(h))
        BY <3>2
      <4> QED BY <2>1, <2>3, <4>1
    <3> QED BY <2>2, <3>2, <3>3
  <2>4. CASE h \notin D
    <3>1. A(h) = A(n)
      <4>1. \A g \in D : g <= h <=> g <= n \/ g = h
        BY <1>0, <2>2
      <4>2. \A g : g \in A(h) <=> g \in A(n)
        BY <2>4, <4>1, Zenon
      <4> QED BY <4>2, Zenon
    <3> HIDE DEF A
    <3> QED BY <2>1, <2>2, <3>1
  <2> QED BY <2>3, <2>4
<1> HIDE DEF V
<1>3. Nat \subseteq V
  BY <1>1, <1>2, Induction
<1>4. IsFiniteSet(A(L)) /\ Has(L)
  BY <1>3 DEF V
<1>5. A(L) = D
  BY <1>0
<1>6. ASSUME NEW j \in 1 .. Cardinality(D) PROVE Nth(D, j) \in D
  <2> HIDE DEF A
  <2>1. \E i \in D : Cardinality(A(i)) = j
    BY <1>4, <1>5
  <2> USE DEF A
  <2> QED BY <2>1, Zenon DEF Nth
<1> QED BY <1>4, <1>5, <1>6

\* The card takes indications of x back for x.
LEMMA ReturnedOwn ==
  ASSUME LineInv, NEW x \in Entity
  PROVE  Ids(Returned(x), x)
<1> DEFINE back == {i \in DOMAIN IndMem : IndMem[i].id = x /\ IndMem[i].rnr /\ x \in known}
<1>1. IndMem \in Seq(Rec)
  BY DEF LineInv, Types
<1>2. /\ \A i : i \in DOMAIN IndMem <=> i \in 1 .. Len(IndMem)
      /\ Len(IndMem) \in Nat
      /\ \A i \in DOMAIN IndMem : IndMem[i] \in Rec
  <2>1. \A i : i \in DOMAIN IndMem <=> i \in 1 .. Len(IndMem)
    BY <1>1, LenProperties, Zenon
  <2>2. Len(IndMem) \in Nat
    BY <1>1
  <2> QED BY <1>1, <2>1, <2>2, ElementOfSeq
<1>3. /\ back \subseteq 1 .. Len(IndMem) /\ \A i \in back : IndMem[i] \in Rec /\ IndMem[i].id = x
  BY <1>2
<1> HIDE DEF back
<1>4. IsFiniteSet(back) /\ \A j \in 1 .. Cardinality(back) : Nth(back, j) \in back
  BY <1>2, <1>3, Rank
<1>5. PICK m \in Nat : m = Cardinality(back)
  BY <1>4, FS_CardinalityType
<1>6. PICK r : r = Returned(x)
  OBVIOUS
<1>7. r = [j \in 1 .. m |-> IndMem[Nth(back, j)]]
  BY <1>5, <1>6, Zenon DEF Returned, Nth, back
<1>8. ASSUME NEW j \in 1 .. m PROVE r[j] \in Rec /\ r[j].id = x
  <2>1. PICK i \in back : i = Nth(back, j)
    BY <1>4, <1>5
  <2>2. r[j] = IndMem[i]
    BY <1>7, <2>1, Zenon
  <2> QED BY <1>3, <2>2
<1>9. r \in [1 .. m -> Rec]
  BY <1>7, <1>8
<1>10. r \in Seq(Rec)
  BY <1>9, SeqDef
<1>11. Len(r) = m
  <2>1. DOMAIN r = 1 .. m
    BY <1>9
  <2>2. PICK l \in Nat : l = Len(r) /\ 1 .. l = 1 .. m
    BY <1>10, <2>1, LenProperties, Zenon
  <2> QED BY <2>2
<1> QED BY <1>6, <1>8, <1>10, <1>11 DEF Ids

\* One queue and the next.
LEMMA IdsConcat ==
  ASSUME NEW x, NEW p, NEW q, Ids(p, x), Ids(q, x)
  PROVE  Ids(p \o q, x) /\ Len(p \o q) = Len(p) + Len(q)
<1>1. /\ p \in Seq(Rec) /\ \A j \in 1 .. Len(p) : p[j].id = x
      /\ q \in Seq(Rec) /\ \A j \in 1 .. Len(q) : q[j].id = x
  BY DEF Ids
<1>2. PICK m, n \in Nat : m = Len(p) /\ n = Len(q)
  BY <1>1
<1>3. PICK r : r = p \o q
  OBVIOUS
<1>4. /\ r \in Seq(Rec) /\ Len(r) = m + n
      /\ \A j \in 1 .. m + n : r[j] = IF j <= m THEN p[j] ELSE q[j - m]
  BY <1>1, <1>2, <1>3, ConcatProperties
<1>5. ASSUME NEW j \in 1 .. m + n PROVE r[j].id = x
  <2>1. CASE j <= m
    <3>1. j \in 1 .. m
      BY <2>1
    <3> QED BY <1>1, <1>2, <1>4, <2>1, <3>1
  <2>2. CASE ~(j <= m)
    <3>1. j - m \in 1 .. n
      BY <2>2
    <3>2. PICK i \in 1 .. n : i = j - m
      BY <3>1
    <3> QED BY <1>1, <1>2, <1>4, <2>2, <3>2
  <2> QED BY <2>1, <2>2
<1> QED BY <1>2, <1>3, <1>4, <1>5 DEF Ids

\* Indications of x numbered from a + 1 on.
Row(q, x, a) == q \in Seq(Rec) /\ \A j \in 1 .. Len(q) : q[j].id = x /\ q[j].n = a + j

\* x has taken t indications, and the card still has those after the u-th.
Until(x, t, u) == t = Len(got[x]) /\ u = sent[x] - Len(cardInd[x])

\* The card takes the refused indications of x back in their order: what x has
\* not taken waits with the card then.
LEMMA ReturnedFacts ==
  ASSUME LineInv, k > Len(IndMem), NEW x \in known, x \notin forgot, NEW t \in Nat,
         NEW u \in Int, Until(x, t, u)
  PROVE  /\ Row(Returned(x), x, t) /\ Len(Returned(x)) = u - t /\ u >= t
         /\ \A j \in 1 .. u - t : \E i \in Waits(IndMem, k, x) : Returned(x)[j] = IndMem[i]
<1> DEFINE back == {i \in DOMAIN IndMem : IndMem[i].id = x /\ IndMem[i].rnr /\ x \in known}
           num == [i \in DOMAIN IndMem |-> IndMem[i].n]
<1>1. /\ IndMem \in Seq(Rec) /\ k \in Nat /\ sent[x] \in Nat /\ cardInd[x] \in Seq(Rec)
      /\ Line(x, IndMem, k, cardInd[x], sent[x], t)
  BY DEF LineInv, Types, Until
<1>2. /\ \A i : i \in DOMAIN IndMem <=> i \in 1 .. Len(IndMem)
      /\ Len(IndMem) \in Nat /\ Len(cardInd[x]) \in Nat
      /\ \A i \in DOMAIN IndMem : IndMem[i] \in Rec
  <2>1. \A i : i \in DOMAIN IndMem <=> i \in 1 .. Len(IndMem)
    BY <1>1, LenProperties, Zenon
  <2>2. Len(IndMem) \in Nat /\ Len(cardInd[x]) \in Nat
    BY <1>1
  <2> QED BY <1>1, <2>1, <2>2, ElementOfSeq
<1>3. back = Waits(IndMem, k, x) /\ back \subseteq DOMAIN IndMem /\ back \subseteq Nat
  <2>1. \A i \in DOMAIN IndMem : ~(i >= k) /\ i \in Nat
    BY <1>1, <1>2
  <2> QED BY <2>1 DEF Waits
<1>4. /\ u >= t
      /\ \A i \in back : IndMem[i].n \in t + 1 .. u
      /\ \A n \in t + 1 .. u : \E i \in back : IndMem[i].n = n
      /\ \A i, j \in back : i < j => IndMem[i].n < IndMem[j].n
  <2>1. u >= t
    <3>1. t + Len(cardInd[x]) <= sent[x] /\ u = sent[x] - Len(cardInd[x])
      BY <1>1 DEF Line, Until
    <3> QED BY <1>1, <1>2, <3>1
  <2>2. u = sent[x] - Len(cardInd[x])
    BY DEF Until
  <2> HIDE DEF back
  <2> QED BY <1>1, <1>3, <2>1, <2>2 DEF Line
<1>5. \A i \in back : num[i] = IndMem[i].n
  BY <1>3
<1>6. /\ t <= u
      /\ \A i \in back : num[i] \in t + 1 .. u
      /\ \A n \in t + 1 .. u : \E i \in back : num[i] = n
      /\ \A i, j \in back : i < j => num[i] < num[j]
  <2> HIDE DEF back, num
  <2> QED BY <1>4, <1>5
<1>7. PICK D, f : D = back /\ f = num
  OBVIOUS
<1>8. /\ Cardinality(D) = u - t
      /\ \A j \in 1 .. u - t : Nth(D, j) \in D /\ f[Nth(D, j)] = t + j
  <2> HIDE DEF back, num
  <2>1. InTurn(D, f, t, u)
    BY <1>3, <1>6, <1>7 DEF InTurn
  <2>2. t \in Int
    OBVIOUS
  <2> QED BY <2>1, <2>2, Ranked
<1>9. PICK r : r = Returned(x)
  OBVIOUS
<1>10. PICK m \in Nat : m = u - t
  BY <1>4
<1>11. r = [j \in 1 .. m |-> IndMem[Nth(back, j)]]
  BY <1>7, <1>8, <1>9, <1>10, Zenon DEF Returned, Nth
<1>12. ASSUME NEW j \in 1 .. m
       PROVE  /\ r[j] \in Rec /\ r[j].id = x /\ r[j].n = t + j
              /\ \E i \in Waits(IndMem, k, x) : r[j] = IndMem[i]
  <2> HIDE DEF back, num
  <2>1. PICK i \in back : i = Nth(back, j) /\ num[i] = t + j
    BY <1>7, <1>8, <1>10
  <2>2. r[j] = IndMem[i]
    BY <1>11, <2>1, Zenon
  <2> USE DEF back
  <2> QED BY <1>2, <1>3, <1>5, <2>1, <2>2
<1>13. r \in [1 .. m -> Rec]
  BY <1>11, <1>12
<1>14. r \in Seq(Rec)
  BY <1>13, SeqDef
<1>15. Len(r) = m
  <2>1. DOMAIN r = 1 .. m
    BY <1>13
  <2>2. PICK l \in Nat : l = Len(r) /\ 1 .. l = 1 .. m
    BY <1>14, <2>1, LenProperties, Zenon
  <2> QED BY <2>2
<1> HIDE DEF back, num
<1>16. Row(r, x, t)
  BY <1>12, <1>14, <1>15 DEF Row
<1> QED BY <1>4, <1>9, <1>10, <1>12, <1>15, <1>16

\* One row and the next.
LEMMA RowConcat ==
  ASSUME NEW x, NEW a \in Int, NEW b \in Int, NEW p, NEW q, Row(p, x, a), Row(q, x, b),
         b = a + Len(p)
  PROVE  Row(p \o q, x, a) /\ Len(p \o q) = Len(p) + Len(q)
<1>1. /\ p \in Seq(Rec) /\ \A j \in 1 .. Len(p) : p[j].id = x /\ p[j].n = a + j
      /\ q \in Seq(Rec) /\ \A j \in 1 .. Len(q) : q[j].id = x /\ q[j].n = b + j
  BY DEF Row
<1>2. PICK m, n \in Nat : m = Len(p) /\ n = Len(q) /\ b = a + m
  BY <1>1
<1>3. PICK r : r = p \o q
  OBVIOUS
<1>4. /\ r \in Seq(Rec) /\ Len(r) = m + n
      /\ \A j \in 1 .. m + n : r[j] = IF j <= m THEN p[j] ELSE q[j - m]
  BY <1>1, <1>2, <1>3, ConcatProperties
<1>5. ASSUME NEW j \in 1 .. m + n PROVE r[j].id = x /\ r[j].n = a + j
  <2>1. CASE j <= m
    <3>1. j \in 1 .. m
      BY <2>1
    <3> QED BY <1>1, <1>2, <1>4, <2>1, <3>1
  <2>2. CASE ~(j <= m)
    <3>1. j - m \in 1 .. n
      BY <2>2
    <3>2. PICK i \in 1 .. n : i = j - m
      BY <3>1
    <3>3. r[j] = q[i]
      BY <1>4, <2>2, <3>2
    <3>4. q[i].id = x /\ q[i].n = b + i
      BY <1>1, <1>2, <3>2
    <3>5. b + i = a + j
      BY <1>2, <3>2
    <3> QED BY <3>3, <3>4, <3>5
  <2> QED BY <2>1, <2>2
<1> QED BY <1>2, <1>3, <1>4, <1>5 DEF Row

\* What the card has for x in a line.
LEMMA LineRow ==
  ASSUME NEW x, NEW M, NEW h, NEW q \in Seq(Rec), NEW s \in Int, NEW t, Line(x, M, h, q, s, t),
         NEW l \in Int, l = s - Len(q)
  PROVE  Row(q, x, l)
<1>1. \A j : j \in DOMAIN q <=> j \in 1 .. Len(q)
  BY LenProperties, Zenon
<1> QED BY <1>1 DEF Line, Row

\* A line in which nothing waits.
LEMMA RowLine ==
  ASSUME NEW x, NEW M, NEW h, NEW q, NEW s \in Int, NEW t \in Int, Row(q, x, t),
         t + Len(q) = s, Waits(M, h, x) = {}
  PROVE  Line(x, M, h, q, s, t)
<1>1. q \in Seq(Rec) /\ \A j \in 1 .. Len(q) : q[j].id = x /\ q[j].n = t + j
  BY DEF Row
<1>2. \A j : j \in DOMAIN q <=> j \in 1 .. Len(q)
  BY <1>1, LenProperties, Zenon
<1>3. PICK l \in Nat : l = Len(q)
  BY <1>1
<1>4. s - l = t /\ t + l <= s /\ t + 1 .. s - l = {}
  BY <1>3
<1> QED BY <1>1, <1>2, <1>3, <1>4 DEF Line

\* Nothing goes back to a removed Id.
LEMMA ReturnedNothing ==
  ASSUME NEW x, x \notin known
  PROVE  Returned(x) = <<>>
<1> DEFINE back == {i \in DOMAIN IndMem : IndMem[i].id = x /\ IndMem[i].rnr /\ x \in known}
<1>1. back = {}
  OBVIOUS
<1>2. Cardinality(back) = 0
  BY <1>1, FS_EmptySet
<1> HIDE DEF back
<1>3. Returned(x) = [j \in 1 .. 0 |-> IndMem[Nth(back, j)]]
  BY <1>2, Zenon DEF Returned, Nth, back
<1> QED BY <1>3

\* The end of the loop keeps the order.
LEMMA LoopEndLine ==
  ASSUME LineInv, LoopEnd, NULL \notin Entity
  PROVE  LineInv'
<1>1. /\ irq /\ k > Len(IndMem)
      /\ irq' = FALSE /\ k' = 1 /\ RNRId' = NULL /\ IndMem' = <<>>
      /\ cardInd' = [x \in Entity |-> Returned(x) \o cardInd[x]]
      /\ UNCHANGED <<known, RCurrent, ROffset, RNR, R, sent, got, forgot>>
  BY DEF LoopEnd, host, history
<1>2. Types /\ known \subseteq Entity /\ InOrder
  BY DEF LineInv, Types
<1>3. ASSUME NEW x \in Entity \ known PROVE cardInd'[x] = <<>>
  <2>1. cardInd[x] = <<>> /\ Returned(x) = <<>>
    BY ReturnedNothing DEF LineInv
  <2>2. cardInd'[x] = <<>> \o <<>>
    BY <1>1, <2>1
  <2> QED BY <2>2
<1>o. ASSUME NEW x \in Entity PROVE Ids(cardInd'[x], x)
  <2>1. Ids(cardInd[x], x) /\ Ids(Returned(x), x)
    BY ReturnedOwn DEF LineInv, Own
  <2>2. cardInd'[x] = Returned(x) \o cardInd[x]
    BY <1>1
  <2> QED BY <2>1, <2>2, IdsConcat
<1>4. ASSUME NEW x \in known \ forgot
      PROVE  Line(x, IndMem', k', cardInd'[x], sent'[x], Len(got'[x]))
  <2>1. /\ x \in Entity /\ cardInd[x] \in Seq(Rec) /\ sent[x] \in Nat /\ got[x] \in Seq(Nat)
        /\ Line(x, IndMem, k, cardInd[x], sent[x], Len(got[x]))
    BY <1>2 DEF LineInv, Types
  <2>2. Len(got[x]) \in Nat /\ sent[x] - Len(cardInd[x]) \in Int
    BY <2>1
  <2>3. PICK t \in Nat, u \in Int : t = Len(got[x]) /\ Until(x, t, u)
    BY <2>2 DEF Until
  <2>4. /\ Row(Returned(x), x, t) /\ Len(Returned(x)) = u - t /\ u >= t
    <3>1. k > Len(IndMem)
      BY <1>1
    <3> QED BY <2>3, <3>1, ReturnedFacts
  <2>5. PICK r \in Seq(Rec), m \in Nat : r = Returned(x) /\ Row(r, x, t) /\ Len(r) = m /\ m = u - t
    <3>1. u - t \in Nat
      BY <2>4
    <3> QED BY <2>4, <3>1 DEF Row
  <2>6. u = sent[x] - Len(cardInd[x])
    BY <2>3 DEF Until
  <2>7. Row(cardInd[x], x, u)
    <3>1. PICK s \in Int, q \in Seq(Rec) :
            /\ q = cardInd[x] /\ u = s - Len(q) /\ Line(x, IndMem, k, q, s, Len(got[x]))
      <4>1. PICK s \in Nat : s = sent[x]
        BY <2>1
      <4>2. s \in Int /\ u = s - Len(cardInd[x]) /\ Line(x, IndMem, k, cardInd[x], s, Len(got[x]))
        BY <2>1, <2>6, <4>1
      <4> HIDE DEF LineInv
      <4> QED BY <2>1, <4>2
    <3>2. Row(q, x, u)
      BY <3>1, LineRow
    <3> QED BY <3>1, <3>2
  <2>8. u = t + m /\ u = t + Len(r)
    BY <2>5
  <2>9. Row(r \o cardInd[x], x, t) /\ Len(r \o cardInd[x]) = m + Len(cardInd[x])
    <3>1. t \in Int /\ u \in Int
      OBVIOUS
    <3>2. Row(r \o cardInd[x], x, t) /\ Len(r \o cardInd[x]) = Len(r) + Len(cardInd[x])
      BY <2>5, <2>7, <2>8, <3>1, RowConcat
    <3> QED BY <2>5, <3>2
  <2>10. PICK q : q = cardInd'[x] /\ q = r \o cardInd[x]
    BY <1>1, <2>1, <2>5
  <2>11. PICK s \in Nat : s = sent[x]
    BY <2>1
  <2>12. t + Len(q) = s
    <3>1. Len(cardInd[x]) \in Nat
      BY <2>1
    <3>2. PICK a \in Nat : a = Len(cardInd[x]) /\ Len(q) = m + a /\ u = s - a
      BY <2>6, <2>9, <2>10, <2>11, <3>1
    <3> QED BY <2>8, <3>2
  <2>13. Waits(IndMem', k', x) = {}
    BY <1>1 DEF Waits
  <2>14. Line(x, IndMem', k', q, s, t)
    <3>1. Row(q, x, t) /\ t \in Int /\ s \in Int
      BY <2>9, <2>10
    <3>2. PICK M, h : M = IndMem' /\ h = k' /\ Waits(M, h, x) = {}
      BY <2>13
    <3>3. Line(x, M, h, q, s, t)
      BY <2>12, <3>1, <3>2, RowLine
    <3> QED BY <3>2, <3>3
  <2> QED BY <1>1, <2>1, <2>3, <2>9, <2>10, <2>11, <2>14 DEF Row
<1>5. Types'
  <2>1. \A x \in Entity : cardInd'[x] \in Seq(Rec)
    BY <1>o DEF Ids
  <2>2. cardInd' \in [Entity -> Seq(Rec)]
    BY <1>1, <2>1
  <2>3. IndMem' \in Seq(Rec)
    BY <1>1, EmptySeq
  <2>4. irq' \in BOOLEAN /\ k' \in Nat /\ k' >= 1 /\ RNRId' \in Entity \cup {NULL}
    <3>1. irq' \in BOOLEAN
      BY <1>1, Zenon
    <3>2. RNRId' \in Entity \cup {NULL}
      BY <1>1, Zenon
    <3>3. k' = 1
      BY <1>1
    <3> QED BY <3>1, <3>2, <3>3
  <2>5. /\ known' = known /\ RCurrent' = RCurrent /\ ROffset' = ROffset /\ RNR' = RNR
        /\ R' = R /\ sent' = sent /\ got' = got /\ forgot' = forgot
    BY <1>1
  <2> QED BY <1>2, <2>2, <2>3, <2>4, <2>5 DEF Types
<1>6. Loop'
  <2>1. k' <= Len(IndMem') + 1 /\ ~(k' > 1) /\ DOMAIN IndMem' = {}
    BY <1>1
  <2> QED BY <1>1, <2>1 DEF Loop
<1>7. InOrder'
  BY <1>1, <1>2 DEF InOrder
<1>8. Own'
  BY <1>o DEF Own
<1> QED BY <1>1, <1>3, <1>4, <1>5, <1>6, <1>7, <1>8 DEF LineInv

\* What CardPut does: e, the first of what the card has for x, comes to the end
\* of the memory, and p remains.
Put(x, e, q, p, l, u) ==
  /\ q = cardInd[x] /\ p = Tail(q) /\ l = Len(q) /\ u = sent[x] - l /\ l >= 1
  /\ Len(p) = l - 1 /\ \A j \in 1 .. l - 1 : p[j] = q[j + 1]
  /\ \E b \in BOOLEAN : e = [q[1] EXCEPT !.rnr = b]
  /\ e.rnr = FALSE /\ e.id = x /\ (x \notin forgot => e.n = u + 1)
  /\ IndMem' = Append(IndMem, e) /\ cardInd' = [cardInd EXCEPT ![x] = p]

\* CardPut gives the next indication of x.
LEMMA CardPutFacts ==
  ASSUME LineInv, NEW x \in Entity, CardPut(x)
  PROVE  /\ x \in known /\ k = 1 /\ ~irq
         /\ \E e \in Rec, q, p \in Seq(Rec), l \in Nat, u \in Int : Put(x, e, q, p, l, u)
<1>1. /\ ~irq /\ cardInd[x] # <<>>
      /\ IndMem' = Append(IndMem, [Head(cardInd[x]) EXCEPT !.rnr = FALSE])
      /\ cardInd' = [cardInd EXCEPT ![x] = Tail(cardInd[x])]
  BY DEF CardPut
<1>2. x \in known
  BY <1>1 DEF LineInv
<1>3. k = 1
  BY <1>1 DEF LineInv, Loop
<1>4. /\ cardInd[x] \in Seq(Rec) /\ sent[x] \in Nat /\ Ids(cardInd[x], x)
      /\ x \notin forgot => Line(x, IndMem, k, cardInd[x], sent[x], Len(got[x]))
  BY <1>2 DEF LineInv, Types, Own
<1>5. PICK q \in Seq(Rec), l \in Nat : q = cardInd[x] /\ l = Len(q)
  BY <1>4
<1>6. q # <<>> /\ l >= 1
  <2>1. q # <<>>
    BY <1>1, <1>5
  <2>2. Len(q) # 0
    BY <2>1, EmptySeq
  <2> QED BY <1>5, <2>1, <2>2
<1>7. PICK p \in Seq(Rec) : p = Tail(q) /\ Len(p) = l - 1 /\ \A j \in 1 .. l - 1 : p[j] = q[j + 1]
  <2>1. PICK p \in Seq(Rec) : p = Tail(q) /\ Len(p) = Len(q) - 1
    BY <1>6, HeadTailProperties
  <2>2. \A j \in 1 .. Len(p) : p[j] = q[j + 1]
    BY <1>6, <2>1, HeadTailProperties
  <2> QED BY <1>5, <2>1, <2>2
<1>8. Head(q) = q[1] /\ q[1] \in Rec
  <2>1. 1 \in 1 .. Len(q)
    BY <1>5, <1>6
  <2> QED BY <1>6, <2>1, HeadTailProperties, ElementOfSeq
<1>9. PICK u \in Int : u = sent[x] - l
  BY <1>4
<1>10. q[1].id = x /\ (x \notin forgot => q[1].n = u + 1)
  <2>1. 1 \in DOMAIN q /\ 1 \in 1 .. Len(q)
    <3>1. \A j : j \in DOMAIN q <=> j \in 1 .. Len(q)
      BY LenProperties, Zenon
    <3> QED BY <1>5, <1>6, <3>1
  <2>2. q[1].id = x
    BY <1>4, <1>5, <2>1 DEF Ids
  <2>3. x \notin forgot => q[1].n = u + 1
    BY <1>4, <1>5, <1>9, <2>1 DEF Line
  <2> QED BY <2>2, <2>3
<1>11. PICK a \in Rec, b \in BOOLEAN : a = q[1] /\ b = FALSE
  BY <1>8
<1>12. PICK e \in Rec : e = [a EXCEPT !.rnr = b] /\ e.rnr = b /\ e.id = a.id /\ e.n = a.n
  <2>1. [a EXCEPT !.rnr = b] \in Rec
    BY DEF Rec
  <2>2. /\ [a EXCEPT !.rnr = b].rnr = b /\ [a EXCEPT !.rnr = b].id = a.id
        /\ [a EXCEPT !.rnr = b].n = a.n
    BY DEF Rec
  <2> QED BY <2>1, <2>2
<1>13. IndMem' = Append(IndMem, e)
  BY <1>1, <1>5, <1>8, <1>11, <1>12
<1>14. e = [q[1] EXCEPT !.rnr = b]
  BY <1>11, <1>12
<1>15. e.rnr = FALSE /\ e.id = x /\ (x \notin forgot => e.n = u + 1)
  BY <1>10, <1>11, <1>12
<1>16. cardInd' = [cardInd EXCEPT ![x] = p]
  BY <1>1, <1>5, <1>7
<1>17. Put(x, e, q, p, l, u)
  BY <1>4, <1>5, <1>6, <1>7, <1>9, <1>13, <1>14, <1>15, <1>16 DEF Put
<1> QED BY <1>1, <1>2, <1>3, <1>17

\* Giving an indication to the host keeps the order.
LEMMA CardPutLine ==
  ASSUME LineInv, NEW x \in Entity, CardPut(x)
  PROVE  LineInv'
<1>1. /\ x \in known /\ k = 1 /\ ~irq
      /\ UNCHANGED <<known, RCurrent, ROffset, RNR, R, irq, k, RNRId, sent, got, forgot>>
  BY CardPutFacts DEF CardPut, host, history
<1>a. PICK e \in Rec, q, p \in Seq(Rec), l \in Nat, u \in Int : Put(x, e, q, p, l, u)
  BY CardPutFacts
<1>2.   /\ q = cardInd[x] /\ p = Tail(q) /\ l = Len(q) /\ u = sent[x] - l /\ l >= 1
        /\ Len(p) = l - 1 /\ \A j \in 1 .. l - 1 : p[j] = q[j + 1]
        /\ e.rnr = FALSE /\ e.id = x /\ (x \notin forgot => e.n = u + 1)
        /\ IndMem' = Append(IndMem, e) /\ cardInd' = [cardInd EXCEPT ![x] = p]
  BY <1>a DEF Put
<1>3. Types /\ InOrder
  BY DEF LineInv
<1>4. PICK M \in Seq(Rec), L \in Nat : M = IndMem /\ L = Len(M) /\ \A j : j \in DOMAIN M <=> j \in 1 .. L
  <2>1. IndMem \in Seq(Rec)
    BY <1>3 DEF Types
  <2>2. PICK M \in Seq(Rec) : M = IndMem
    BY <2>1
  <2>3. Len(M) \in Nat /\ \A j : j \in DOMAIN M <=> j \in 1 .. Len(M)
    BY LenProperties, Zenon
  <2> QED BY <2>2, <2>3
<1>5. PICK N \in Seq(Rec) : /\ N = IndMem' /\ Len(N) = L + 1
                            /\ \A j : j \in DOMAIN N <=> j \in 1 .. L + 1
                            /\ \A j \in 1 .. L : N[j] = M[j]
                            /\ N[L + 1] = e
  <2>1. PICK N \in Seq(Rec) : /\ N = Append(M, e) /\ Len(N) = L + 1
                              /\ \A j \in 1 .. L : N[j] = M[j]
    <3>1. PICK N : N = Append(M, e)
      OBVIOUS
    <3>2. N \in Seq(Rec) /\ Len(N) = L + 1
      BY <1>4, <3>1, AppendProperties
    <3>3. \A j \in 1 .. L : N[j] = M[j]
      BY <1>4, <3>1, AppendProperties
    <3> QED BY <3>1, <3>2, <3>3
  <2>2. N[L + 1] = e
    BY <1>4, <2>1, AppendProperties
  <2>3. \A j : j \in DOMAIN N <=> j \in 1 .. Len(N)
    BY LenProperties, Zenon
  <2> QED BY <1>2, <1>4, <2>1, <2>2, <2>3
<1>6. cardInd \in [Entity -> Seq(Rec)] /\ known \subseteq Entity
  BY <1>3 DEF Types
<1>7. cardInd'[x] = p /\ \A y \in Entity : y # x => cardInd'[y] = cardInd[y]
  BY <1>2, <1>6
<1>8. Types'
  <2>1. cardInd' \in [Entity -> Seq(Rec)]
    BY <1>2, <1>6
  <2>2. IndMem' \in Seq(Rec)
    BY <1>5
  <2> QED BY <1>1, <1>3, <2>1, <2>2 DEF Types
<1>9. /\ \A j \in DOMAIN M : ~M[j].rnr
      /\ RNRId = NULL
  <2>1. \A j \in DOMAIN M : (M[j].rnr => j < 1) /\ j \in Nat /\ ~(j < 1)
    BY <1>1, <1>4 DEF LineInv, Loop
  <2>2. RNRId = NULL
    <3>1. ~(k > 1)
      BY <1>1
    <3> QED BY <3>1 DEF LineInv, Loop
  <2> QED BY <2>1, <2>2
<1>10. Loop'
  <2>1. \A j \in DOMAIN N : ~N[j].rnr
    <3> SUFFICES ASSUME NEW j \in DOMAIN N PROVE ~N[j].rnr
      OBVIOUS
    <3>1. j = L + 1 \/ j \in 1 .. L
      BY <1>4, <1>5
    <3> QED BY <1>2, <1>4, <1>5, <1>9, <3>1
  <2>2. k' <= Len(IndMem') + 1 /\ ~(k' > 1) /\ k' = 1
    BY <1>1, <1>4, <1>5
  <2>3. \A j \in DOMAIN N : ~(j < k')
    BY <1>1, <1>4, <1>5
  <2> QED BY <1>1, <1>5, <1>9, <2>1, <2>2, <2>3 DEF Loop
<1>11. InOrder'
  BY <1>1, <1>3 DEF InOrder
<1>12. \A y \in Entity \ known' : cardInd'[y] = <<>>
  BY <1>1, <1>7 DEF LineInv
<1>13. PICK g : g = got
  OBVIOUS
<1>14. ASSUME NEW y \in known \ forgot, y # x
       PROVE  Line(y, N, k, cardInd'[y], sent[y], Len(g[y]))
  <2>1. Line(y, M, k, cardInd[y], sent[y], Len(g[y]))
    BY <1>4, <1>13 DEF LineInv
  <2>2. Waits(N, k, y) = Waits(M, k, y) /\ \A j \in Waits(M, k, y) : N[j].n = M[j].n
    <3>1. ASSUME NEW j \in DOMAIN N PROVE j \in Waits(N, k, y) <=> j \in Waits(M, k, y)
      <4>1. j = L + 1 \/ (j \in 1 .. L /\ j \in DOMAIN M)
        BY <1>4, <1>5
      <4>2. j = L + 1 => N[j].id # y /\ j \notin DOMAIN M
        BY <1>2, <1>4, <1>5, <1>14
      <4> QED BY <1>5, <4>1, <4>2 DEF Waits
    <3>2. DOMAIN M \subseteq DOMAIN N /\ \A j \in DOMAIN M : N[j] = M[j]
      BY <1>4, <1>5
    <3>3. Waits(N, k, y) \subseteq DOMAIN N /\ Waits(M, k, y) \subseteq DOMAIN M
      BY DEF Waits
    <3> QED BY <3>1, <3>2, <3>3
  <2>3. Line(y, N, k, cardInd[y], sent[y], Len(g[y]))
    BY <2>1, <2>2, LineSame
  <2> QED BY <1>6, <1>7, <1>14, <2>3
<1>15. ASSUME x \notin forgot PROVE Line(x, N, k, p, sent[x], Len(g[x]))
  <2>1. PICK s, t \in Nat : s = sent[x] /\ t = Len(g[x])
    <3>1. sent[x] \in Nat /\ g[x] \in Seq(Nat)
      BY <1>3, <1>13 DEF Types
    <3>2. Len(g[x]) \in Nat
      BY <3>1
    <3> QED BY <3>1, <3>2
  <2>2. Line(x, M, k, q, s, t)
    BY <1>1, <1>2, <1>4, <1>13, <1>15, <2>1 DEF LineInv
  <2>3. PICK W : W = Waits(M, k, x)
    OBVIOUS
  <2>4. /\ t + l <= s /\ u = s - l
        /\ \A j \in DOMAIN q : q[j].id = x /\ q[j].n = u + j
        /\ \A j \in W : M[j].n \in t + 1 .. u
        /\ \A n \in t + 1 .. u : \E j \in W : M[j].n = n
        /\ \A i, j \in W : i < j => M[i].n < M[j].n
    BY <1>2, <2>1, <2>2, <2>3 DEF Line
  <2>5. W \subseteq 1 .. L
    BY <1>4, <2>3 DEF Waits
  <2>6. Waits(N, k, x) = W \cup {L + 1}
    <3>1. ASSUME NEW j \in DOMAIN N PROVE j \in Waits(N, k, x) <=> j \in W \/ j = L + 1
      <4>1. j = L + 1 \/ (j \in 1 .. L /\ j \in DOMAIN M /\ j # L + 1)
        BY <1>4, <1>5
      <4>2. L + 1 >= k
        BY <1>1, <1>4
      <4>3. j = L + 1 => j \in Waits(N, k, x)
        BY <1>2, <1>5, <4>2 DEF Waits
      <4> QED BY <1>5, <2>3, <4>1, <4>3 DEF Waits
    <3>2. Waits(N, k, x) \subseteq DOMAIN N /\ W \subseteq DOMAIN N /\ L + 1 \in DOMAIN N
      BY <1>4, <1>5, <2>5 DEF Waits
    <3> QED BY <3>1, <3>2
  <2>7. /\ N[L + 1].n = u + 1
        /\ \A j \in W : N[j].n = M[j].n /\ j \in Nat /\ j <= L
    BY <1>2, <1>5, <1>15, <2>5
  <2>8. PICK v \in Int : v = u + 1 /\ s - Len(p) = v /\ t + Len(p) <= s /\ t <= u
    <3>1. PICK m \in Int : m = Len(p) /\ m = l - 1
      <4>1. l - 1 \in Int
        OBVIOUS
      <4>2. Len(p) = l - 1
        BY <1>2
      <4> QED BY <4>1, <4>2
    <3>2. u = s - l /\ t + l <= s
      BY <2>4
    <3>3. u + 1 = s - m /\ t + m <= s /\ t <= u
      BY <3>1, <3>2
    <3>4. PICK v \in Int : v = u + 1
      OBVIOUS
    <3>5. s - Len(p) = v /\ t + Len(p) <= s
      BY <3>1, <3>3, <3>4
    <3> QED BY <3>3, <3>4, <3>5
  <2>9. \A j \in DOMAIN p : p[j].id = x /\ p[j].n = (s - Len(p)) + j
    <3> SUFFICES ASSUME NEW j \in DOMAIN p PROVE p[j].id = x /\ p[j].n = v + j
      BY <2>8
    <3>1. j \in 1 .. l - 1
      <4>1. \A i : i \in DOMAIN p <=> i \in 1 .. Len(p)
        BY LenProperties, Zenon
      <4> QED BY <1>2, <4>1, SMTT(30)
    <3>2. p[j] = q[j + 1]
      BY <1>2, <3>1
    <3>3. j + 1 \in DOMAIN q
      <4>1. \A i : i \in DOMAIN q <=> i \in 1 .. Len(q)
        BY LenProperties, Zenon
      <4>2. j + 1 \in 1 .. l
        BY <1>2, <3>1
      <4> QED BY <1>2, <4>1, <4>2
    <3>4. u + (j + 1) = v + j
      BY <2>8, <3>1
    <3> QED BY <2>4, <3>2, <3>3, <3>4
  <2>10. \A j \in W \cup {L + 1} : N[j].n \in t + 1 .. v
    <3> SUFFICES ASSUME NEW j \in W \cup {L + 1} PROVE N[j].n \in t + 1 .. v
      OBVIOUS
    <3>1. CASE j \in W
      <4>1. N[j].n \in t + 1 .. u
        BY <2>4, <2>7, <3>1
      <4> QED BY <2>8, <4>1
    <3>2. CASE j = L + 1
      BY <2>7, <2>8, <3>2, SMTT(30)
    <3> QED BY <3>1, <3>2
  <2>11. \A n \in t + 1 .. v : \E j \in W \cup {L + 1} : N[j].n = n
    <3> SUFFICES ASSUME NEW n \in t + 1 .. v PROVE \E j \in W \cup {L + 1} : N[j].n = n
      OBVIOUS
    <3>1. n \in t + 1 .. u \/ n = u + 1
      BY <2>8
    <3> QED BY <2>4, <2>7, <3>1
  <2>12. ASSUME NEW i \in W \cup {L + 1}, NEW j \in W \cup {L + 1}, i < j PROVE N[i].n < N[j].n
    <3>1. i \in W
      BY <1>4, <2>7, <2>12
    <3>2. CASE j \in W
      BY <2>4, <2>7, <2>12, <3>1, <3>2
    <3>3. CASE j = L + 1
      <4>1. N[i].n \in t + 1 .. u
        BY <2>4, <2>7, <3>1
      <4> QED BY <2>7, <3>3, <4>1, SMTT(30)
    <3> QED BY <3>2, <3>3
  <2>13. Line(x, N, k, p, s, t)
    BY <2>6, <2>8, <2>9, <2>10, <2>11, <2>12 DEF Line
  <2> QED BY <2>1, <2>13
<1>16. ASSUME NEW y \in known' \ forgot'
       PROVE  Line(y, IndMem', k', cardInd'[y], sent'[y], Len(got'[y]))
  <2>1. y \in known /\ y \notin forgot /\ k' = k /\ sent' = sent /\ got' = g /\ IndMem' = N
    BY <1>1, <1>5, <1>13
  <2>2. CASE y = x
    BY <1>7, <1>15, <2>1, <2>2
  <2>3. CASE y # x
    BY <1>14, <2>1, <2>3
  <2> QED BY <2>2, <2>3
<1>17. Own'
  <2>1. \A y \in Entity : Ids(cardInd[y], y)
    BY DEF LineInv, Own
  <2>2. Ids(p, x)
    <3> SUFFICES ASSUME NEW j \in 1 .. Len(p) PROVE p[j].id = x
      BY DEF Ids
    <3>1. j \in 1 .. l - 1 /\ j + 1 \in 1 .. l
      <4>1. PICK a : a = l - 1
        OBVIOUS
      <4>2. j \in 1 .. a
        BY <1>2, <4>1
      <4> QED BY <4>1, <4>2
    <3>2. p[j] = q[j + 1]
      BY <1>2, <3>1
    <3> QED BY <1>2, <2>1, <3>1, <3>2 DEF Ids
  <2>3. ASSUME NEW y \in Entity PROVE Ids(cardInd'[y], y)
    <3>1. CASE y = x
      BY <1>7, <2>2, <3>1
    <3>2. CASE y # x
      BY <1>7, <2>1, <3>2
    <3> QED BY <3>1, <3>2
  <2> QED BY <2>3 DEF Own
<1> QED BY <1>8, <1>10, <1>11, <1>12, <1>16, <1>17 DEF LineInv

\* The indications of a packet.
Parts(x, p) ==
  [j \in DOMAIN p |-> [id |-> x, n |-> sent[x] + j, len |-> p[j],
                       before |-> Units(p, j - 1), total |-> Total(p), first |-> j = 1, last |-> j = Len(p),
                       rnr |-> FALSE]]

\* They are a row.
LEMMA PartsRow ==
  ASSUME NEW x \in Entity, NEW p \in Seq(Nat), NEW s \in Nat, s = sent[x]
  PROVE  /\ Row(Parts(x, p), x, s) /\ Len(Parts(x, p)) = Len(p)
         /\ \A j \in 1 .. Len(p) : Parts(x, p)[j] =
              [id |-> x, n |-> s + j, len |-> p[j], before |-> Units(p, j - 1), total |-> Total(p),
               first |-> j = 1, last |-> j = Len(p), rnr |-> FALSE]
<1> DEFINE E(j) == [id |-> x, n |-> s + j, len |-> p[j], before |-> Units(p, j - 1),
                    total |-> Total(p), first |-> j = 1, last |-> j = Len(p), rnr |-> FALSE]
<1>1. PICK m \in Nat : m = Len(p)
  OBVIOUS
<1>2. PICK r : r = Parts(x, p)
  OBVIOUS
<1>3. r = [j \in 1 .. m |-> E(j)]
  <2>1. DOMAIN p = 1 .. m
    BY <1>1, LenProperties, Zenon
  <2>2. r = [j \in DOMAIN p |-> E(j)]
    BY <1>2, Zenon DEF Parts
  <2> HIDE DEF E
  <2> QED BY <2>1, <2>2, Zenon
<1>4. ASSUME NEW j \in 1 .. m PROVE E(j) \in Rec /\ E(j).id = x /\ E(j).n = s + j
  <2>1. PICK l \in Nat : l = p[j]
    BY <1>1, ElementOfSeq
  <2>2. PICK b \in Nat : b = Units(p, j - 1)
    <3>1. j - 1 \in 0 .. Len(p)
      BY <1>1
    <3> QED BY <3>1, UnitsFacts
  <2>3. PICK t \in Nat : t = Total(p)
    <3>1. Len(p) \in 0 .. Len(p)
      BY <1>1
    <3> QED BY <3>1, UnitsFacts DEF Total
  <2>4. PICK f, g \in BOOLEAN : (f <=> j = 1) /\ (g <=> j = Len(p))
    <3>1. (j = 1) \in BOOLEAN /\ (j = Len(p)) \in BOOLEAN
      OBVIOUS
    <3> QED BY <3>1
  <2>5. PICK i \in Nat : i = s + j
    OBVIOUS
  <2>6. E(j) = [id |-> x, n |-> i, len |-> l, before |-> b, total |-> t, first |-> f, last |-> g,
                rnr |-> FALSE]
    BY <2>1, <2>2, <2>3, <2>4, <2>5
  <2> HIDE DEF E
  <2> QED BY <2>5, <2>6 DEF Rec
<1> HIDE DEF E
<1>5. r \in [1 .. m -> Rec] /\ \A j \in 1 .. m : r[j] = E(j)
  BY <1>3, <1>4
<1>6. r \in Seq(Rec)
  BY <1>5, SeqDef
<1>7. Len(r) = m
  <2>1. DOMAIN r = 1 .. m
    BY <1>5
  <2>2. PICK l \in Nat : l = Len(r) /\ 1 .. l = 1 .. m
    BY <1>6, <2>1, LenProperties, Zenon
  <2> QED BY <2>2
<1>8. Row(r, x, s)
  BY <1>4, <1>5, <1>6, <1>7 DEF Row
<1>9. \A j \in 1 .. Len(p) : r[j] = E(j)
  BY <1>1, <1>5
<1> USE DEF E
<1> QED BY <1>1, <1>2, <1>7, <1>8, <1>9

\* A longer row in the same line.
LEMMA LineGrow ==
  ASSUME NEW x, NEW M, NEW h, NEW q \in Seq(Rec), NEW s \in Int, NEW t \in Int,
         Line(x, M, h, q, s, t),
         NEW p \in Seq(Rec), NEW z \in Int, NEW l \in Int, l = s - Len(q), l = z - Len(p),
         Row(p, x, l)
  PROVE  Line(x, M, h, p, z, t)
<1>1. PICK a, b \in Nat : a = Len(q) /\ b = Len(p) /\ l = s - a /\ l = z - b
  OBVIOUS
<1>2. /\ t + a <= s
      /\ \A j \in Waits(M, h, x) : M[j].n \in t + 1 .. l
      /\ \A n \in t + 1 .. l : \E j \in Waits(M, h, x) : M[j].n = n
      /\ \A i, j \in Waits(M, h, x) : i < j => M[i].n < M[j].n
  BY <1>1 DEF Line
<1>3. t + b <= z
  BY <1>1, <1>2
<1>4. \A j \in DOMAIN p : p[j].id = x /\ p[j].n = l + j
  <2>1. \A j : j \in DOMAIN p <=> j \in 1 .. Len(p)
    BY LenProperties, Zenon
  <2> QED BY <2>1 DEF Row
<1> QED BY <1>1, <1>2, <1>3, <1>4 DEF Line

\* The card has q for x; r, a packet of m parts, comes to the end of it.
Arrive(x, p, q, r, s, m, l) ==
  /\ q = cardInd[x] /\ r = Parts(x, p) /\ s = sent[x] /\ m = Len(p) /\ l = s - Len(q)
  /\ cardInd' = [cardInd EXCEPT ![x] = q \o r] /\ sent' = [sent EXCEPT ![x] = s + m]
  /\ Ids(q \o r, x) /\ (x \notin forgot => Row(q \o r, x, l)) /\ l = (s + m) - Len(q \o r)
  /\ Len(r) = m /\ Row(r, x, s)

\* A packet comes to the end of what the card has.
LEMMA CardPacketFacts ==
  ASSUME LineInv, NEW x \in Entity, NEW p \in Seq(Nat), CardPacket(x, p)
  PROVE  /\ x \in known
         /\ \E q, r \in Seq(Rec), s, m \in Nat, l \in Int : Arrive(x, p, q, r, s, m, l)
<1>1. /\ x \in known
      /\ cardInd' = [cardInd EXCEPT ![x] = cardInd[x] \o Parts(x, p)]
      /\ sent' = [sent EXCEPT ![x] = sent[x] + Len(p)]
  BY Zenon DEF CardPacket, Parts
<1>2. /\ cardInd[x] \in Seq(Rec) /\ sent[x] \in Nat /\ Ids(cardInd[x], x)
      /\ x \notin forgot => Line(x, IndMem, k, cardInd[x], sent[x], Len(got[x]))
  BY <1>1 DEF LineInv, Types, Own
<1>3. PICK q \in Seq(Rec), s \in Nat, m \in Nat, a \in Nat :
        q = cardInd[x] /\ s = sent[x] /\ m = Len(p) /\ a = Len(q)
  BY <1>2
<1>4. Row(Parts(x, p), x, s) /\ Len(Parts(x, p)) = Len(p)
  BY <1>3, PartsRow
<1>5. PICK r \in Seq(Rec) : r = Parts(x, p) /\ Row(r, x, s) /\ Len(r) = m
  BY <1>3, <1>4 DEF Row
<1>6. PICK l \in Int : l = s - Len(q) /\ s = l + Len(q)
  <2>1. s - a \in Int /\ s = (s - a) + a
    OBVIOUS
  <2> QED BY <1>3, <2>1
<1>7. ASSUME x \notin forgot PROVE Row(q \o r, x, l)
  <2>1. Line(x, IndMem, k, q, s, Len(got[x])) /\ s \in Int
    BY <1>2, <1>3, <1>7
  <2>2. Row(q, x, l)
    BY <1>6, <2>1, LineRow
  <2>3. PICK b \in Int : b = s /\ b = l + Len(q) /\ Row(r, x, b)
    BY <1>5, <1>6
  <2> QED BY <2>2, <2>3, RowConcat
<1>8. Ids(q \o r, x) /\ Len(q \o r) = Len(q) + Len(r)
  <2>1. Ids(q, x) /\ Ids(r, x)
    BY <1>2, <1>3, <1>5 DEF Ids, Row
  <2> QED BY <2>1, IdsConcat
<1>9. l = (s + m) - Len(q \o r)
  <2>1. Len(q \o r) = a + m /\ l = s - a
    BY <1>3, <1>5, <1>6, <1>8
  <2> QED BY <2>1
<1>11. cardInd' = [cardInd EXCEPT ![x] = q \o r] /\ sent' = [sent EXCEPT ![x] = s + m]
  BY <1>1, <1>3, <1>5
<1>12. Arrive(x, p, q, r, s, m, l)
  BY <1>3, <1>5, <1>6, <1>7, <1>8, <1>9, <1>11 DEF Arrive
<1> QED BY <1>1, <1>12

\* A packet keeps the order.
LEMMA CardPacketLine ==
  ASSUME LineInv, NEW x \in Entity, NEW p \in Seq(Nat), CardPacket(x, p)
  PROVE  LineInv'
<1>1. x \in known /\ UNCHANGED <<known, RCurrent, ROffset, RNR, R, IndMem, irq, k, RNRId, got, forgot>>
  BY DEF CardPacket, host, history
<1>2. PICK q, r \in Seq(Rec), s, m \in Nat, l \in Int : Arrive(x, p, q, r, s, m, l)
  BY CardPacketFacts
<1>3. PICK c \in Seq(Rec), z \in Nat :
        /\ q = cardInd[x] /\ s = sent[x] /\ l = s - Len(q) /\ l = z - Len(c)
        /\ Ids(c, x) /\ (x \notin forgot => Row(c, x, l))
        /\ cardInd' = [cardInd EXCEPT ![x] = c] /\ sent' = [sent EXCEPT ![x] = z]
  <2>1. PICK c \in Seq(Rec), z \in Nat : c = q \o r /\ z = s + m
    <3>1. q \o r \in Seq(Rec)
      BY <1>2 DEF Arrive, Ids
    <3>2. s + m \in Nat
      OBVIOUS
    <3>3. PICK c : c = q \o r
      OBVIOUS
    <3>4. PICK z : z = s + m
      OBVIOUS
    <3>5. c \in Seq(Rec) /\ z \in Nat
      BY <3>1, <3>2, <3>3, <3>4
    <3> QED BY <3>3, <3>4, <3>5, Zenon
  <2>2. q = cardInd[x] /\ s = sent[x] /\ l = s - Len(q)
    BY <1>2 DEF Arrive
  <2>3. l = z - Len(c) /\ Ids(c, x) /\ (x \notin forgot => Row(c, x, l))
    BY <1>2, <2>1 DEF Arrive
  <2>4. cardInd' = [cardInd EXCEPT ![x] = c] /\ sent' = [sent EXCEPT ![x] = z]
    BY <1>2, <2>1 DEF Arrive
  <2> QED BY <2>2, <2>3, <2>4
<1>4. Types /\ InOrder
  BY DEF LineInv
<1>5. cardInd \in [Entity -> Seq(Rec)] /\ sent \in [Entity -> Nat] /\ known \subseteq Entity
  BY <1>4 DEF Types
<1>6. /\ cardInd'[x] = c /\ sent'[x] = z
      /\ \A y \in Entity : y # x => cardInd'[y] = cardInd[y] /\ sent'[y] = sent[y]
      /\ cardInd' \in [Entity -> Seq(Rec)] /\ sent' \in [Entity -> Nat]
  BY <1>3, <1>5
<1>7. Types'
  BY <1>1, <1>4, <1>6 DEF Types
<1>8. Loop'
  BY <1>1 DEF LineInv, Loop
<1>9. InOrder'
  BY <1>1, <1>4 DEF InOrder
<1>10. \A y \in Entity \ known' : cardInd'[y] = <<>>
  BY <1>1, <1>6 DEF LineInv
<1>11. ASSUME NEW y \in known \ forgot
       PROVE  Line(y, IndMem, k, cardInd'[y], sent'[y], Len(got[y]))
  <2>1. Line(y, IndMem, k, cardInd[y], sent[y], Len(got[y]))
    BY DEF LineInv
  <2>2. CASE y = x
    <3>1. PICK t \in Int : t = Len(got[x])
      <4>1. got[x] \in Seq(Nat)
        BY <1>1, <1>4 DEF Types
      <4> QED BY <4>1
    <3>2. Line(x, IndMem, k, q, s, t) /\ s \in Int /\ z \in Int
      BY <1>3, <2>1, <2>2, <3>1
    <3>3. Line(x, IndMem, k, c, z, t)
      BY <1>3, <2>2, <3>2, LineGrow
    <3> QED BY <1>6, <2>2, <3>1, <3>3
  <2>3. CASE y # x
    BY <1>5, <1>6, <2>1, <2>3
  <2> QED BY <2>2, <2>3
<1>12. \A y \in known' \ forgot' : Line(y, IndMem', k', cardInd'[y], sent'[y], Len(got'[y]))
  <2>1. known' = known /\ IndMem' = IndMem /\ k' = k /\ got' = got /\ forgot' = forgot
    BY <1>1
  <2> QED BY <1>11, <2>1
<1>13. Own'
  <2>1. ASSUME NEW y \in Entity PROVE Ids(cardInd'[y], y)
    <3>1. CASE y = x
      BY <1>3, <1>6, <3>1
    <3>2. CASE y # x
      BY <1>6, <3>2 DEF LineInv, Own
    <3> QED BY <3>1, <3>2
  <2> QED BY <2>1 DEF Own
<1> QED BY <1>7, <1>8, <1>9, <1>10, <1>12, <1>13 DEF LineInv

\* An assigned entity begins at its first indication: none of its Id is left.
LEMMA AssignLine ==
  ASSUME LineInv, NEW x \in Entity, AssignRc(x)
  PROVE  LineInv'
<1>1. /\ x \notin known /\ ~Pending(x) /\ known' = known \cup {x}
      /\ RCurrent' = [RCurrent EXCEPT ![x] = 255]
      /\ sent' = [sent EXCEPT ![x] = 0] /\ got' = [got EXCEPT ![x] = <<>>]
      /\ forgot' = forgot \ {x}
      /\ UNCHANGED <<ROffset, RNR, R, IndMem, irq, k, RNRId, cardInd>>
  BY DEF AssignRc
<1>2. Types /\ InOrder
  BY DEF LineInv
<1>3. PICK c \in Nat, z \in Nat, e \in Seq(Nat) : c = 255 /\ z = 0 /\ e = <<>>
  <2>1. PICK c, z \in Nat : c = 255 /\ z = 0
    OBVIOUS
  <2>2. PICK e \in Seq(Nat) : e = <<>>
    BY EmptySeq
  <2> QED BY <2>1, <2>2
<1>4. RCurrent' = [RCurrent EXCEPT ![x] = c] /\ sent' = [sent EXCEPT ![x] = z] /\ got' = [got EXCEPT ![x] = e]
  BY <1>1, <1>3
<1>5. /\ RCurrent \in [Entity -> Nat] /\ sent \in [Entity -> Nat] /\ got \in [Entity -> Seq(Nat)]
      /\ known \subseteq Entity /\ forgot \subseteq Entity
  BY <1>2 DEF Types
<1>6. /\ RCurrent' \in [Entity -> Nat] /\ sent' \in [Entity -> Nat] /\ got' \in [Entity -> Seq(Nat)]
      /\ known' \subseteq Entity /\ sent'[x] = z /\ got'[x] = e
      /\ \A y \in Entity : y # x => sent'[y] = sent[y] /\ got'[y] = got[y]
  BY <1>1, <1>4, <1>5
<1>7. Types'
  BY <1>1, <1>2, <1>5, <1>6 DEF Types
<1>8. Loop'
  <2>1. \A i \in DOMAIN IndMem : IndMem[i].id \notin forgot' => IndMem[i].id \notin forgot
    BY <1>1 DEF Pending
  <2> QED BY <1>1, <2>1 DEF LineInv, Loop
<1>9. InOrder'
  <2> SUFFICES ASSUME NEW y \in Entity \ forgot', NEW n \in DOMAIN got'[y] PROVE got'[y][n] = n
    BY DEF InOrder
  <2>1. CASE y = x
    <3>1. n \in DOMAIN <<>>
      BY <1>3, <1>6, <2>1
    <3> QED BY <3>1
  <2>2. CASE y # x
    BY <1>1, <1>2, <1>6, <2>2 DEF InOrder
  <2> QED BY <2>1, <2>2
<1>10. \A y \in Entity \ known' : cardInd'[y] = <<>>
  BY <1>1 DEF LineInv
<1>11. ASSUME NEW y \in known' \ forgot'
       PROVE  Line(y, IndMem, k, cardInd[y], sent'[y], Len(got'[y]))
  <2>1. CASE y = x
    <3>1. Waits(IndMem, k, x) = {}
      BY <1>1 DEF Pending, Waits
    <3>2. cardInd[x] = <<>>
      BY <1>1 DEF LineInv
    <3>3. PICK q \in Seq(Rec) : q = cardInd[x] /\ Len(q) = 0
      BY <3>2, EmptySeq
    <3>4. Row(q, x, z)
      <4>1. 1 .. Len(q) = {}
        BY <3>3
      <4> QED BY <4>1 DEF Row
    <3>5. z + Len(q) = z /\ z \in Int
      BY <3>3
    <3>6. Line(x, IndMem, k, q, z, z)
      BY <3>1, <3>4, <3>5, RowLine
    <3>7. Len(got'[x]) = z
      BY <1>3, <1>6, EmptySeq
    <3> QED BY <1>6, <2>1, <3>3, <3>6, <3>7
  <2>2. CASE y # x
    <3>1. y \in known /\ y \in Entity /\ y \notin forgot
      BY <1>1, <1>5, <2>2
    <3>2. Line(y, IndMem, k, cardInd[y], sent[y], Len(got[y]))
      BY <3>1 DEF LineInv
    <3> QED BY <1>6, <2>2, <3>1, <3>2
  <2> QED BY <2>1, <2>2
<1>12. \A y \in known' \ forgot' : Line(y, IndMem', k', cardInd'[y], sent'[y], Len(got'[y]))
  <2>1. cardInd' = cardInd /\ IndMem' = IndMem /\ k' = k
    BY <1>1
  <2> QED BY <1>11, <2>1
<1>13. Own'
  BY <1>1 DEF LineInv, Own
<1> QED BY <1>7, <1>8, <1>9, <1>10, <1>12, <1>13 DEF LineInv

\* A removed entity has no line any more.
LEMMA RemoveLine ==
  ASSUME LineInv, NEW x \in Entity, RemoveRc(x)
  PROVE  LineInv'
<1>1. /\ x \in known /\ known' = known \ {x}
      /\ RNR' = [RNR EXCEPT ![x] = 0] /\ cardInd' = [cardInd EXCEPT ![x] = <<>>]
      /\ UNCHANGED <<RCurrent, ROffset, R, IndMem, irq, k, RNRId, sent, got, forgot>>
  BY DEF RemoveRc, history
<1>2. Types /\ InOrder
  BY DEF LineInv
<1>3. PICK z \in {0, 2}, e \in Seq(Rec) : z = 0 /\ e = <<>>
  BY EmptySeq
<1>4. RNR' = [RNR EXCEPT ![x] = z] /\ cardInd' = [cardInd EXCEPT ![x] = e]
  BY <1>1, <1>3
<1>5. RNR \in [Entity -> {0, 2}] /\ cardInd \in [Entity -> Seq(Rec)] /\ known \subseteq Entity
  BY <1>2 DEF Types
<1>6. /\ RNR' \in [Entity -> {0, 2}] /\ cardInd' \in [Entity -> Seq(Rec)] /\ cardInd'[x] = e
      /\ \A y \in Entity : y # x => cardInd'[y] = cardInd[y]
  BY <1>4, <1>5
<1>7. Types'
  BY <1>1, <1>2, <1>5, <1>6 DEF Types
<1>8. Loop'
  BY <1>1 DEF LineInv, Loop
<1>9. InOrder'
  BY <1>1, <1>2 DEF InOrder
<1>10. \A y \in Entity \ known' : cardInd'[y] = <<>>
  BY <1>1, <1>3, <1>6 DEF LineInv
<1>11. \A y \in known' \ forgot' : Line(y, IndMem', k', cardInd'[y], sent'[y], Len(got'[y]))
  <2>1. IndMem' = IndMem /\ k' = k /\ sent' = sent /\ got' = got /\ forgot' = forgot
    BY <1>1
  <2>2. \A y \in known \ forgot : Line(y, IndMem, k, cardInd[y], sent[y], Len(got[y]))
    BY DEF LineInv
  <2>3. \A y \in known' : y \in known /\ cardInd'[y] = cardInd[y]
    BY <1>1, <1>5, <1>6
  <2> QED BY <2>1, <2>2, <2>3
<1>12. Own'
  <2>1. Ids(e, x)
    <3>1. 1 .. Len(e) = {}
      BY <1>3
    <3> QED BY <3>1 DEF Ids
  <2>2. ASSUME NEW y \in Entity PROVE Ids(cardInd'[y], y)
    <3>1. CASE y = x
      BY <1>6, <2>1, <3>1
    <3>2. CASE y # x
      BY <1>6, <3>2 DEF LineInv, Own
    <3> QED BY <3>1, <3>2
  <2> QED BY <2>2 DEF Own
<1> QED BY <1>7, <1>8, <1>9, <1>10, <1>11, <1>12 DEF LineInv

\* The start of a loop keeps the order, and so does a stuttering step.
LEMMA QuietLine ==
  ASSUME LineInv, CardIrq \/ UNCHANGED vars
  PROVE  LineInv'
<1>1. /\ UNCHANGED <<known, RCurrent, ROffset, RNR, R, IndMem, k, RNRId, cardInd, sent, got, forgot>>
      /\ irq' = TRUE \/ irq' = irq
  BY DEF CardIrq, vars, host, history
<1>2. Types'
  <2>1. Types /\ irq' \in BOOLEAN
    BY <1>1 DEF LineInv, Types
  <2> QED BY <1>1, <2>1 DEF Types
<1>3. Loop'
  BY <1>1 DEF LineInv, Loop
<1>4. InOrder'
  BY <1>1 DEF LineInv, InOrder
<1>5. Own'
  BY <1>1 DEF LineInv, Own
<1> QED BY <1>1, <1>2, <1>3, <1>4, <1>5 DEF LineInv

\* The initial state.
LEMMA InitLine ==
  ASSUME Init
  PROVE  LineInv
<1>1. Types
  <2>1. PICK e, g : e \in Seq(Rec) /\ g \in Seq(Nat) /\ e = <<>> /\ g = <<>>
    BY EmptySeq
  <2>2. IndMem \in Seq(Rec) /\ cardInd \in [Entity -> Seq(Rec)] /\ got \in [Entity -> Seq(Nat)]
        /\ R \in [Entity -> Seq(Nat)]
    BY <2>1 DEF Init
  <2>3. /\ RCurrent \in [Entity -> Nat] /\ ROffset \in [Entity -> Int]
        /\ RNR \in [Entity -> {0, 2}] /\ sent \in [Entity -> Nat]
    BY DEF Init
  <2>4. irq \in BOOLEAN /\ known \subseteq Entity /\ forgot \subseteq Entity
    BY DEF Init
  <2>5. k \in Nat /\ k >= 1
    BY DEF Init
  <2>6. RNRId \in Entity \cup {NULL}
    BY DEF Init
  <2> QED BY <2>2, <2>3, <2>4, <2>5, <2>6 DEF Types
<1>2. Loop
  <2>1. ~(k > 1) /\ k = 1 /\ DOMAIN IndMem = {} /\ k <= Len(IndMem) + 1 /\ RNRId = NULL
    BY DEF Init
  <2> QED BY <2>1 DEF Loop
<1>3. InOrder
  <2>1. \A x \in Entity : got[x] = <<>>
    BY DEF Init
  <2> QED BY <2>1 DEF InOrder
<1>4. known = {} /\ \A x \in Entity : cardInd[x] = <<>>
  BY DEF Init
<1>5. Own
  <2> SUFFICES ASSUME NEW x \in Entity PROVE Ids(cardInd[x], x)
    BY DEF Own
  <2>1. PICK e \in Seq(Rec) : e = <<>> /\ Len(e) = 0
    BY EmptySeq
  <2>2. 1 .. Len(e) = {}
    BY <2>1
  <2> QED BY <1>4, <2>1, <2>2 DEF Ids
<1> QED BY <1>1, <1>2, <1>3, <1>4, <1>5 DEF LineInv

\* The order is kept by every step.
LEMMA NextLine ==
  ASSUME LineInv, [Next]_vars
  PROVE  LineInv'
<1>1. Offers \subseteq Seq(Nat) /\ NULL \notin Entity /\ Packets \subseteq Seq(Nat)
  BY IndAssumption
<1>2. CASE \E x \in Entity : AssignRc(x)
  BY <1>2, AssignLine
<1>3. CASE \E x \in Entity : RemoveRc(x)
  BY <1>3, RemoveLine
<1>4. CASE \E x \in Entity : CardPut(x)
  BY <1>4, CardPutLine
<1>5. CASE \E x \in Entity, p \in Packets : CardPacket(x, p)
  <2>1. PICK x \in Entity, p \in Seq(Nat) : CardPacket(x, p)
    BY <1>1, <1>5
  <2> QED BY <2>1, CardPacketLine
<1>6. CASE CardIrq \/ UNCHANGED vars
  BY <1>6, QuietLine
<1>7. CASE Handle
  BY <1>1, <1>7, HandleLine
<1>8. CASE LoopEnd
  BY <1>1, <1>8, LoopEndLine
<1> QED BY <1>2, <1>3, <1>4, <1>5, <1>6, <1>7, <1>8 DEF Next

\* For any entities, packets and buffers an entity gets the indications of its Id
\* in order and each once, until pr_dpc forgets one it has refused: it remembers
\* only the Id it refused last, and only until it handles one of another Id.
THEOREM InOrderTheorem == Spec => []InOrder
<1>1. Init => LineInv
  BY InitLine
<1>2. LineInv /\ [Next]_vars => LineInv'
  BY NextLine
<1>3. LineInv => InOrder
  BY DEF LineInv
<1> QED BY <1>1, <1>2, <1>3, PTL DEF Spec

(***************************************************************************)
(* The packets.                                                            *)
(***************************************************************************)
\* A part of a packet, and those x has still to take.
Part == [n : Nat, len : Nat, before : Nat, total : Nat, first : BOOLEAN, last : BOOLEAN]
Bare(e) == [n |-> e.n, len |-> e.len, before |-> e.before, total |-> e.total,
            first |-> e.first, last |-> e.last]
Items(M, W, q) == {Bare(M[j]) : j \in W} \cup {Bare(q[j]) : j \in DOMAIN q}

\* The parts I of packets, of s indications sent.
Fine(u, s) ==
  /\ u.before + u.len <= u.total /\ u.n <= s
  /\ u.last => u.before + u.len = u.total
  /\ u.first => u.before = 0
  /\ ~u.last => u.n < s
Joins(u, v) ==
  v.n = u.n + 1 /\ ~u.last => v.before = u.before + u.len /\ v.total = u.total
Packs(I, s) == (\A u \in I : u \in Part /\ Fine(u, s)) /\ (\A u, v \in I : Joins(u, v))

\* The room in the buffers r before the c-th, which may be behind them.
Upto(r, c) == IF c < Len(r) THEN Units(r, c) ELSE Total(r)

\* In the middle of a packet the client's buffers r hold what comes before the
\* next part, up to the place c, o.
Middle(I, s, t, r, c, o) ==
  /\ c \in Nat /\ o \in Nat /\ t < s
  /\ c < Len(r) => o <= r[c + 1]
  /\ c >= Len(r) => o = 0
  /\ \A v \in I : v.n = t + 1 => v.before = Upto(r, c) + o /\ v.total <= Total(r)

PackOf(x) ==
  LET I == Items(IndMem, Waits(IndMem, k, x), cardInd[x])
  IN  /\ Packs(I, sent[x])
      /\ RCurrent[x] # 255 /\ RNR[x] # 2 =>
           Middle(I, sent[x], Len(got[x]), R[x], RCurrent[x], ROffset[x])

\* Nothing is wrong with what has been copied.
OfEntities(f) == f = [x \in Entity |-> f[x]]
Copied ==
  /\ OfEntities(copied) /\ OfEntities(behind)
  /\ \A x \in Entity \ forgot : copied[x][1] = copied[x][2] /\ behind[x] = <<0, 0>>

PackInv == Copied /\ \A x \in known \ forgot : PackOf(x)

\* Fewer parts.
LEMMA FewerParts ==
  ASSUME NEW I, NEW J, J \subseteq I, NEW s
  PROVE  /\ Packs(I, s) => Packs(J, s)
         /\ \A t, r, c, o : Middle(I, s, t, r, c, o) => Middle(J, s, t, r, c, o)
<1>1. Packs(I, s) => Packs(J, s)
  BY DEF Packs
<1>2. ASSUME NEW t, NEW r, NEW c, NEW o, Middle(I, s, t, r, c, o)
      PROVE  Middle(J, s, t, r, c, o)
  BY <1>2 DEF Middle
<1> QED BY <1>1, <1>2

\* The mark of the host changes nothing of a part.
LEMMA BareSame ==
  ASSUME NEW e \in Rec, NEW b \in BOOLEAN, NEW f, f = [e EXCEPT !.rnr = b]
  PROVE  Bare(f) = Bare(e) /\ Bare(e) \in Part
<1>1. /\ f.n = e.n /\ f.len = e.len /\ f.before = e.before /\ f.total = e.total
      /\ f.first = e.first /\ f.last = e.last
  BY DEF Rec
<1>2. Bare(f) = Bare(e)
  BY <1>1 DEF Bare
<1>3. Bare(e) \in Part
  BY DEF Rec, Bare, Part
<1> QED BY <1>2, <1>3

\* What an entity has still to take.
Todo(x) == Items(IndMem, Waits(IndMem, k, x), cardInd[x])

\* An entity about which a step changes nothing but that it takes parts away.
LEMMA Keeps ==
  ASSUME NEW x, PackOf(x), Todo(x)' \subseteq Todo(x), sent'[x] = sent[x], got'[x] = got[x],
         R'[x] = R[x], RCurrent'[x] = RCurrent[x], ROffset'[x] = ROffset[x], RNR'[x] = RNR[x]
  PROVE  PackOf(x)'
<1>1. PICK I, J : I = Todo(x) /\ J = Todo(x)' /\ J \subseteq I
  OBVIOUS
<1>2. /\ Packs(I, sent[x])
      /\ RCurrent[x] # 255 /\ RNR[x] # 2 =>
           Middle(I, sent[x], Len(got[x]), R[x], RCurrent[x], ROffset[x])
  BY <1>1 DEF PackOf, Todo
<1>3. /\ Packs(J, sent[x])
      /\ RCurrent[x] # 255 /\ RNR[x] # 2 =>
           Middle(J, sent[x], Len(got[x]), R[x], RCurrent[x], ROffset[x])
  BY <1>1, <1>2, FewerParts
<1>4. J = Items(IndMem', Waits(IndMem', k', x), cardInd'[x])
  BY <1>1 DEF Todo
<1> QED BY <1>3, <1>4 DEF PackOf

\* A turn of the loop takes parts away only.
LEMMA HandleTodo ==
  ASSUME LineInv, Handle, NEW y \in known
  PROVE  Todo(y)' \subseteq Todo(y)
<1>0. Offers \subseteq Seq(Nat)
  BY IndAssumption
<1>1. k <= Len(IndMem) /\ k' = k + 1 /\ cardInd' = cardInd
  BY <1>0, HandleTurn
<1>2. PICK x \in Entity : x = IndMem[k].id /\ (Refused(x) \/ Taken(x) \/ Nobodys(x))
  BY <1>0, HandleTurn
<1>3. \A j \in DOMAIN IndMem : \E b \in BOOLEAN : IndMem'[j] = [IndMem[j] EXCEPT !.rnr = b]
  BY <1>1, <1>2, HandleWaits
<1>4. Waits(IndMem', k', y) \subseteq Waits(IndMem, k, y)
  BY <1>1, <1>2, HandleWaits
<1>5. Waits(IndMem, k, y) \subseteq DOMAIN IndMem
  BY DEF Waits
<1>6. ASSUME NEW j \in Waits(IndMem', k', y) PROVE Bare(IndMem'[j]) \in Todo(y)
  <2>1. j \in Waits(IndMem, k, y) /\ j \in DOMAIN IndMem
    BY <1>4, <1>5
  <2>2. PICK e \in Rec : e = IndMem[j]
    BY <1>1, <2>1, AtInd
  <2>3. PICK b \in BOOLEAN : IndMem'[j] = [e EXCEPT !.rnr = b]
    BY <1>3, <2>1, <2>2
  <2>4. Bare(IndMem'[j]) = Bare(e)
    BY <2>2, <2>3, BareSame
  <2> QED BY <2>1, <2>2, <2>3, <2>4 DEF Todo, Items
<1>7. \A j \in DOMAIN cardInd'[y] : Bare(cardInd'[y][j]) \in Todo(y)
  BY <1>1 DEF Todo, Items
<1> QED BY <1>6, <1>7 DEF Todo, Items

\* The card takes back what it gave.
LEMMA LoopEndTodo ==
  ASSUME LineInv, LoopEnd, NEW x \in known, x \notin forgot
  PROVE  Todo(x)' \subseteq Todo(x)
<1>1. /\ k > Len(IndMem) /\ k' = 1 /\ IndMem' = <<>>
      /\ cardInd' = [y \in Entity |-> Returned(y) \o cardInd[y]]
  BY DEF LoopEnd
<1>2. x \in Entity /\ cardInd[x] \in Seq(Rec) /\ sent[x] \in Nat /\ got[x] \in Seq(Nat)
  BY DEF LineInv, Types
<1>3. PICK t \in Nat, u \in Int : t = Len(got[x]) /\ Until(x, t, u)
  <2>1. Len(got[x]) \in Nat /\ sent[x] - Len(cardInd[x]) \in Int
    BY <1>2
  <2> QED BY <2>1 DEF Until
<1>4. /\ Row(Returned(x), x, t) /\ Len(Returned(x)) = u - t /\ u >= t
      /\ \A j \in 1 .. u - t : \E i \in Waits(IndMem, k, x) : Returned(x)[j] = IndMem[i]
  BY <1>1, <1>3, ReturnedFacts
<1>5. PICK r \in Seq(Rec), m \in Nat :
        /\ r = Returned(x) /\ Len(r) = m
        /\ \A j \in 1 .. m : \E i \in Waits(IndMem, k, x) : r[j] = IndMem[i]
  <2>1. u - t \in Nat
    BY <1>4
  <2>2. PICK r, m : r = Returned(x) /\ m = u - t
    OBVIOUS
  <2>3. r \in Seq(Rec) /\ m \in Nat
    BY <1>4, <2>1, <2>2 DEF Row
  <2> QED BY <1>4, <2>2, <2>3
<1>6. PICK q \in Seq(Rec), n \in Nat :
        q = cardInd[x] /\ Len(q) = n /\ \A j : j \in DOMAIN q <=> j \in 1 .. n
  <2>1. PICK q \in Seq(Rec) : q = cardInd[x]
    BY <1>2
  <2>2. Len(q) \in Nat /\ \A j : j \in DOMAIN q <=> j \in 1 .. Len(q)
    BY LenProperties, Zenon
  <2> QED BY <2>1, <2>2
<1>7. PICK c \in Seq(Rec) : /\ c = r \o q /\ c = cardInd'[x]
                            /\ \A j \in DOMAIN c : j \in 1 .. m + n
                            /\ \A j \in 1 .. m + n : c[j] = IF j <= m THEN r[j] ELSE q[j - m]
  <2>1. PICK c : c = r \o q
    OBVIOUS
  <2>2. /\ c \in Seq(Rec) /\ Len(c) = m + n
        /\ \A j \in 1 .. m + n : c[j] = IF j <= m THEN r[j] ELSE q[j - m]
    <3>1. /\ c \in Seq(Rec) /\ Len(c) = Len(r) + Len(q)
          /\ \A j \in 1 .. Len(r) + Len(q) : c[j] = IF j <= Len(r) THEN r[j] ELSE q[j - Len(r)]
      BY <2>1, ConcatProperties
    <3>2. Len(r) = m /\ Len(q) = n
      BY <1>5, <1>6
    <3> QED BY <3>1, <3>2
  <2>3. \A j : j \in DOMAIN c <=> j \in 1 .. Len(c)
    BY <2>2, LenProperties, Zenon
  <2>4. c = cardInd'[x]
    BY <1>1, <1>2, <1>5, <1>6, <2>1
  <2> QED BY <2>1, <2>2, <2>3, <2>4
<1>8. ASSUME NEW j \in DOMAIN c PROVE Bare(c[j]) \in Todo(x)
  <2>1. j \in 1 .. m + n
    BY <1>7
  <2>2. CASE j <= m
    <3>1. PICK i \in Waits(IndMem, k, x) : c[j] = IndMem[i]
      <4>1. j \in 1 .. m /\ c[j] = r[j]
        BY <1>7, <2>1, <2>2
      <4> QED BY <1>5, <4>1
    <3> QED BY <3>1 DEF Todo, Items
  <2>3. CASE ~(j <= m)
    <3>1. j - m \in DOMAIN q /\ c[j] = q[j - m]
      <4>1. j - m \in 1 .. n
        BY <2>1, <2>3
      <4> QED BY <1>6, <1>7, <2>1, <2>3, <4>1
    <3> QED BY <1>6, <3>1 DEF Todo, Items
  <2> QED BY <2>2, <2>3
<1>9. Waits(IndMem', k', x) = {}
  BY <1>1 DEF Waits
<1>10. Todo(x)' = {Bare(c[j]) : j \in DOMAIN c}
  BY <1>7, <1>9 DEF Todo, Items
<1> QED BY <1>8, <1>10

\* An indication given to the host stays to be taken.
LEMMA CardPutTodo ==
  ASSUME LineInv, NEW x \in Entity, CardPut(x), NEW y \in known
  PROVE  Todo(y)' \subseteq Todo(y)
<1>1. x \in known /\ k = 1 /\ k' = k /\ y \in Entity
  BY CardPutFacts DEF CardPut, LineInv, Types
<1>2. PICK e \in Rec, q, p \in Seq(Rec), l \in Nat, u \in Int : Put(x, e, q, p, l, u)
  BY CardPutFacts
<1>3. /\ q = cardInd[x] /\ p = Tail(q) /\ l = Len(q) /\ l >= 1
      /\ Len(p) = l - 1 /\ \A j \in 1 .. l - 1 : p[j] = q[j + 1]
      /\ \E b \in BOOLEAN : e = [q[1] EXCEPT !.rnr = b]
      /\ e.id = x
      /\ IndMem' = Append(IndMem, e) /\ cardInd' = [cardInd EXCEPT ![x] = p]
  BY <1>2 DEF Put
<1>4. \A j : (j \in DOMAIN q <=> j \in 1 .. l) /\ (j \in DOMAIN p <=> j \in 1 .. l - 1)
  <2>1. \A j : j \in DOMAIN q <=> j \in 1 .. Len(q)
    BY LenProperties, Zenon
  <2>2. \A j : j \in DOMAIN p <=> j \in 1 .. Len(p)
    BY LenProperties, Zenon
  <2> QED BY <1>3, <2>1, <2>2
<1>5. PICK M \in Seq(Rec), L \in Nat : M = IndMem /\ L = Len(M) /\ \A j : j \in DOMAIN M <=> j \in 1 .. L
  <2>1. PICK M \in Seq(Rec) : M = IndMem
    BY DEF LineInv, Types
  <2>2. Len(M) \in Nat /\ \A j : j \in DOMAIN M <=> j \in 1 .. Len(M)
    BY LenProperties, Zenon
  <2> QED BY <2>1, <2>2
<1>6. PICK N \in Seq(Rec) : /\ N = IndMem' /\ Len(N) = L + 1
                            /\ \A j : j \in DOMAIN N <=> j \in 1 .. L + 1
                            /\ \A j \in 1 .. L : N[j] = M[j]
                            /\ N[L + 1] = e
  <2>1. PICK N : N = Append(M, e)
    OBVIOUS
  <2>2. N \in Seq(Rec) /\ Len(N) = L + 1
    BY <1>5, <2>1, AppendProperties
  <2>3. \A j \in 1 .. L : N[j] = M[j]
    BY <1>5, <2>1, AppendProperties
  <2>4. N[L + 1] = e
    BY <1>5, <2>1, AppendProperties
  <2>5. \A j : j \in DOMAIN N <=> j \in 1 .. Len(N)
    BY <2>2, LenProperties, Zenon
  <2> QED BY <1>3, <1>5, <2>1, <2>2, <2>3, <2>4, <2>5
<1>7. cardInd \in [Entity -> Seq(Rec)]
  BY DEF LineInv, Types
<1>8. Todo(y)' = Items(N, Waits(N, k, y), cardInd'[y]) /\ Todo(y) = Items(M, Waits(M, k, y), cardInd[y])
  BY <1>1, <1>5, <1>6 DEF Todo
<1>9. Bare(e) = Bare(q[1]) /\ 1 \in DOMAIN q
  <2>1. 1 \in 1 .. l
    BY <1>3
  <2>2. 1 \in DOMAIN q
    BY <1>4, <2>1
  <2>3. PICK a \in Rec : a = q[1]
    BY <1>3, <2>1, ElementOfSeq
  <2>4. PICK b \in BOOLEAN : e = [a EXCEPT !.rnr = b]
    BY <1>3, <2>3
  <2> QED BY <2>2, <2>3, <2>4, BareSame
<1>10. ASSUME NEW j \in Waits(N, k, y) PROVE Bare(N[j]) \in Todo(y)
  <2>1. j \in DOMAIN N /\ N[j].id = y /\ (j >= k \/ N[j].rnr)
    BY DEF Waits
  <2>2. j = L + 1 \/ (j \in 1 .. L /\ j \in DOMAIN M)
    BY <1>5, <1>6, <2>1
  <2>3. CASE j = L + 1
    <3>1. y = x
      BY <1>3, <1>6, <2>1, <2>3
    <3>2. Bare(q[1]) \in Todo(y)
      BY <1>3, <1>8, <1>9, <3>1 DEF Items
    <3> QED BY <1>6, <1>9, <2>3, <3>2
  <2>4. CASE j \in 1 .. L /\ j \in DOMAIN M
    <3>1. j \in Waits(M, k, y) /\ N[j] = M[j]
      BY <1>6, <2>1, <2>4 DEF Waits
    <3> QED BY <1>8, <3>1 DEF Items
  <2> QED BY <2>2, <2>3, <2>4
<1>11. ASSUME NEW j \in DOMAIN cardInd'[y] PROVE Bare(cardInd'[y][j]) \in Todo(y)
  <2>1. CASE y = x
    <3>1. cardInd'[y] = p
      BY <1>1, <1>3, <1>7, <2>1
    <3>2. j \in 1 .. l - 1
      BY <1>4, <3>1
    <3>3. p[j] = q[j + 1] /\ j + 1 \in DOMAIN q
      <4>1. j + 1 \in 1 .. l
        BY <3>2
      <4> QED BY <1>3, <1>4, <3>2, <4>1
    <3> QED BY <1>3, <1>8, <2>1, <3>1, <3>3 DEF Items
  <2>2. CASE y # x
    <3>1. cardInd'[y] = cardInd[y]
      BY <1>1, <1>3, <1>7, <2>2
    <3> QED BY <1>8, <3>1 DEF Items
  <2> QED BY <2>1, <2>2
<1> QED BY <1>8, <1>10, <1>11 DEF Items

\* The parts of a packet follow each other and fit together.
LEMMA NewParts ==
  ASSUME NEW x \in Entity, NEW p \in Packets, NEW s \in Nat, s = sent[x], NEW m \in Nat, m = Len(p)
  PROVE  \A i \in 1 .. m :
           /\ Bare(Parts(x, p)[i]) \in Part /\ Bare(Parts(x, p)[i]).n > s
           /\ Fine(Bare(Parts(x, p)[i]), s + m)
           /\ \A j \in 1 .. m : Joins(Bare(Parts(x, p)[i]), Bare(Parts(x, p)[j]))
<1>1. p \in Seq(Nat)
  BY IndAssumption
<1> DEFINE E(j) == [n |-> s + j, len |-> p[j], before |-> Units(p, j - 1), total |-> Total(p),
                    first |-> j = 1, last |-> j = m]
<1>2. ASSUME NEW j \in 1 .. m PROVE Bare(Parts(x, p)[j]) = E(j)
  <2>1. Parts(x, p)[j] = [id |-> x, n |-> s + j, len |-> p[j], before |-> Units(p, j - 1),
                          total |-> Total(p), first |-> j = 1, last |-> j = Len(p), rnr |-> FALSE]
    BY <1>1, PartsRow
  <2> QED BY <2>1 DEF Bare
<1>3. /\ \A j \in 1 .. m : Units(p, j) = Units(p, j - 1) + p[j] /\ p[j] \in Nat
      /\ \A j \in 0 .. m : Units(p, j) \in Nat /\ Units(p, j) <= Total(p)
      /\ Units(p, 0) = 0 /\ Total(p) \in Nat /\ Total(p) = Units(p, m)
  <2>1. /\ \A j \in 1 .. Len(p) : Units(p, j) = Units(p, j - 1) + p[j]
        /\ \A j \in 0 .. Len(p) : Units(p, j) \in Nat
        /\ Units(p, 0) = 0
    BY <1>1, UnitsFacts
  <2>2. \A j \in 1 .. Len(p) : p[j] \in Nat
    BY <1>1, ElementOfSeq
  <2>3. m \in 0 .. Len(p) /\ Total(p) = Units(p, m)
    BY DEF Total
  <2>4. \A j \in 0 .. Len(p) : Units(p, j) <= Units(p, m)
    <3> SUFFICES ASSUME NEW j \in 0 .. Len(p) PROVE Units(p, j) <= Units(p, m)
      OBVIOUS
    <3>1. j <= m
      OBVIOUS
    <3> QED BY <1>1, <2>3, <3>1, UnitsGrow
  <2> QED BY <2>1, <2>2, <2>3, <2>4
<1>5. ASSUME NEW i \in 1 .. m
      PROVE  /\ E(i) \in Part /\ E(i).n > s /\ Fine(E(i), s + m)
             /\ \A j \in 1 .. m : Joins(E(i), E(j))
  <2>1. PICK l \in Nat, b \in Nat, c \in Nat, g \in Nat :
          l = p[i] /\ b = Units(p, i - 1) /\ c = Units(p, i) /\ g = Total(p) /\ c = b + l /\ c <= g
    <3>1. i - 1 \in 0 .. m /\ i \in 0 .. m
      OBVIOUS
    <3>2. p[i] \in Nat /\ Units(p, i - 1) \in Nat /\ Units(p, i) \in Nat /\ Total(p) \in Nat
      BY <1>3, <3>1
    <3>3. Units(p, i) = Units(p, i - 1) + p[i] /\ Units(p, i) <= Total(p)
      BY <1>3, <3>1
    <3> QED BY <3>2, <3>3
  <2>2. PICK f, h \in BOOLEAN : (f <=> i = 1) /\ (h <=> i = m)
    <3>1. (i = 1) \in BOOLEAN /\ (i = m) \in BOOLEAN
      OBVIOUS
    <3> QED BY <3>1
  <2>3. PICK u : u = [n |-> s + i, len |-> l, before |-> b, total |-> g, first |-> f, last |-> h] /\ u = E(i)
    BY <2>1, <2>2
  <2>4. u \in Part /\ u.n = s + i /\ u.len = l /\ u.before = b /\ u.total = g /\ u.first = f /\ u.last = h
    <3>1. s + i \in Nat
      OBVIOUS
    <3> QED BY <2>3, <3>1 DEF Part
  <2>5. Fine(u, s + m)
    <3>1. b + l <= g /\ s + i <= s + m
      BY <2>1
    <3>2. h => b + l = g
      BY <1>3, <2>1, <2>2
    <3>3. f => b = 0
      <4>1. f => i - 1 = 0
        BY <2>2
      <4> QED BY <1>3, <2>1, <4>1
    <3>4. ~h => s + i < s + m
      BY <2>2
    <3> QED BY <2>4, <3>1, <3>2, <3>3, <3>4 DEF Fine
  <2>6. ASSUME NEW j \in 1 .. m PROVE Joins(u, E(j))
    <3>1. E(j).n = s + j /\ E(j).before = Units(p, j - 1) /\ E(j).total = g
      BY <2>1
    <3> HIDE DEF E
    <3>2. SUFFICES ASSUME E(j).n = u.n + 1 PROVE E(j).before = u.before + u.len /\ E(j).total = u.total
      BY DEF Joins
    <3>3. j - 1 = i
      BY <2>4, <3>1, <3>2
    <3> QED BY <2>1, <2>4, <3>1, <3>3
  <2>7. u.n > s
    BY <2>4
  <2> HIDE DEF E
  <2> QED BY <2>3, <2>4, <2>5, <2>6, <2>7
<1> HIDE DEF E
<1> QED BY <1>2, <1>5

\* The parts of a packet come after all others.
LEMMA MoreParts ==
  ASSUME NEW I, NEW J, NEW s \in Nat, NEW z \in Nat, s <= z, Packs(I, s),
         \A u \in J : /\ u \in Part /\ u.n > s /\ Fine(u, z)
                      /\ \A v \in J : Joins(u, v)
  PROVE  /\ Packs(I \cup J, z)
         /\ \A t \in Nat : \A r, c, o : Middle(I, s, t, r, c, o) => Middle(I \cup J, z, t, r, c, o)
<1>1. \A u \in I : u \in Part /\ Fine(u, s) /\ \A v \in I : Joins(u, v)
  BY DEF Packs
<1>2. \A u \in I \cup J : u.n \in Nat
  BY <1>1 DEF Part
<1>3. \A u \in I : u.n <= s /\ (~u.last => u.n < s)
  BY <1>1 DEF Fine
<1>4. ASSUME NEW u \in I PROVE Fine(u, z)
  <2>1. u.n \in Nat /\ u.n <= s /\ Fine(u, s)
    BY <1>1, <1>2, <1>3
  <2>2. u.n <= z /\ (u.n < s => u.n < z)
    BY <2>1
  <2> QED BY <2>1, <2>2 DEF Fine
<1>5. ASSUME NEW u \in I \cup J, NEW v \in I \cup J PROVE Joins(u, v)
  <2>1. CASE u \in I /\ v \in I
    BY <1>1, <2>1
  <2>2. CASE u \in J /\ v \in J
    BY <2>2
  <2>3. CASE u \in I /\ v \in J
    <3>1. u.n \in Nat /\ v.n \in Nat /\ u.n <= s /\ v.n > s /\ (~u.last => u.n < s)
      BY <1>2, <1>3, <2>3
    <3>2. ~(v.n = u.n + 1 /\ ~u.last)
      BY <3>1
    <3> QED BY <3>2 DEF Joins
  <2>4. CASE u \in J /\ v \in I
    <3>1. u.n \in Nat /\ v.n \in Nat /\ u.n > s /\ v.n <= s
      BY <1>2, <1>3, <2>4
    <3>2. ~(v.n = u.n + 1)
      BY <3>1
    <3> QED BY <3>2 DEF Joins
  <2> QED BY <2>1, <2>2, <2>3, <2>4
<1>6. Packs(I \cup J, z)
  BY <1>1, <1>4, <1>5 DEF Packs
<1>7. ASSUME NEW t \in Nat, NEW r, NEW c, NEW o, Middle(I, s, t, r, c, o)
      PROVE  Middle(I \cup J, z, t, r, c, o)
  <2>1. t < z /\ t < s
    BY <1>7 DEF Middle
  <2>2. \A v \in J : v.n # t + 1
    <3> SUFFICES ASSUME NEW v \in J PROVE v.n # t + 1
      OBVIOUS
    <3>1. v.n \in Nat /\ v.n > s
      BY <1>2
    <3> QED BY <2>1, <3>1
  <2> QED BY <1>7, <2>1, <2>2 DEF Middle
<1> QED BY <1>6, <1>7

\* A packet.
LEMMA CardPacketPack ==
  ASSUME LineInv, NEW x \in Entity, NEW p \in Packets, CardPacket(x, p),
         NEW y \in known, PackOf(y)
  PROVE  PackOf(y)'
<1>1. p \in Seq(Nat)
  BY IndAssumption
<1>2. PICK q, r \in Seq(Rec), s, m \in Nat, l \in Int : Arrive(x, p, q, r, s, m, l)
  BY <1>1, CardPacketFacts
<1>3. /\ q = cardInd[x] /\ r = Parts(x, p) /\ s = sent[x] /\ m = Len(p) /\ Len(r) = m
      /\ cardInd' = [cardInd EXCEPT ![x] = q \o r] /\ sent' = [sent EXCEPT ![x] = s + m]
  BY <1>2 DEF Arrive
<1>4. /\ cardInd \in [Entity -> Seq(Rec)] /\ sent \in [Entity -> Nat] /\ got \in [Entity -> Seq(Nat)]
      /\ y \in Entity
  BY DEF LineInv, Types
<1>5. UNCHANGED <<RCurrent, ROffset, RNR, R, IndMem, k, got>>
  BY DEF CardPacket, host, history
<1>6. CASE y # x
  <2>1. cardInd'[y] = cardInd[y] /\ sent'[y] = sent[y]
    BY <1>3, <1>4, <1>6
  <2>2. Todo(y)' \subseteq Todo(y)
    BY <1>5, <2>1 DEF Todo
  <2> QED BY <1>5, <2>1, <2>2, Keeps
<1>7. CASE y = x
  <2> DEFINE J == {Bare(r[j]) : j \in 1 .. m}
  <2>1. PICK z \in Nat : z = s + m
    <3>1. s + m \in Nat
      OBVIOUS
    <3> QED BY <3>1
  <2>2. s <= z
    BY <2>1
  <2>3. sent'[x] = z
    BY <1>3, <1>4, <2>1
  <2>4. PICK c : c = q \o r /\ cardInd'[x] = c
    BY <1>3, <1>4
  <2>5. PICK a \in Nat : /\ a = Len(q) /\ \A j : j \in DOMAIN q <=> j \in 1 .. a
    <3>1. Len(q) \in Nat /\ \A j : j \in DOMAIN q <=> j \in 1 .. Len(q)
      BY LenProperties, Zenon
    <3> QED BY <3>1
  <2>6. /\ \A j \in DOMAIN c : j \in 1 .. a + m
        /\ \A j \in 1 .. a + m : c[j] = IF j <= a THEN q[j] ELSE r[j - a]
    <3>1. /\ c \in Seq(Rec) /\ Len(c) = Len(q) + Len(r)
          /\ \A j \in 1 .. Len(q) + Len(r) : c[j] = IF j <= Len(q) THEN q[j] ELSE r[j - Len(q)]
      BY <2>4, ConcatProperties
    <3>2. Len(q) = a /\ Len(r) = m
      BY <1>3, <2>5
    <3>3. \A j : j \in DOMAIN c <=> j \in 1 .. Len(c)
      BY <3>1, LenProperties, Zenon
    <3> QED BY <3>1, <3>2, <3>3
  <2>7. PICK I : I = Todo(x) /\ I = Items(IndMem, Waits(IndMem, k, x), q)
    BY <1>3 DEF Todo
  <2>8. Todo(x)' \subseteq I \cup J
    <3>1. Todo(x)' = Items(IndMem, Waits(IndMem, k, x), c)
      BY <1>5, <2>4 DEF Todo
    <3>2. ASSUME NEW j \in DOMAIN c PROVE Bare(c[j]) \in I \cup J
      <4>1. j \in 1 .. a + m
        BY <2>6
      <4>2. CASE j <= a
        <5>1. j \in DOMAIN q /\ c[j] = q[j]
          BY <2>5, <2>6, <4>1, <4>2
        <5> QED BY <2>7, <5>1 DEF Items
      <4>3. CASE ~(j <= a)
        <5>1. j - a \in 1 .. m /\ c[j] = r[j - a]
          BY <2>6, <4>1, <4>3
        <5> QED BY <5>1
      <4> QED BY <4>2, <4>3
    <3>3. \A j \in Waits(IndMem, k, x) : Bare(IndMem[j]) \in I
      BY <2>7 DEF Items
    <3> HIDE DEF J
    <3> QED BY <3>1, <3>2, <3>3 DEF Items
  <2>9. /\ Packs(I, s)
        /\ RCurrent[x] # 255 /\ RNR[x] # 2 =>
             Middle(I, s, Len(got[x]), R[x], RCurrent[x], ROffset[x])
    BY <1>3, <1>7, <2>7 DEF PackOf, Todo
  <2>10. \A u \in J : /\ u \in Part /\ u.n > s /\ Fine(u, z)
                      /\ \A v \in J : Joins(u, v)
    BY <1>3, <2>1, NewParts
  <2>11. PICK t \in Nat : t = Len(got[x])
    <3>1. got[x] \in Seq(Nat)
      BY <1>4
    <3> QED BY <3>1
  <2> HIDE DEF J
  <2>12. /\ Packs(I \cup J, z)
         /\ \A r_, c_, o_ : Middle(I, s, t, r_, c_, o_) => Middle(I \cup J, z, t, r_, c_, o_)
    BY <2>2, <2>9, <2>10, MoreParts
  <2>13. PICK K : K = Todo(x)' /\ K \subseteq I \cup J
    BY <2>8
  <2>14. /\ Packs(K, z)
         /\ RCurrent[x] # 255 /\ RNR[x] # 2 =>
              Middle(K, z, t, R[x], RCurrent[x], ROffset[x])
    BY <2>9, <2>11, <2>12, <2>13, FewerParts
  <2>15. K = Items(IndMem', Waits(IndMem', k', x), cardInd'[x])
    BY <2>13 DEF Todo
  <2> QED BY <1>5, <1>7, <2>3, <2>11, <2>14, <2>15 DEF PackOf
<1> QED BY <1>6, <1>7

\* An entity that is not in the middle of a packet after a step.
LEMMA KeepsOut ==
  ASSUME NEW x, PackOf(x), Todo(x)' \subseteq Todo(x), sent'[x] = sent[x],
         RCurrent'[x] = 255 \/ RNR'[x] = 2
  PROVE  PackOf(x)'
<1>1. PICK I, J : I = Todo(x) /\ J = Todo(x)' /\ J \subseteq I
  OBVIOUS
<1>2. Packs(I, sent[x])
  BY <1>1 DEF PackOf, Todo
<1>3. Packs(J, sent[x])
  BY <1>1, <1>2, FewerParts
<1>4. J = Items(IndMem', Waits(IndMem', k', x), cardInd'[x])
  BY <1>1 DEF Todo
<1> QED BY <1>3, <1>4 DEF PackOf

\* The pieces of r given to the client hold what comes before the place c, o.
LEMMA FilledUnits ==
  ASSUME NEW r \in Seq(Nat), NEW c \in 0 .. Len(r), NEW o \in Nat,
         c = Len(r) => o = 0, NEW m, m = IF o # 0 THEN c + 1 ELSE c
  PROVE  Total(SubSeq([r EXCEPT ![c + 1] = o], 1, m)) = Units(r, c) + o
<1>1. PICK L \in Nat : L = Len(r)
  OBVIOUS
<1>2. PICK a \in Nat : a = c + 1
  OBVIOUS
<1>3. PICK e \in Seq(Nat) : /\ e = [r EXCEPT ![c + 1] = o] /\ Len(e) = L
                            /\ \A i \in 1 .. L : e[i] = IF i = a THEN o ELSE r[i]
  <2>1. CASE a \in 1 .. L
    <3>1. [r EXCEPT ![a] = o] \in Seq(Nat) /\ Len([r EXCEPT ![a] = o]) = Len(r)
          /\ \A i \in 1 .. Len(r) : [r EXCEPT ![a] = o][i] = IF i = a THEN o ELSE r[i]
      BY <1>1, <2>1, ExceptSeq
    <3>2. PICK e : e = [r EXCEPT ![a] = o]
      OBVIOUS
    <3> QED BY <1>1, <1>2, <3>1, <3>2
  <2>2. CASE a \notin 1 .. L
    <3>1. \A i : i \in DOMAIN r <=> i \in 1 .. L
      BY <1>1, LenProperties, Zenon
    <3>2. a \notin DOMAIN r
      BY <2>2, <3>1
    <3>3. [r EXCEPT ![a] = o] = [i \in DOMAIN r |-> r[i]]
      BY <3>2
    <3>4. r = [i \in DOMAIN r |-> r[i]]
      BY LenProperties, Zenon
    <3>5. [r EXCEPT ![a] = o] = r
      BY <3>3, <3>4, Zenon
    <3> QED BY <1>1, <1>2, <2>2, <3>5
  <2> QED BY <2>1, <2>2
<1>4. m \in Nat /\ m <= L /\ c <= m
  BY <1>1
<1>5. PICK v \in Seq(Nat) : /\ v = SubSeq(e, 1, m) /\ Len(v) = m /\ \A i \in 1 .. m : v[i] = e[i]
  <2>1. PICK v : v = SubSeq(e, 1, m)
    OBVIOUS
  <2>2. \A i \in 1 .. m : e[i] \in Nat
    <3> SUFFICES ASSUME NEW i \in 1 .. m PROVE e[i] \in Nat
      OBVIOUS
    <3>1. i \in 1 .. Len(e)
      BY <1>3, <1>4
    <3> QED BY <3>1, ElementOfSeq
  <2>3. PICK n, j \in Int : n = m /\ j = 1 /\ n - j + 1 = m /\ \A i \in j .. n : e[i] \in Nat
    <3>1. PICK n, j \in Int : n = m /\ j = 1
      BY <1>4
    <3> QED BY <1>4, <2>2, <3>1
  <2>4. \A i \in j .. n : e[i] \in Nat
    BY <2>3
  <2>5. PICK g : g = SubSeq(e, j, n)
    OBVIOUS
  <2>6. /\ g \in Seq(Nat) /\ Len(g) = IF j <= n THEN n - j + 1 ELSE 0
        /\ \A i \in 1 .. n - j + 1 : g[i] = e[j + i - 1]
    BY <2>4, <2>5, SubSeqProperties
  <2>7. g = v
    BY <2>1, <2>3, <2>5
  <2>8. Len(g) = m
    <3>1. n - j + 1 = m /\ (~(j <= n) => m = 0)
      BY <1>4, <2>3
    <3> QED BY <2>6, <3>1
  <2>9. \A i \in 1 .. m : g[i] = e[i]
    <3> SUFFICES ASSUME NEW i \in 1 .. m PROVE g[i] = e[i]
      OBVIOUS
    <3>1. i \in 1 .. n - j + 1 /\ j + i - 1 = i
      BY <1>4, <2>3
    <3> QED BY <2>6, <3>1
  <2> QED BY <2>1, <2>6, <2>7, <2>8, <2>9
<1>6. Units(v, c) = Units(r, c) /\ Units(r, c) \in Nat
  <2>1. \A i \in 1 .. c : v[i] = r[i]
    <3> SUFFICES ASSUME NEW i \in 1 .. c PROVE v[i] = r[i]
      OBVIOUS
    <3>1. i \in 1 .. m /\ i \in 1 .. L /\ i # a
      BY <1>1, <1>2, <1>4
    <3> QED BY <1>3, <1>5, <3>1
  <2>2. PICK d \in Nat : d = c /\ d <= Len(v) /\ d <= Len(r)
    BY <1>1, <1>4, <1>5
  <2>3. Units(v, d) = Units(r, d)
    BY <2>1, <2>2, UnitsSame
  <2> QED BY <2>2, <2>3, UnitsFacts
<1>7. Total(v) = Units(v, m)
  BY <1>5 DEF Total
<1>8. CASE o = 0
  BY <1>3, <1>5, <1>6, <1>7, <1>8
<1>9. CASE o # 0
  <2>1. m = a /\ a \in 1 .. m /\ a \in 1 .. L /\ a - 1 = c
    BY <1>1, <1>2, <1>4, <1>9
  <2>2. v[a] = o
    BY <1>3, <1>5, <2>1
  <2>3. Units(v, a) = Units(v, a - 1) + v[a]
    BY <1>5, <2>1, UnitsFacts
  <2> QED BY <1>3, <1>5, <1>6, <1>7, <2>1, <2>2, <2>3
<1> QED BY <1>8, <1>9

\* The changed value.
LEMMA AtIt ==
  ASSUME NEW S, NEW f \in [Entity -> S], NEW x \in Entity
  PROVE  \A a, g : g = [f EXCEPT ![x] = a] => g[x] = a
OBVIOUS

\* A change of a function of the entities.
Only(f, g, x) == OfEntities(g) /\ \A y \in Entity : y # x => g[y] = f[y]
LEMMA Changed ==
  ASSUME NEW f, OfEntities(f), NEW x \in Entity
  PROVE  \A a, g : g = [f EXCEPT ![x] = a] => Only(f, g, x) /\ g[x] = a
<1> SUFFICES ASSUME NEW a, NEW g, g = [f EXCEPT ![x] = a] PROVE Only(f, g, x) /\ g[x] = a
  OBVIOUS
<1>1. DOMAIN f = Entity
  BY Zenon DEF OfEntities
<1>2. DOMAIN g = Entity /\ g = [y \in DOMAIN g |-> g[y]]
  BY <1>1
<1>3. OfEntities(g)
  BY <1>2, Zenon DEF OfEntities
<1> QED BY <1>1, <1>3 DEF Only

\* Behind the buffers nothing is copied.
LEMMA CopyBehind ==
  ASSUME NEW r \in Seq(Nat), NEW z \in Places, z.on = TRUE, z.cur >= Len(r)
  PROVE  Copy(r, z.cur, z.off, z.rest) = <<z.cur, z.off>>
<1>1. PICK f : Loops(f, r, z) /\ Copies(f, r, z)
  BY LoopsFrom, Zenon
<1>2. PICK N \in Nat : N = Len(r)
  OBVIOUS
<1>3. z.cur \in Nat /\ z.off \in Int
  BY DEF Places
<1>4. PICK p : p = Turn(r, z)
  OBVIOUS
<1>5. p.cur = z.cur /\ p.off = z.off /\ p.on = FALSE
  BY <1>2, <1>3, <1>4 DEF Turn
<1> DEFINE V == {n \in Nat : n <= N => f[n] = p}
<1>6. 0 \in V
  BY <1>1, <1>4 DEF Loops
<1>7. ASSUME NEW n \in Nat, n \in V PROVE n + 1 \in V
  <2> SUFFICES ASSUME n + 1 <= N PROVE f[n + 1] = p
    OBVIOUS
  <2>1. n + 1 \in 1 .. Len(r) /\ (n + 1) - 1 = n /\ f[n] = p
    BY <1>2, <1>7
  <2>2. f[n + 1] = IF f[n].on THEN Turn(r, f[n]) ELSE f[n]
    BY <1>1, <2>1 DEF Loops
  <2> QED BY <1>5, <2>1, <2>2
<1> HIDE DEF V
<1>8. Nat \subseteq V
  BY <1>6, <1>7, Induction
<1>9. f[Len(r)] = p
  BY <1>2, <1>8 DEF V
<1> QED BY <1>1, <1>5, <1>9 DEF Copies

\* Copying the next part to the place where its packet goes on.
LEMMA CopyPack ==
  ASSUME LineInv, Copied, k <= Len(IndMem), NEW x \in known, IndMem[k].id = x, RNRId # x,
         x \notin forgot, ~Forgets(x), forgot \subseteq forgot',
         PackOf(x), Todo(x)' \subseteq Todo(x), sent'[x] = sent[x],
         NEW r \in Seq(Nat), NEW cur \in Nat, NEW off \in Nat,
         cur < Len(r) => off <= r[cur + 1], cur >= Len(r) => off = 0,
         Upto(r, cur) + off = Ind.before, Ind.total <= Total(r),
         CopyInd(x, r, cur, off)
  PROVE  PackOf(x)' /\ Copied'
<1>1. PICK e \in Rec : e = Ind /\ e = IndMem[k] /\ k \in DOMAIN IndMem /\ e.rnr = FALSE
  BY AtInd
<1>2. /\ x \in Entity /\ got \in [Entity -> Seq(Nat)] /\ sent \in [Entity -> Nat] /\ k \in Nat
      /\ RCurrent \in [Entity -> Nat] /\ ROffset \in [Entity -> Int]
      /\ R \in [Entity -> Seq(Nat)]
  BY DEF LineInv, Types
<1>3. PICK t \in Nat : t = Len(got[x]) /\ e.n = t + 1
  <2>1. IndMem[k].n = Len(got[x]) + 1
    BY NextInLine
  <2>2. got[x] \in Seq(Nat)
    BY <1>2
  <2>3. Len(got[x]) \in Nat
    BY <2>2
  <2> QED BY <1>1, <2>1, <2>3
<1>4. PICK u : u = Bare(e) /\ u \in Todo(x)
  <2>1. k \in Waits(IndMem, k, x)
    BY <1>1, <1>2 DEF Waits
  <2> QED BY <1>1, <2>1 DEF Todo, Items
<1>5. /\ u.n = e.n /\ u.len = e.len /\ u.before = e.before /\ u.total = e.total /\ u.last = e.last
      /\ e.len \in Nat /\ e.before \in Nat /\ e.total \in Nat /\ e.last \in BOOLEAN /\ e.n \in Nat
  BY <1>4 DEF Bare, Rec
<1>6. /\ Packs(Todo(x), sent[x])
      /\ Fine(u, sent[x]) /\ \A v \in Todo(x) : Joins(u, v)
  BY <1>4 DEF PackOf, Packs, Todo
<1>7. PICK w \in Nat : w = e.before + e.len /\ w <= e.total
  BY <1>5, <1>6 DEF Fine
<1>a. PICK L \in Nat, T \in Nat : L = Len(r) /\ T = Total(r) /\ T = Units(r, L)
  <2>1. Len(r) \in Nat /\ Len(r) \in 0 .. Len(r)
    OBVIOUS
  <2>2. Total(r) \in Nat
    BY <2>1, UnitsFacts DEF Total
  <2> QED BY <2>1, <2>2 DEF Total
<1>8. Upto(r, cur) + off = e.before /\ e.total <= T /\ w <= T
  <2>1. Upto(r, cur) + off = e.before /\ e.total <= T
    BY <1>1, <1>a
  <2> QED BY <1>5, <1>7, <2>1
<1>9. PICK z \in Places : z = [cur |-> cur, off |-> off, rest |-> e.len, on |-> TRUE]
  <2>1. cur \in Nat /\ off \in Int /\ e.len \in Int
    BY <1>5
  <2>2. PICK z : z = [cur |-> cur, off |-> off, rest |-> e.len, on |-> TRUE]
    OBVIOUS
  <2>3. z \in Places
    BY <2>1, <2>2 DEF Places
  <2> QED BY <2>2, <2>3
<1>10. z.cur = cur /\ z.off = off /\ z.rest = e.len /\ z.on = TRUE
  BY <1>9
<1>b. PICK at : at = Copy(r, cur, off, e.len)
  OBVIOUS
<1>12. /\ at[1] \in Nat /\ at[2] \in Nat
       /\ at[1] < L => at[2] <= r[at[1] + 1]
       /\ at[1] >= L => at[2] = 0 /\ e.before = T
       /\ Upto(r, at[1]) + at[2] = w
       /\ cur >= L => at[1] >= L
  <2>1. CASE cur < L
    <3>1. PICK B \in Nat : B = Units(r, cur) /\ B = Upto(r, cur)
      <4>1. cur \in 0 .. Len(r) /\ Upto(r, cur) = Units(r, cur)
        BY <1>a, <2>1 DEF Upto
      <4> QED BY <4>1, UnitsFacts
    <3>2. Stands(r, z, w)
      <4>1. B + off + e.len = w
        BY <1>5, <1>7, <1>8, <3>1
      <4>2. cur \in 0 .. Len(r) /\ cur # Len(r)
        BY <1>a, <2>1
      <4> QED BY <1>5, <1>10, <3>1, <4>1, <4>2 DEF Stands
    <3>3. PICK p \in Places :
            /\ at[1] = p.cur /\ at[2] = p.off /\ Stands(r, p, w) /\ p.rest = 0
            /\ p.cur = L => B + off = T
      <4>1. w <= Total(r)
        BY <1>8, <1>a
      <4>2. z.on = TRUE
        BY <1>10
      <4>3. PICK p \in Places :
              /\ Copy(r, z.cur, z.off, z.rest)[1] = p.cur /\ Copy(r, z.cur, z.off, z.rest)[2] = p.off
              /\ Stands(r, p, w) /\ p.rest = 0
              /\ p.cur = Len(r) => Units(r, z.cur) + z.off = Total(r)
        BY <3>2, <4>1, <4>2, CopyStands
      <4> QED BY <1>10, <1>a, <1>b, <3>1, <4>3
    <3>4. PICK c \in 0 .. L, o \in Nat : c = p.cur /\ o = p.off
      BY <1>a, <3>3 DEF Stands
    <3>5. /\ c < L => o <= r[c + 1]
          /\ c = L => o = 0
          /\ Units(r, c) + o + 0 = w
      BY <1>a, <3>3, <3>4 DEF Stands
    <3>6. Units(r, c) \in Nat /\ Upto(r, c) = Units(r, c)
      BY <1>a, <3>4, UnitsFacts DEF Upto
    <3>7. Upto(r, c) + o = w /\ (c >= L => c = L)
      BY <3>5, <3>6
    <3>8. at[1] = c /\ at[2] = o /\ c \in Nat
      BY <3>3, <3>4
    <3>9. c >= L => e.before = T
      BY <1>8, <3>1, <3>3, <3>4, <3>7
    <3>10. ~(cur >= L)
      BY <2>1
    <3> QED BY <3>5, <3>7, <3>8, <3>9, <3>10
  <2>2. CASE ~(cur < L)
    <3>1. cur >= L /\ off = 0 /\ Upto(r, cur) = T
      BY <1>a, <2>2 DEF Upto
    <3>2. e.before = T /\ w = T
      BY <1>5, <1>7, <1>8, <3>1
    <3>3. Copy(r, z.cur, z.off, z.rest) = <<z.cur, z.off>>
      <4>1. z.cur >= Len(r) /\ z.on = TRUE
        BY <1>10, <1>a, <3>1
      <4> QED BY <4>1, CopyBehind
    <3>4. at = <<cur, off>>
      BY <1>10, <1>b, <3>3
    <3>5. at[1] = cur /\ at[2] = off
      BY <3>4
    <3> QED BY <1>a, <3>1, <3>2, <3>5
  <2> QED BY <2>1, <2>2
<1>c. PICK pass \in {0, 1} :
        /\ cur < L => pass = 0
        /\ R' = [R EXCEPT ![x] = r] /\ ROffset' = [ROffset EXCEPT ![x] = at[2]]
        /\ RCurrent' = [RCurrent EXCEPT ![x] = IF e.last THEN 255 ELSE at[1] + pass]
        /\ copied' = IF e.last
                     THEN [copied EXCEPT ![x] = <<Filled(r, at[1] + pass, at[2]), e.total>>]
                     ELSE copied
        /\ behind' = IF cur >= L \/ (e.last /\ at[1] + pass >= L)
                     THEN [behind EXCEPT ![x] = <<e.total - e.before, T - e.total>>]
                     ELSE behind
        /\ got' = [got EXCEPT ![x] = Append(got[x], e.n)] /\ RNR' = RNR
  <2>1. at = Copy(r, cur, off, Ind.len)
    BY <1>1, <1>b
  <2>2. PICK pass \in {0, 1} :
          /\ cur < Len(r) => pass = 0
          /\ R' = [R EXCEPT ![x] = r] /\ ROffset' = [ROffset EXCEPT ![x] = at[2]]
          /\ RCurrent' = [RCurrent EXCEPT ![x] = IF Ind.last THEN 255 ELSE at[1] + pass]
          /\ copied' = IF Ind.last
                       THEN [copied EXCEPT ![x] = <<Filled(r, at[1] + pass, at[2]), Ind.total>>]
                       ELSE copied
          /\ behind' = IF cur >= Len(r) \/ (Ind.last /\ at[1] + pass >= Len(r))
                       THEN [behind EXCEPT ![x] = <<Ind.total - Ind.before, Total(r) - Ind.total>>]
                       ELSE behind
          /\ Took(x) /\ RNR' = RNR
    BY <2>1 DEF CopyInd
  <2>3. got' = [got EXCEPT ![x] = Append(got[x], Ind.n)]
    BY <2>2 DEF Took
  <2>4. Ind = e /\ Len(r) = L /\ Total(r) = T
    BY <1>1, <1>a
  <2> QED BY <2>2, <2>3, <2>4, Zenon
<1>13. PICK c \in Nat, o \in Nat :
         /\ c = at[1] + pass /\ o = at[2]
         /\ c < L => o <= r[c + 1]
         /\ c >= L => o = 0 /\ e.before = T
         /\ cur >= L => c >= L
         /\ Upto(r, c) + o = w
  <2>1. PICK c \in Nat, o \in Nat : c = at[1] + pass /\ o = at[2]
    <3>1. PICK a \in Nat : a = at[1]
      BY <1>12
    <3>2. a + pass \in Nat
      OBVIOUS
    <3> QED BY <1>12, <3>1, <3>2
  <2>2. CASE pass = 0
    <3>1. c = at[1]
      BY <1>12, <2>1, <2>2
    <3> QED BY <1>12, <2>1, <3>1
  <2>3. CASE pass = 1
    <3>1. cur >= L
      BY <1>c, <2>3
    <3>2. at[1] >= L /\ c >= L
      BY <1>12, <2>1, <2>3, <3>1
    <3>3. Upto(r, at[1]) = T /\ Upto(r, c) = T
      <4>1. ~(at[1] < L) /\ ~(c < L)
        BY <1>12, <3>2
      <4> QED BY <1>a, <4>1 DEF Upto
    <3> QED BY <1>12, <2>1, <3>2, <3>3
  <2> QED BY <2>2, <2>3
<1>15. /\ R' = [R EXCEPT ![x] = r] /\ ROffset' = [ROffset EXCEPT ![x] = o]
       /\ RCurrent' = [RCurrent EXCEPT ![x] = IF e.last THEN 255 ELSE c]
       /\ copied' = IF e.last THEN [copied EXCEPT ![x] = <<Filled(r, c, o), e.total>>] ELSE copied
       /\ behind' = IF cur >= L \/ (e.last /\ c >= L)
                    THEN [behind EXCEPT ![x] = <<e.total - e.before, T - e.total>>]
                    ELSE behind
       /\ got' = [got EXCEPT ![x] = Append(got[x], e.n)] /\ RNR' = RNR
  BY <1>c, <1>13
<1>d. /\ \A b, g : g = [copied EXCEPT ![x] = b] => Only(copied, g, x) /\ g[x] = b
      /\ \A b, g : g = [behind EXCEPT ![x] = b] => Only(behind, g, x) /\ g[x] = b
  <2>1. \A y \in Entity :
          /\ \A b, g : g = [copied EXCEPT ![y] = b] => Only(copied, g, y) /\ g[y] = b
          /\ \A b, g : g = [behind EXCEPT ![y] = b] => Only(behind, g, y) /\ g[y] = b
    <3>1. OfEntities(copied) /\ OfEntities(behind)
      BY DEF Copied
    <3> QED BY <3>1, Changed, Zenon
  <2>2. x \in Entity
    BY <1>2
  <2> QED BY <2>1, <2>2, Zenon
<1>16. Copied'
  <2>1. OfEntities(copied') /\ \A y \in Entity \ forgot' : copied'[y][1] = copied'[y][2]
    <3>1. CASE e.last
      <4>1. Filled(r, c, o) = Upto(r, c) + o
        <5>1. CASE c < L
          <6>1. c \in 0 .. Len(r) /\ (c = Len(r) => o = 0) /\ ~(c >= Len(r))
            BY <1>a, <5>1
          <6>2. PICK m : m = IF o # 0 THEN c + 1 ELSE c
            OBVIOUS
          <6>3. Total(SubSeq([r EXCEPT ![c + 1] = o], 1, m)) = Units(r, c) + o
            BY <6>1, <6>2, FilledUnits
          <6> QED BY <1>a, <5>1, <6>1, <6>2, <6>3 DEF Filled, Upto
        <5>2. CASE ~(c < L)
          <6>1. c >= Len(r) /\ ~(c < Len(r)) /\ o = 0
            BY <1>13, <1>a, <5>2
          <6>2. Filled(r, c, o) = Total(r) /\ Upto(r, c) = Total(r)
            BY <6>1 DEF Filled, Upto
          <6>3. PICK U \in Nat : U = Upto(r, c) /\ U = Filled(r, c, o)
            BY <1>a, <6>2
          <6>4. U + o = U
            BY <6>1
          <6> QED BY <6>3, <6>4
        <5> QED BY <5>1, <5>2
      <4>2. w = e.total
        BY <1>5, <1>6, <1>7, <3>1 DEF Fine
      <4>a. Filled(r, c, o) = e.total
        BY <1>13, <4>1, <4>2
      <4>b. PICK a : a = <<Filled(r, c, o), e.total>>
        OBVIOUS
      <4>3. a = <<Filled(r, c, o), e.total>> /\ a[1] = a[2]
        BY <4>a, <4>b
      <4>4. copied' = [copied EXCEPT ![x] = a]
        BY <1>15, <3>1, <4>3
      <4>5. Only(copied, copied', x) /\ copied'[x] = a
        BY <1>d, <4>4
      <4> QED BY <4>3, <4>5 DEF Copied, Only
    <3>2. CASE ~e.last
      <4>1. copied' = copied
        BY <1>15, <3>2
      <4> QED BY <4>1 DEF Copied
    <3> QED BY <1>5, <3>1, <3>2
  <2>2. OfEntities(behind') /\ \A y \in Entity \ forgot' : behind'[y] = <<0, 0>>
    <3>1. CASE cur >= L \/ (e.last /\ c >= L)
      <4>1. e.before = T
        BY <1>13, <3>1
      <4>2. e.total - e.before = 0 /\ T - e.total = 0
        BY <1>5, <1>7, <1>8, <4>1
      <4>3. PICK a : a = <<e.total - e.before, T - e.total>> /\ a = <<0, 0>>
        BY <4>2
      <4>4. behind' = [behind EXCEPT ![x] = a]
        BY <1>15, <3>1, <4>3
      <4>5. Only(behind, behind', x) /\ behind'[x] = a
        BY <1>d, <4>4
      <4> QED BY <4>3, <4>5 DEF Copied, Only
    <3>2. CASE ~(cur >= L \/ (e.last /\ c >= L))
      <4>1. behind' = behind
        BY <1>15, <3>2
      <4> QED BY <4>1 DEF Copied
    <3> QED BY <3>1, <3>2
  <2> QED BY <2>1, <2>2 DEF Copied
<1>17. PackOf(x)'
  <2>1. CASE e.last
    <3>1. RCurrent'[x] = 255
      <4>1. RCurrent' = [RCurrent EXCEPT ![x] = 255]
        BY <1>15, <2>1, Zenon
      <4> QED BY <1>2, <4>1, AtIt
    <3> QED BY <3>1, KeepsOut
  <2>2. CASE ~e.last
    <3>1. PICK K : K = Todo(x)' /\ K \subseteq Todo(x)
      OBVIOUS
    <3>2. PICK s \in Nat : s = sent[x]
      BY <1>2
    <3>3. Packs(K, s)
      BY <1>6, <3>1, <3>2, FewerParts
    <3>4. PICK g \in Seq(Nat) : g = got'[x] /\ Len(g) = t + 1
      <4>1. PICK h \in Seq(Nat) : h = got[x]
        BY <1>2
      <4>2. PICK g : g = Append(h, e.n)
        OBVIOUS
      <4>3. g \in Seq(Nat) /\ Len(g) = Len(h) + 1
        BY <1>5, <4>2, AppendProperties
      <4>4. got'[x] = g
        BY <1>2, <1>15, <4>1, <4>2
      <4> QED BY <1>3, <4>1, <4>3, <4>4
    <3>5. t + 1 < s
      BY <1>3, <1>5, <1>6, <2>2, <3>2 DEF Fine
    <3>7. ASSUME NEW v \in K, v.n = (t + 1) + 1
          PROVE  v.before = Upto(r, c) + o /\ v.total <= Total(r)
      <4>1. Joins(u, v)
        BY <1>6, <3>1
      <4>2. v.before = e.before + e.len /\ v.total = e.total
        BY <1>3, <1>5, <2>2, <3>7, <4>1 DEF Joins
      <4> QED BY <1>7, <1>8, <1>13, <1>a, <4>2
    <3>8. PICK d \in Nat : d = t + 1
      OBVIOUS
    <3>9. Middle(K, s, d, r, c, o)
      BY <1>13, <1>a, <3>5, <3>7, <3>8 DEF Middle
    <3>10. R'[x] = r /\ RCurrent'[x] = c /\ ROffset'[x] = o
      <4>1. RCurrent' = [RCurrent EXCEPT ![x] = c]
        BY <1>15, <2>2
      <4> QED BY <1>2, <1>15, <4>1
    <3>11. K = Items(IndMem', Waits(IndMem', k', x), cardInd'[x])
      BY <3>1 DEF Todo
    <3>12. sent'[x] = s /\ Len(got'[x]) = d
      BY <3>2, <3>4, <3>8
    <3> QED BY <3>3, <3>9, <3>10, <3>11, <3>12 DEF PackOf
  <2> QED BY <1>5, <2>1, <2>2
<1> QED BY <1>16, <1>17


\* A change of one entity is none of another.
LEMMA Beside ==
  ASSUME NEW S, NEW f \in [Entity -> S], NEW x, NEW y \in Entity, y # x
  PROVE  \A a, g : g = [f EXCEPT ![x] = a] => g[y] = f[y]
OBVIOUS

\* A turn of the loop touches the entity of its indication only.
LEMMA HandleBeside ==
  ASSUME LineInv, Handle, NEW y \in known, y # IndMem[k].id
  PROVE  /\ R'[y] = R[y] /\ RCurrent'[y] = RCurrent[y] /\ ROffset'[y] = ROffset[y]
         /\ RNR'[y] = RNR[y] /\ got'[y] = got[y]
<1>0. Offers \subseteq Seq(Nat)
  BY IndAssumption
<1>1. /\ k <= Len(IndMem) /\ sent' = sent
      /\ Ind = IndMem[k]
  BY <1>0, HandleTurn, AtInd
<1>2. PICK x : x = IndMem[k].id /\ x = Ind.id
  BY <1>1
<1>3. /\ RCurrent \in [Entity -> Nat] /\ ROffset \in [Entity -> Int]
      /\ RNR \in [Entity -> {0, 2}] /\ R \in [Entity -> Seq(Nat)]
      /\ got \in [Entity -> Seq(Nat)] /\ y \in Entity /\ y # x
  BY <1>2 DEF LineInv, Types
<1> DEFINE Same == /\ R'[y] = R[y] /\ RCurrent'[y] = RCurrent[y] /\ ROffset'[y] = ROffset[y]
                   /\ RNR'[y] = RNR[y] /\ got'[y] = got[y]
<1>a. /\ \A a, g : g = [RCurrent EXCEPT ![x] = a] => g[y] = RCurrent[y]
      /\ \A a, g : g = [ROffset EXCEPT ![x] = a] => g[y] = ROffset[y]
      /\ \A a, g : g = [RNR EXCEPT ![x] = a] => g[y] = RNR[y]
      /\ \A a, g : g = [R EXCEPT ![x] = a] => g[y] = R[y]
      /\ \A a, g : g = [got EXCEPT ![x] = a] => g[y] = got[y]
  BY <1>3, Beside, Zenon
<1>4. UNCHANGED <<host, got>> => Same
  BY DEF host
<1>5. Took(x) => got'[y] = got[y]
  BY <1>a, Zenon DEF Took
<1>6. ASSUME NEW r, NEW c, NEW o, CopyInd(x, r, c, o) PROVE Same
  <2>0. PICK at : at = Copy(r, c, o, Ind.len)
    OBVIOUS
  <2>3. PICK pass :
          /\ RCurrent' = [RCurrent EXCEPT ![x] = IF Ind.last THEN 255 ELSE at[1] + pass]
          /\ ROffset' = [ROffset EXCEPT ![x] = at[2]]
          /\ R' = [R EXCEPT ![x] = r] /\ RNR' = RNR /\ Took(x)
    BY <1>6, <2>0 DEF CopyInd
  <2>1. PICK a, b : RCurrent' = [RCurrent EXCEPT ![x] = a] /\ ROffset' = [ROffset EXCEPT ![x] = b]
    BY <2>3, Zenon
  <2>2. R' = [R EXCEPT ![x] = r] /\ RNR' = RNR /\ Took(x)
    BY <2>3
  <2> QED BY <1>a, <1>5, <2>1, <2>2, Zenon
<1> SUFFICES Same
  OBVIOUS
<1>7. CASE LookAhead(x)
  <2>1. CASE Refuse(x)
    BY <1>4, <2>1 DEF Refuse
  <2>2. CASE Took(x) /\ UNCHANGED host
    BY <1>5, <2>2 DEF host
  <2>3. CASE /\ RCurrent' = [RCurrent EXCEPT ![x] = IF Ind.last THEN 255 ELSE 0]
             /\ ROffset' = [ROffset EXCEPT ![x] = 0]
             /\ RNR' = [RNR EXCEPT ![x] = IF Ind.last THEN 0 ELSE 2]
             /\ Took(x) /\ UNCHANGED R
    <3>1. PICK a : a = IF Ind.last THEN 255 ELSE 0
      OBVIOUS
    <3>2. PICK c : c = IF Ind.last THEN 0 ELSE 2
      OBVIOUS
    <3>3. RCurrent' = [RCurrent EXCEPT ![x] = a]
      BY <2>3, <3>1, Zenon
    <3>4. RNR' = [RNR EXCEPT ![x] = c]
      BY <2>3, <3>2, Zenon
    <3> QED BY <1>a, <1>5, <2>3, <3>3, <3>4
  <2>4. CASE \E r \in Offers : CopyInd(x, r, 0, 0)
    BY <1>6, <2>4, Zenon
  <2> QED BY <1>7, <2>1, <2>2, <2>3, <2>4 DEF LookAhead
<1>8. CASE Continue(x)
  <2>1. CASE /\ RCurrent' = [RCurrent EXCEPT ![x] = IF Ind.last THEN 255 ELSE @]
             /\ RNR' = [RNR EXCEPT ![x] = IF Ind.last THEN 0 ELSE 2]
             /\ Took(x)
             /\ UNCHANGED <<ROffset, R>>
    <3>1. PICK a : a = IF Ind.last THEN 255 ELSE RCurrent[x]
      OBVIOUS
    <3>2. PICK c : c = IF Ind.last THEN 0 ELSE 2
      OBVIOUS
    <3>3. RCurrent' = [RCurrent EXCEPT ![x] = a]
      BY <2>1, <3>1, Zenon
    <3>4. RNR' = [RNR EXCEPT ![x] = c]
      BY <2>1, <3>2, Zenon
    <3> QED BY <1>a, <1>5, <2>1, <3>3, <3>4
  <2>2. CASE CopyInd(x, R[x], RCurrent[x], ROffset[x])
    BY <1>6, <2>2, Zenon
  <2> QED BY <1>8, <2>1, <2>2 DEF Continue
<1> HIDE DEF Same
<1> QED BY <1>2, <1>4, <1>7, <1>8 DEF Handle

\* So the packets of the others are kept.
LEMMA HandleOthers ==
  ASSUME LineInv, Handle, NEW y \in known, y # IndMem[k].id, PackOf(y)
  PROVE  PackOf(y)'
<1>1. sent' = sent
  BY HandleTurn, IndAssumption
<1>2. Todo(y)' \subseteq Todo(y)
  BY HandleTodo
<1> QED BY <1>1, <1>2, HandleBeside, Keeps


\* A turn of the loop and the entity of its indication.
LEMMA HandleSelf ==
  ASSUME LineInv, Copied, Handle, NEW x \in known, x = IndMem[k].id, x \notin forgot',
         PackOf(x)
  PROVE  PackOf(x)' /\ Copied'
<1>0. Offers \subseteq Seq(Nat)
  BY IndAssumption
<1>1. k <= Len(IndMem) /\ sent'[x] = sent[x] /\ Ind = IndMem[k] /\ Ind.id = x
  BY <1>0, HandleTurn, AtInd
<1>2. Todo(x)' \subseteq Todo(x)
  BY HandleTodo
<1>3. /\ RCurrent \in [Entity -> Nat] /\ ROffset \in [Entity -> Int]
      /\ RNR \in [Entity -> {0, 2}] /\ R \in [Entity -> Seq(Nat)]
      /\ got \in [Entity -> Seq(Nat)] /\ x \in Entity
  BY DEF LineInv, Types
<1>a. x \notin forgot /\ ~Forgets(x) /\ forgot \subseteq forgot'
  BY HandleForgets
<1>4. UNCHANGED <<copied, behind>> => Copied'
  BY <1>a DEF Copied
<1>5. UNCHANGED <<host, got, copied, behind>> => PackOf(x)' /\ Copied'
  <2> SUFFICES ASSUME UNCHANGED <<host, got, copied, behind>> PROVE PackOf(x)' /\ Copied'
    OBVIOUS
  <2>1. UNCHANGED <<R, RCurrent, ROffset, RNR, got, copied, behind>>
    BY DEF host
  <2>2. PackOf(x)'
    BY <1>1, <1>2, <2>1, Keeps
  <2> QED BY <1>4, <2>1, <2>2
<1>6. (RCurrent'[x] = 255 \/ RNR'[x] = 2) => PackOf(x)'
  BY <1>1, <1>2, KeepsOut
<1>7. CASE RNRId # x /\ x \in known /\ LookAhead(x)
  <2>1. RCurrent[x] = 255
    BY <1>7 DEF LookAhead
  <2>2. CASE Refuse(x)
    BY <1>5, <2>2 DEF Refuse
  <2>3. CASE Took(x) /\ UNCHANGED <<host, copied, behind>>
    <3>1. RCurrent'[x] = 255
      BY <2>1, <2>3 DEF host
    <3> QED BY <1>4, <1>6, <2>3, <3>1
  <2>4. CASE /\ RCurrent' = [RCurrent EXCEPT ![x] = IF Ind.last THEN 255 ELSE 0]
             /\ RNR' = [RNR EXCEPT ![x] = IF Ind.last THEN 0 ELSE 2]
             /\ UNCHANGED <<copied, behind>>
    <3>1. CASE Ind.last
      <4>1. RCurrent' = [RCurrent EXCEPT ![x] = 255]
        BY <2>4, <3>1, Zenon
      <4>2. RCurrent'[x] = 255
        BY <1>3, <4>1, AtIt, Zenon
      <4> QED BY <1>4, <1>6, <2>4, <4>2
    <3>2. CASE ~Ind.last
      <4>1. RNR' = [RNR EXCEPT ![x] = 2]
        BY <2>4, <3>2, Zenon
      <4>2. RNR'[x] = 2
        BY <1>3, <4>1, AtIt, Zenon
      <4> QED BY <1>4, <1>6, <2>4, <4>2
    <3> QED BY <3>1, <3>2
  <2>5. CASE /\ Ind.first \/ x \in forgot'
             /\ \E r \in Offers : Total(r) >= Ind.total /\ CopyInd(x, r, 0, 0)
    <3>1. PICK r \in Seq(Nat) : Total(r) >= Ind.total /\ CopyInd(x, r, 0, 0)
      BY <1>0, <2>5
    <3>2. PICK z \in Nat : z = 0
      OBVIOUS
    <3>3. CopyInd(x, r, z, z)
      BY <3>1, <3>2
    <3>4. PICK L \in Nat : L = Len(r)
      OBVIOUS
    <3>5. z < Len(r) => z <= r[z + 1]
      <4> SUFFICES ASSUME z < L PROVE z <= r[z + 1]
        BY <3>4
      <4>1. z + 1 \in 1 .. Len(r)
        BY <3>2, <3>4
      <4>2. r[z + 1] \in Nat
        BY <4>1, ElementOfSeq
      <4> QED BY <3>2, <4>2
    <3>6. z >= Len(r) => z = 0
      BY <3>2
    <3>7. Upto(r, z) = 0
      <4>1. z \in 0 .. Len(r) /\ Units(r, z) = 0
        <5>1. z \in 0 .. Len(r) /\ z = 0
          BY <3>2, <3>4
        <5> QED BY <5>1, UnitsFacts
      <4>2. ~(z < Len(r)) => z = Len(r)
        BY <3>2, <3>4
      <4> QED BY <4>1, <4>2 DEF Upto, Total
    <3>8. PICK e \in Rec : e = Ind /\ e = IndMem[k] /\ k \in DOMAIN IndMem
      BY <1>1, AtInd
    <3>9. e.before = 0
      <4>1. k \in Waits(IndMem, k, x)
        <5>1. k \in Nat
          BY DEF LineInv, Types
        <5> QED BY <3>8, <5>1 DEF Waits
      <4>2. PICK u : u = Bare(e) /\ u \in Todo(x)
        BY <3>8, <4>1 DEF Todo, Items
      <4>3. Fine(u, sent[x])
        BY <4>2 DEF PackOf, Packs, Todo
      <4>4. u.first = e.first /\ u.before = e.before
        BY <4>2 DEF Bare
      <4>5. e.first
        BY <2>5, <3>8
      <4> QED BY <4>3, <4>4, <4>5 DEF Fine
    <3>10. Upto(r, z) + z = Ind.before
      BY <3>2, <3>7, <3>8, <3>9
    <3>11. Ind.total <= Total(r)
      <4>1. Total(r) \in Nat
        <5>1. Len(r) \in 0 .. Len(r)
          BY <3>4
        <5> QED BY <5>1, UnitsFacts DEF Total
      <4>2. Ind.total \in Nat
        BY <3>8 DEF Rec
      <4> QED BY <3>1, <4>1, <4>2
    <3> QED BY <1>1, <1>2, <1>7, <1>a, <3>3, <3>5, <3>6, <3>10, <3>11, CopyPack
  <2> QED BY <1>7, <2>2, <2>3, <2>4, <2>5 DEF LookAhead
<1>8. CASE RNRId # x /\ x \in known /\ Continue(x)
  <2>1. RCurrent[x] # 255
    BY <1>8 DEF Continue
  <2>2. CASE /\ RCurrent' = [RCurrent EXCEPT ![x] = IF Ind.last THEN 255 ELSE @]
             /\ RNR' = [RNR EXCEPT ![x] = IF Ind.last THEN 0 ELSE 2]
             /\ UNCHANGED <<copied, behind>>
    <3>1. CASE Ind.last
      <4>1. RCurrent' = [RCurrent EXCEPT ![x] = 255]
        BY <2>2, <3>1, Zenon
      <4>2. RCurrent'[x] = 255
        BY <1>3, <4>1, AtIt, Zenon
      <4> QED BY <1>4, <1>6, <2>2, <4>2
    <3>2. CASE ~Ind.last
      <4>1. RNR' = [RNR EXCEPT ![x] = 2]
        BY <2>2, <3>2, Zenon
      <4>2. RNR'[x] = 2
        BY <1>3, <4>1, AtIt, Zenon
      <4> QED BY <1>4, <1>6, <2>2, <4>2
    <3> QED BY <3>1, <3>2
  <2>3. CASE RNR[x] # 2 /\ CopyInd(x, R[x], RCurrent[x], ROffset[x])
    <3>1. PICK r \in Seq(Nat), c \in Nat, o \in Int : r = R[x] /\ c = RCurrent[x] /\ o = ROffset[x]
      BY <1>3
    <3>2. Middle(Todo(x), sent[x], Len(got[x]), r, c, o)
      BY <2>1, <2>3, <3>1 DEF PackOf, Todo
    <3>3. o \in Nat /\ (c < Len(r) => o <= r[c + 1]) /\ (c >= Len(r) => o = 0)
      BY <3>2 DEF Middle
    <3>4. PICK e \in Rec : e = Ind /\ e = IndMem[k] /\ k \in DOMAIN IndMem
      BY <1>1, AtInd
    <3>5. PICK u : u = Bare(e) /\ u \in Todo(x)
      <4>1. k \in Waits(IndMem, k, x)
        <5>1. k \in Nat
          BY DEF LineInv, Types
        <5> QED BY <3>4, <5>1 DEF Waits
      <4> QED BY <3>4, <4>1 DEF Todo, Items
    <3>6. u.n = e.n /\ u.before = e.before /\ u.total = e.total
      BY <3>5 DEF Bare
    <3>7. e.n = Len(got[x]) + 1
      BY <1>1, <1>8, <1>a, <3>4, NextInLine
    <3>8. u.before = Upto(r, c) + o /\ u.total <= Total(r)
      BY <3>2, <3>5, <3>6, <3>7 DEF Middle
    <3>9. Upto(r, c) + o = Ind.before /\ Ind.total <= Total(r)
      BY <3>4, <3>6, <3>8
    <3>10. CopyInd(x, r, c, o)
      BY <2>3, <3>1
    <3> QED BY <1>1, <1>2, <1>8, <1>a, <3>1, <3>3, <3>9, <3>10, CopyPack
  <2> QED BY <1>8, <2>2, <2>3 DEF Continue
<1> QED BY <1>1, <1>5, <1>7, <1>8 DEF Handle


\* What is completed of a packet whose order pr_dpc has lost, or by nobody, is
\* not counted.
LEMMA HandleCopied ==
  ASSUME LineInv, Copied, Handle, NEW x \in Entity, x = IndMem[k].id,
         x \in forgot' \/ x \notin known
  PROVE  Copied'
<1>1. k <= Len(IndMem) /\ Ind = IndMem[k] /\ Ind.id = x
  <2>1. k <= Len(IndMem)
    BY DEF Handle
  <2> QED BY <2>1, AtInd
<1>2. forgot \subseteq forgot'
  BY HandleForgets
<1>3. UNCHANGED <<copied, behind>> => Copied'
  BY <1>2 DEF Copied
<1>4. OfEntities(copied) /\ OfEntities(behind)
  BY DEF Copied
<1>5. /\ \A a, g : g = [copied EXCEPT ![x] = a] => Only(copied, g, x)
      /\ \A a, g : g = [behind EXCEPT ![x] = a] => Only(behind, g, x)
      /\ Only(copied, copied, x) /\ Only(behind, behind, x)
  <2>1. Only(copied, copied, x) /\ Only(behind, behind, x)
    BY <1>4 DEF Only
  <2> QED BY <1>4, <2>1, Changed, Zenon
<1>6. x \in forgot' /\ Only(copied, copied', x) /\ Only(behind, behind', x) => Copied'
  BY <1>2 DEF Copied, Only
<1>7. ASSUME x \in forgot', NEW r, NEW c, NEW o, CopyInd(x, r, c, o) PROVE Copied'
  <2>0. PICK at : at = Copy(r, c, o, Ind.len)
    OBVIOUS
  <2>1. PICK pass :
          /\ copied' = IF Ind.last
                       THEN [copied EXCEPT ![x] = <<Filled(r, at[1] + pass, at[2]), Ind.total>>]
                       ELSE copied
          /\ behind' = IF c >= Len(r) \/ (Ind.last /\ at[1] + pass >= Len(r))
                       THEN [behind EXCEPT ![x] = <<Ind.total - Ind.before, Total(r) - Ind.total>>]
                       ELSE behind
    BY <1>7, <2>0 DEF CopyInd
  <2>2. copied' = copied \/ \E a : copied' = [copied EXCEPT ![x] = a]
    BY <2>1, Zenon
  <2>3. behind' = behind \/ \E a : behind' = [behind EXCEPT ![x] = a]
    BY <2>1, Zenon
  <2>4. Only(copied, copied', x) /\ Only(behind, behind', x)
    BY <1>5, <2>2, <2>3, Zenon
  <2> QED BY <1>6, <1>7, <2>4
<1>8. CASE RNRId # x /\ x \in known /\ LookAhead(x)
  <2>1. UNCHANGED <<copied, behind>> \/ \E r \in Offers : CopyInd(x, r, 0, 0)
    BY <1>8 DEF LookAhead, Refuse
  <2> QED BY <1>3, <1>7, <1>8, <2>1
<1>9. CASE RNRId # x /\ x \in known /\ Continue(x)
  <2>1. UNCHANGED <<copied, behind>> \/ CopyInd(x, R[x], RCurrent[x], ROffset[x])
    BY <1>9 DEF Continue
  <2> QED BY <1>3, <1>7, <1>9, <2>1
<1> QED BY <1>1, <1>3, <1>8, <1>9 DEF Handle

\* The packets are kept by a turn of the loop.
LEMMA HandlePack ==
  ASSUME LineInv, PackInv, Handle
  PROVE  PackInv'
<1>1. Copied /\ \A y \in known \ forgot : PackOf(y)
  BY DEF PackInv
<1>2. k <= Len(IndMem) /\ known' = known /\ forgot \subseteq forgot' /\ IndMem[k].id \in Entity
  <2>1. Offers \subseteq Seq(Nat)
    BY IndAssumption
  <2> QED BY <2>1, HandleTurn, HandleForgets
<1>3. \A y \in known' \ forgot' : PackOf(y)'
  <2> SUFFICES ASSUME NEW y \in known, y \notin forgot' PROVE PackOf(y)'
    BY <1>2
  <2>0. PackOf(y)
    BY <1>1, <1>2
  <2>1. CASE y = IndMem[k].id
    BY <1>1, <2>0, <2>1, HandleSelf
  <2>2. CASE y # IndMem[k].id
    BY <2>0, <2>2, HandleOthers
  <2> QED BY <2>1, <2>2
<1>4. Copied'
  <2>1. CASE IndMem[k].id \in known /\ IndMem[k].id \notin forgot'
    <3>1. PackOf(IndMem[k].id)
      BY <1>1, <1>2, <2>1
    <3> QED BY <1>1, <2>1, <3>1, HandleSelf
  <2>2. CASE IndMem[k].id \notin known \/ IndMem[k].id \in forgot'
    BY <1>1, <1>2, <2>2, HandleCopied
  <2> QED BY <2>1, <2>2
<1> QED BY <1>3, <1>4 DEF PackInv

\* A new entity is in the middle of no packet and has nothing to take.
LEMMA AssignPack ==
  ASSUME LineInv, NEW x \in Entity, AssignRc(x), NEW y \in known',
         y \in known => PackOf(y)
  PROVE  PackOf(y)'
<1>1. /\ x \notin known /\ ~Pending(x) /\ known' = known \cup {x} /\ y \in Entity
      /\ RCurrent' = [RCurrent EXCEPT ![x] = 255]
      /\ sent' = [sent EXCEPT ![x] = 0] /\ got' = [got EXCEPT ![x] = <<>>]
      /\ UNCHANGED <<ROffset, RNR, R, IndMem, k, cardInd>>
  BY DEF AssignRc, LineInv, Types, host
<1>2. /\ RCurrent \in [Entity -> Nat] /\ sent \in [Entity -> Nat]
      /\ got \in [Entity -> Seq(Nat)]
  BY DEF LineInv, Types
<1>3. Todo(y)' = Todo(y)
  BY <1>1 DEF Todo
<1>4. CASE y # x
  <2>1. y \in known /\ PackOf(y)
    BY <1>1, <1>4
  <2>2. RCurrent'[y] = RCurrent[y] /\ sent'[y] = sent[y] /\ got'[y] = got[y]
    BY <1>1, <1>2, <1>4, Beside, Zenon
  <2> QED BY <1>1, <1>3, <2>1, <2>2, Keeps
<1>5. CASE y = x
  <2>1. Waits(IndMem, k, x) = {}
    BY <1>1 DEF Waits, Pending
  <2>2. cardInd[x] = <<>>
    BY <1>1 DEF LineInv
  <2>3. DOMAIN cardInd[x] = {}
    BY <2>2
  <2>4. Todo(x) = {}
    BY <2>1, <2>3 DEF Todo, Items
  <2>5. Items(IndMem', Waits(IndMem', k', x), cardInd'[x]) = {}
    BY <1>1, <2>4 DEF Todo
  <2>6. Packs({}, sent'[x])
    BY DEF Packs
  <2>7. RCurrent'[x] = 255
    <3>1. RCurrent' = [RCurrent EXCEPT ![x] = 255]
      BY <1>1
    <3> QED BY <1>2, <3>1, AtIt
  <2> QED BY <1>5, <2>5, <2>6, <2>7 DEF PackOf
<1> QED BY <1>4, <1>5

\* The packets of the others are kept when an entity goes.
LEMMA RemovePack ==
  ASSUME LineInv, NEW x \in Entity, RemoveRc(x), NEW y \in known', PackOf(y)
  PROVE  PackOf(y)'
<1>1. /\ y \in known /\ y # x /\ y \in Entity
      /\ RNR' = [RNR EXCEPT ![x] = 0] /\ cardInd' = [cardInd EXCEPT ![x] = <<>>]
      /\ UNCHANGED <<RCurrent, ROffset, R, IndMem, k, sent, got>>
  BY DEF RemoveRc, LineInv, Types, history
<1>2. RNR \in [Entity -> {0, 2}] /\ cardInd \in [Entity -> Seq(Rec)]
  BY DEF LineInv, Types
<1>3. RNR'[y] = RNR[y] /\ cardInd'[y] = cardInd[y]
  BY <1>1, <1>2, Beside, Zenon
<1>4. Todo(y)' = Todo(y)
  BY <1>1, <1>3 DEF Todo
<1> QED BY <1>1, <1>3, <1>4, Keeps

\* The packets are kept when an entity is assigned: nothing is counted of it.
LEMMA AssignCopied ==
  ASSUME LineInv, Copied, NEW x \in Entity, AssignRc(x)
  PROVE  Copied'
<1>0. PICK a : a = <<0, 0>>
  OBVIOUS
<1>1. a = <<0, 0>> /\ a[1] = a[2]
  BY <1>0
<1>2. copied' = [copied EXCEPT ![x] = a] /\ behind' = [behind EXCEPT ![x] = a]
  BY <1>1 DEF AssignRc
<1>3. forgot' = forgot \ {x}
  BY DEF AssignRc
<1>4. /\ Only(copied, copied', x) /\ copied'[x] = a
      /\ Only(behind, behind', x) /\ behind'[x] = a
  <2>1. OfEntities(copied) /\ OfEntities(behind)
    BY DEF Copied
  <2>2. /\ \A b, g : g = [copied EXCEPT ![x] = b] => Only(copied, g, x) /\ g[x] = b
        /\ \A b, g : g = [behind EXCEPT ![x] = b] => Only(behind, g, x) /\ g[x] = b
    BY <2>1, Changed
  <2> QED BY <1>2, <2>2
<1>5. \A y \in Entity \ forgot' : y = x \/ y \in Entity \ forgot
  BY <1>3
<1> QED BY <1>1, <1>4, <1>5 DEF Copied, Only

\* Nothing is sent and nothing copied in the initial state.
LEMMA InitPack ==
  ASSUME Init
  PROVE  PackInv
<1>0. PICK a : a = <<0, 0>>
  OBVIOUS
<1>1. a = <<0, 0>> /\ a[1] = a[2]
  BY <1>0
<1>2. copied = [x \in Entity |-> a] /\ behind = [x \in Entity |-> a] /\ known = {}
  BY <1>1 DEF Init
<1>3. OfEntities(copied) /\ OfEntities(behind)
  BY <1>2 DEF OfEntities
<1> QED BY <1>1, <1>2, <1>3 DEF PackInv, Copied

\* The packets are kept by every step.
LEMMA NextPack ==
  ASSUME LineInv, PackInv, [Next]_vars
  PROVE  PackInv'
<1>1. Copied /\ \A y \in known \ forgot : PackOf(y)
  BY DEF PackInv
<1>2. UNCHANGED <<copied, behind, forgot>> => Copied'
  BY <1>1 DEF Copied
<1> SUFFICES ASSUME ~Handle
             PROVE  Copied' /\ \A y \in known' \ forgot' : PackOf(y)'
  BY HandlePack DEF PackInv
<1>3. CASE \E x \in Entity : AssignRc(x)
  <2>1. PICK x \in Entity : AssignRc(x)
    BY <1>3
  <2>2. ASSUME NEW y \in known' \ forgot' PROVE PackOf(y)'
    <3>1. y \in known => PackOf(y)
      BY <1>1, <2>1 DEF AssignRc
    <3> QED BY <2>1, <3>1, AssignPack
  <2>3. Copied'
    BY <1>1, <2>1, AssignCopied
  <2> QED BY <2>2, <2>3
<1>4. CASE \E x \in Entity : RemoveRc(x)
  <2>1. PICK x \in Entity : RemoveRc(x)
    BY <1>4
  <2>2. UNCHANGED <<copied, behind, forgot>> /\ known' = known \ {x}
    BY <2>1 DEF RemoveRc, history
  <2>3. \A y \in known' \ forgot' : PackOf(y)'
    BY <1>1, <2>1, <2>2, RemovePack
  <2> QED BY <1>2, <2>2, <2>3
<1>5. CASE \E x \in Entity : CardPut(x)
  <2>1. PICK x \in Entity : CardPut(x)
    BY <1>5
  <2>2. UNCHANGED <<known, R, RCurrent, ROffset, RNR, sent, got, copied, behind, forgot>>
    BY <2>1 DEF CardPut, host, history
  <2>3. ASSUME NEW y \in known \ forgot PROVE PackOf(y)'
    <3>1. Todo(y)' \subseteq Todo(y)
      BY <2>1, CardPutTodo
    <3> QED BY <1>1, <2>2, <3>1, Keeps
  <2> QED BY <1>2, <2>2, <2>3
<1>6. CASE \E x \in Entity, p \in Packets : CardPacket(x, p)
  <2>1. PICK x \in Entity, p \in Packets : CardPacket(x, p)
    BY <1>6
  <2>2. UNCHANGED <<known, copied, behind, forgot>>
    BY <2>1 DEF CardPacket, host, history
  <2>3. \A y \in known \ forgot : PackOf(y)'
    BY <1>1, <2>1, CardPacketPack
  <2> QED BY <1>2, <2>2, <2>3
<1>7. CASE LoopEnd
  <2>1. UNCHANGED <<known, R, RCurrent, ROffset, RNR, sent, got, copied, behind, forgot>>
    BY <1>7 DEF LoopEnd, host, history
  <2>2. ASSUME NEW y \in known \ forgot PROVE PackOf(y)'
    <3>1. Todo(y)' \subseteq Todo(y)
      BY <1>7, LoopEndTodo
    <3> QED BY <1>1, <2>1, <3>1, Keeps
  <2> QED BY <1>2, <2>1, <2>2
<1>8. CASE CardIrq \/ UNCHANGED vars
  <2>1. UNCHANGED <<known, R, RCurrent, ROffset, RNR, IndMem, k, cardInd, sent, got, copied,
                    behind, forgot>>
    BY <1>8 DEF CardIrq, vars, host, history
  <2>2. ASSUME NEW y \in known \ forgot PROVE PackOf(y)'
    <3>1. Todo(y)' = Todo(y)
      BY <2>1 DEF Todo
    <3> QED BY <1>1, <2>1, <3>1, Keeps
  <2> QED BY <1>2, <2>1, <2>2
<1> QED BY <1>3, <1>4, <1>5, <1>6, <1>7, <1>8 DEF Next

\* The client finds the whole packet in its buffers at the receive complete
\* callback, however its buffers and those of the chain are cut: isdn_ind goes
\* on where the buffer before ended, and none is lost or taken twice.  (Not of
\* an entity whose refused indication pr_dpc has forgotten.)
THEOREM PacketCompleteTheorem == Spec => []PacketComplete
<1>1. Init => LineInv /\ PackInv
  BY InitLine, InitPack
<1>2. LineInv /\ PackInv /\ [Next]_vars => (LineInv /\ PackInv)'
  BY NextLine, NextPack
<1>3. LineInv /\ PackInv => PacketComplete
  BY DEF PackInv, Copied, PacketComplete
<1> QED BY <1>1, <1>2, <1>3, PTL DEF Spec

(***************************************************************************)
(* The client's buffers.                                                   *)
(***************************************************************************)
\* A place is in the buffer it names, unless it is behind them all.
In(r, c, o) == c < Len(r) => o <= r[c + 1]

\* Whatever a part holds, the copy stays in the buffers.
LEMMA TurnInside ==
  ASSUME NEW r \in Seq(Nat), NEW at \in Places, at.rest \in Nat, In(r, at.cur, at.off)
  PROVE  Turn(r, at).rest \in Nat /\ In(r, Turn(r, at).cur, Turn(r, at).off)
<1> DEFINE full == at.cur < Len(r) /\ at.off = r[at.cur + 1]
           c == IF full THEN at.cur + 1 ELSE at.cur
           o == IF full THEN 0 ELSE at.off
           n == IF r[c + 1] - o < at.rest THEN r[c + 1] - o ELSE at.rest
<1>1. at.cur \in Nat /\ at.off \in Int /\ at.rest \in Nat /\ Len(r) \in Nat
  BY DEF Places
<1>2. c \in Nat /\ o \in Int
  BY <1>1
<1>3. Turn(r, at) = IF c >= Len(r) THEN [cur |-> c, off |-> o, rest |-> at.rest, on |-> FALSE]
                    ELSE [cur |-> c, off |-> o + n, rest |-> at.rest - n, on |-> n < at.rest]
  BY DEF Turn
<1>4. c < Len(r) => o <= r[c + 1]
  <2> SUFFICES ASSUME c < Len(r) PROVE o <= r[c + 1]
    OBVIOUS
  <2>1. CASE full
    <3>1. c + 1 \in 1 .. Len(r) /\ o = 0
      BY <1>1, <1>2, <2>1
    <3>2. r[c + 1] \in Nat
      BY <3>1, ElementOfSeq
    <3> QED BY <3>1, <3>2
  <2>2. CASE ~full
    BY <2>2 DEF In
  <2> QED BY <2>1, <2>2
<1> HIDE DEF c, o
<1>5. CASE c >= Len(r)
  <2>1. Turn(r, at).cur = c /\ Turn(r, at).off = o /\ Turn(r, at).rest = at.rest
    BY <1>3, <1>5
  <2> QED BY <1>1, <1>4, <2>1 DEF In
<1>6. CASE ~(c >= Len(r))
  <2>1. c + 1 \in 1 .. Len(r) /\ c < Len(r)
    BY <1>1, <1>2, <1>6
  <2>2. PICK m \in Nat : m = r[c + 1]
    BY <2>1, ElementOfSeq
  <2>3. n \in Int /\ at.rest - n \in Nat /\ o + n <= m
    BY <1>1, <1>2, <1>4, <2>1, <2>2
  <2>4. Turn(r, at).cur = c /\ Turn(r, at).off = o + n /\ Turn(r, at).rest = at.rest - n
    BY <1>3, <1>6
  <2> HIDE DEF n
  <2> QED BY <2>2, <2>3, <2>4 DEF In
<1> QED BY <1>5, <1>6

\* So does the whole of it.
LEMMA CopyInside ==
  ASSUME NEW r \in Seq(Nat), NEW cur \in Nat, NEW off \in Int, NEW len \in Nat, In(r, cur, off),
         NEW to, to = Copy(r, cur, off, len)
  PROVE  In(r, to[1], to[2]) /\ (cur >= Len(r) => to[1] = cur)
<1>1. PICK z : z = [cur |-> cur, off |-> off, rest |-> len, on |-> TRUE]
  OBVIOUS
<1>2. z \in Places
  BY <1>1 DEF Places
<1>3. z.cur = cur /\ z.off = off /\ z.rest = len /\ z.on = TRUE
  BY <1>1
<1>4. PICK f : Loops(f, r, z) /\ Copies(f, r, z)
  BY <1>2, <1>3, LoopsFrom, Zenon
<1>5. PICK N \in Nat : N = Len(r)
  OBVIOUS
<1>6. to[1] = f[N].cur /\ to[2] = f[N].off
  BY <1>3, <1>4, <1>5 DEF Copies
<1> DEFINE Good(p) == p \in Places /\ p.rest \in Nat /\ In(r, p.cur, p.off)
<1>7. \A p : Good(p) => Good(Turn(r, p))
  BY TurnInside, TurnPlace
<1>8. Good(z)
  BY <1>2, <1>3
<1> HIDE DEF Good
<1> DEFINE V == {n \in Nat : n <= N => Good(f[n])}
<1>9. 0 \in V
  BY <1>4, <1>7, <1>8 DEF Loops
<1>10. ASSUME NEW n \in Nat, n \in V PROVE n + 1 \in V
  <2> SUFFICES ASSUME n + 1 <= N PROVE Good(f[n + 1])
    OBVIOUS
  <2>1. n + 1 \in 1 .. Len(r) /\ (n + 1) - 1 = n /\ Good(f[n])
    BY <1>5, <1>10
  <2>2. f[n + 1] = IF f[n].on THEN Turn(r, f[n]) ELSE f[n]
    BY <1>4, <2>1 DEF Loops
  <2> QED BY <1>7, <2>1, <2>2
<1> HIDE DEF V
<1>11. Nat \subseteq V
  BY <1>9, <1>10, Induction
<1>12. Good(f[N])
  BY <1>5, <1>11 DEF V
<1>13. cur >= Len(r) => to[1] = cur
  <2> SUFFICES ASSUME cur >= Len(r) PROVE to[1] = cur
    OBVIOUS
  <2>1. Copy(r, z.cur, z.off, z.rest) = <<z.cur, z.off>>
    BY <1>2, <1>3, CopyBehind
  <2> QED BY <1>3, <2>1
<1> QED BY <1>6, <1>12, <1>13 DEF Good

\* Every entity that is in the middle of a packet is in its buffers, or behind.
Placed(x) == RCurrent[x] # 255 /\ RNR[x] # 2 => In(R[x], RCurrent[x], ROffset[x])
Inside == \A x \in known : Placed(x)

\* A copy leaves its entity there.
LEMMA CopyIndInside ==
  ASSUME LineInv, k <= Len(IndMem), NEW x \in Entity, NEW r \in Seq(Nat), NEW cur \in Nat,
         NEW off \in Int, In(r, cur, off), CopyInd(x, r, cur, off)
  PROVE  Placed(x)'
<1>1. PICK at : at = Copy(r, cur, off, Ind.len)
  OBVIOUS
<1>2. Ind.len \in Nat
  BY AtInd DEF Rec
<1>3. In(r, at[1], at[2]) /\ (cur >= Len(r) => at[1] = cur) /\ at[1] \in Nat /\ at[2] \in Int
  BY <1>1, <1>2, CopyInside, CopyPlace
<1>4. PICK pass \in {0, 1} :
        /\ cur < Len(r) => pass = 0
        /\ R' = [R EXCEPT ![x] = r]
        /\ ROffset' = [ROffset EXCEPT ![x] = at[2]]
        /\ RCurrent' = [RCurrent EXCEPT ![x] = IF Ind.last THEN 255 ELSE at[1] + pass]
  BY <1>1 DEF CopyInd
<1>5. PICK c \in Nat : c = at[1] + pass
  BY <1>3
<1>6. In(r, c, at[2])
  <2>1. CASE pass = 0
    BY <1>3, <1>5, <2>1
  <2>2. CASE pass = 1
    <3>1. ~(c < Len(r))
      BY <1>3, <1>4, <1>5, <2>2
    <3> QED BY <3>1 DEF In
  <2> QED BY <2>1, <2>2
<1>7. /\ RCurrent \in [Entity -> Nat] /\ ROffset \in [Entity -> Int] /\ R \in [Entity -> Seq(Nat)]
  BY DEF LineInv, Types
<1>8. R'[x] = r /\ ROffset'[x] = at[2]
  BY <1>4, <1>7
<1>9. RCurrent'[x] = 255 \/ RCurrent'[x] = c
  <2>1. PICK a : a = IF Ind.last THEN 255 ELSE at[1] + pass
    OBVIOUS
  <2>2. RCurrent' = [RCurrent EXCEPT ![x] = a]
    BY <1>4, <2>1, Zenon
  <2>3. RCurrent'[x] = a
    BY <1>7, <2>2, AtIt, Zenon
  <2> QED BY <1>5, <2>1, <2>3
<1> QED BY <1>6, <1>8, <1>9 DEF Placed

\* The turn of the loop that handles an indication.
LEMMA HandleInside ==
  ASSUME LineInv, Inside, Handle
  PROVE  Inside'
<1>1. Offers \subseteq Seq(Nat) /\ known \subseteq Entity
  BY IndAssumption DEF LineInv, Types
<1>2. k <= Len(IndMem) /\ known' = known /\ Ind = IndMem[k]
  BY <1>1, HandleTurn, AtInd
<1>3. PICK x \in Entity : x = IndMem[k].id /\ x = Ind.id
  BY <1>2, AtInd DEF Rec
<1>4. /\ RCurrent \in [Entity -> Nat] /\ ROffset \in [Entity -> Int]
      /\ RNR \in [Entity -> {0, 2}] /\ R \in [Entity -> Seq(Nat)]
  BY DEF LineInv, Types
<1>5. ASSUME NEW y \in known, y # x PROVE Placed(y)'
  <2>1. /\ R'[y] = R[y] /\ RCurrent'[y] = RCurrent[y] /\ ROffset'[y] = ROffset[y]
        /\ RNR'[y] = RNR[y]
    BY <1>3, <1>5, HandleBeside
  <2> QED BY <1>5, <2>1 DEF Inside, Placed
<1> SUFFICES ASSUME x \in known PROVE Placed(x)'
  BY <1>2, <1>5 DEF Inside
<1>6. Placed(x)
  BY DEF Inside
<1>7. UNCHANGED host => Placed(x)'
  BY <1>6 DEF host, Placed
<1>8. RCurrent'[x] = 255 \/ RNR'[x] = 2 => Placed(x)'
  BY DEF Placed
<1>9. CASE LookAhead(x)
  <2>1. CASE UNCHANGED host
    BY <1>7, <2>1
  <2>2. CASE /\ RCurrent' = [RCurrent EXCEPT ![x] = IF Ind.last THEN 255 ELSE 0]
             /\ RNR' = [RNR EXCEPT ![x] = IF Ind.last THEN 0 ELSE 2]
    <3>1. CASE Ind.last
      <4>1. RCurrent' = [RCurrent EXCEPT ![x] = 255]
        BY <2>2, <3>1, Zenon
      <4> QED BY <1>4, <1>8, <4>1, AtIt, Zenon
    <3>2. CASE ~Ind.last
      <4>1. RNR' = [RNR EXCEPT ![x] = 2]
        BY <2>2, <3>2, Zenon
      <4> QED BY <1>4, <1>8, <4>1, AtIt, Zenon
    <3> QED BY <3>1, <3>2
  <2>3. CASE \E r \in Offers : CopyInd(x, r, 0, 0)
    <3>1. PICK r \in Seq(Nat) : CopyInd(x, r, 0, 0)
      BY <1>1, <2>3
    <3>2. In(r, 0, 0)
      <4> SUFFICES ASSUME 0 < Len(r) PROVE 0 <= r[1]
        BY DEF In
      <4>1. 1 \in 1 .. Len(r)
        OBVIOUS
      <4>2. r[1] \in Nat
        BY <4>1, ElementOfSeq
      <4> QED BY <4>2
    <3>3. PICK z \in Nat : z = 0
      OBVIOUS
    <3> QED BY <1>2, <3>1, <3>2, <3>3, CopyIndInside
  <2> QED BY <1>9, <2>1, <2>2, <2>3 DEF LookAhead, Refuse
<1>10. CASE Continue(x)
  <2>1. CASE /\ RCurrent' = [RCurrent EXCEPT ![x] = IF Ind.last THEN 255 ELSE @]
             /\ RNR' = [RNR EXCEPT ![x] = IF Ind.last THEN 0 ELSE 2]
    <3>1. CASE Ind.last
      <4>1. RCurrent' = [RCurrent EXCEPT ![x] = 255]
        BY <2>1, <3>1, Zenon
      <4> QED BY <1>4, <1>8, <4>1, AtIt, Zenon
    <3>2. CASE ~Ind.last
      <4>1. RNR' = [RNR EXCEPT ![x] = 2]
        BY <2>1, <3>2, Zenon
      <4> QED BY <1>4, <1>8, <4>1, AtIt, Zenon
    <3> QED BY <3>1, <3>2
  <2>2. CASE RCurrent[x] # 255 /\ RNR[x] # 2 /\ CopyInd(x, R[x], RCurrent[x], ROffset[x])
    <3>1. PICK r \in Seq(Nat), c \in Nat, o \in Int : r = R[x] /\ c = RCurrent[x] /\ o = ROffset[x]
      BY <1>4
    <3>2. In(r, c, o) /\ CopyInd(x, r, c, o)
      BY <1>6, <2>2, <3>1 DEF Placed
    <3> QED BY <1>2, <3>2, CopyIndInside
  <2> QED BY <1>10, <2>1, <2>2 DEF Continue
<1> QED BY <1>2, <1>3, <1>7, <1>9, <1>10 DEF Handle

\* Every step.
LEMMA NextInside ==
  ASSUME LineInv, Inside, [Next]_vars
  PROVE  Inside'
<1>1. /\ RCurrent \in [Entity -> Nat] /\ RNR \in [Entity -> {0, 2}] /\ known \subseteq Entity
  BY DEF LineInv, Types
<1>2. CASE \E x \in Entity : AssignRc(x)
  <2>1. PICK x \in Entity : AssignRc(x)
    BY <1>2
  <2>2. /\ known' = known \cup {x} /\ RCurrent' = [RCurrent EXCEPT ![x] = 255]
        /\ UNCHANGED <<ROffset, RNR, R>>
    BY <2>1 DEF AssignRc
  <2>3. RCurrent'[x] = 255 /\ \A y \in Entity : y # x => RCurrent'[y] = RCurrent[y]
    BY <1>1, <2>2
  <2> QED BY <1>1, <2>2, <2>3 DEF Inside, Placed
<1>3. CASE \E x \in Entity : RemoveRc(x)
  <2>1. PICK x \in Entity : RemoveRc(x)
    BY <1>3
  <2>2. /\ known' = known \ {x} /\ RNR' = [RNR EXCEPT ![x] = 0]
        /\ UNCHANGED <<RCurrent, ROffset, R>>
    BY <2>1 DEF RemoveRc
  <2>3. \A y \in known' : RNR'[y] = RNR[y] /\ y \in known
    BY <1>1, <2>2
  <2> QED BY <2>2, <2>3 DEF Inside, Placed
<1>4. CASE UNCHANGED host
  BY <1>4 DEF Inside, Placed, host
<1>5. CASE Handle
  BY <1>5, HandleInside
<1> QED BY <1>2, <1>3, <1>4, <1>5 DEF Next, vars, CardPut, CardPacket, CardIrq, LoopEnd

\* isdn_ind copies nothing outside the client's buffers, whatever the order of
\* the parts, and it touches the entry behind them (di.c:865, di.c:896) only
\* for an empty part at the end of a packet that fills them exactly.  (The
\* second not of an entity whose refused indication pr_dpc has forgotten.)
THEOREM WithinBuffersTheorem == Spec => []WithinBuffers
<1>1. Init => LineInv /\ PackInv /\ Inside
  BY InitLine, InitPack DEF Init, Inside
<1>2. LineInv /\ PackInv /\ Inside /\ [Next]_vars => (LineInv /\ PackInv /\ Inside)'
  BY NextLine, NextPack, NextInside
<1>3. PackInv /\ Inside => WithinBuffers
  BY DEF PackInv, Copied, Inside, Placed, In, WithinBuffers
<1> QED BY <1>1, <1>2, <1>3, PTL DEF Spec
=============================================================================

---------------------------- MODULE Clock_proofs -----------------------------
(***************************************************************************)
(* Facts about numbers and unsigned clocks that wrap, for the proofs: what *)
(* remains of a difference of two readings, and what a coarse clock        *)
(* (millis()) says of the time that passed on a fine one (micros()).       *)
(***************************************************************************)
EXTENDS Integers, FiniteSetsExt, WellFoundedInduction, TLAPS

\* Max and Min of two numbers.
LEMMA MaxOf == ASSUME NEW a \in Int, NEW b \in Int
               PROVE  Max({a, b}) = IF a >= b THEN a ELSE b
BY DEF Max

LEMMA MinOf == ASSUME NEW a \in Int, NEW b \in Int
               PROVE  Min({a, b}) = IF a <= b THEN a ELSE b
BY DEF Min

\* A set of numbers has a least one.
LEMMA SmallestOf ==
  ASSUME NEW T, T \subseteq Nat, T # {}
  PROVE  \E x \in T : \A y \in T : x <= y
<1> DEFINE R == OpToRel(<, Nat)
<1>1. IsWellFoundedOn(R, Nat)
  BY NatLessThanWellFounded
<1>2. \A x, y \in Nat : x < y => <<x, y>> \in R
  BY DEF OpToRel
<1> HIDE DEF R
<1>3. PICK x \in T : \A y \in T : ~ (<<y, x>> \in R)
  BY <1>1, WFMin
<1>4. \A y \in T : ~ (y < x)
  BY <1>2, <1>3
<1>. QED BY <1>4

\* Division with remainder.
LEMMA ModRange ==
  ASSUME NEW a \in Int, NEW w \in Nat \ {0}
  PROVE a % w \in 0 .. w - 1 /\ a = w * (a \div w) + (a % w) /\ a \div w \in Int
OBVIOUS

\* A multiple of w that is closer to 0 than w is 0.
LEMMA NearZero ==
  ASSUME NEW w \in Nat \ {0}, NEW x \in Int, NEW y \in Int, w * x = y, -w < y, y < w
  PROVE y = 0
<1>1. x = 0 \/ x >= 1 \/ x <= -1
  OBVIOUS
<1>2. CASE x >= 1
  <2>1. w * x >= w
    BY <1>2
  <2> QED BY <2>1
<1>3. CASE x <= -1
  <2>1. w * x <= -w
    BY <1>3
  <2> QED BY <2>1
<1>4. CASE x = 0
  BY <1>4
<1> QED BY <1>1, <1>2, <1>3, <1>4

\* The remainder is the only one there is.
LEMMA ModIs ==
  ASSUME NEW a \in Int, NEW w \in Nat \ {0}, NEW q \in Int, NEW r \in 0 .. w - 1,
   a = w * q + r
  PROVE a % w = r
<1>1. a = w * (a \div w) + (a % w) /\ a \div w \in Int /\ a % w \in 0 .. w-1
  BY ModRange
<1> DEFINE p == a \div w
           m == a % w
<1>2. p \in Int /\ m \in 0 .. w-1 /\ w * p + m = w * q + r
  BY <1>1
<1> HIDE DEF p, m
<1>3. w * (p - q) = r - m
  BY <1>2
<1>4. r - m = 0
  BY <1>3, <1>2, NearZero
<1> QED BY <1>4, <1>2 DEF m

\* A clock that wraps at w does not see k whole turns.
LEMMA ModMore ==
  ASSUME NEW a \in Int, NEW w \in Nat \ {0}, NEW k \in Int
  PROVE (a + w * k) % w = a % w
<1> DEFINE q == a \div w
           r == a % w
<1>1. q \in Int /\ r \in 0 .. w - 1 /\ a = w * q + r
  BY ModRange
<1> HIDE DEF q, r
<1>2. a + w * k = w * (q + k) + r
  BY <1>1
<1>3. (a + w * k) % w = r
  BY ONLY <1>1, <1>2, ModIs, w \in Nat \ {0}, k \in Int, a \in Int
<1>. QED BY <1>3 DEF r

\* The difference of two readings of it is the true difference, but for
\* whole turns.
LEMMA ModDiff ==
  ASSUME NEW a \in Int, NEW b \in Int, NEW w \in Nat \ {0}
  PROVE ((a % w) - (b % w)) % w = (a - b) % w
<1> DEFINE q == a \div w
           r == a % w
           p == b \div w
           s == b % w
<1>1. q \in Int /\ r \in 0 .. w - 1 /\ a = w * q + r
  BY ModRange
<1>2. p \in Int /\ s \in 0 .. w - 1 /\ b = w * p + s
  BY ModRange
<1> HIDE DEF q, r, p, s
<1>3. r - s = (a - b) + w * (p - q)
  BY <1>1, <1>2
<1>4. ((a - b) + w * (p - q)) % w = (a - b) % w
  <2>1. (a - b) \in Int /\ (p - q) \in Int
    BY <1>1, <1>2
  <2>. QED BY <2>1, ModMore
<1>. QED BY <1>3, <1>4 DEF r, s

\* The same for the quotient.
LEMMA DivIs ==
  ASSUME NEW a \in Int, NEW w \in Nat \ {0}, NEW q \in Int, NEW r \in 0 .. w - 1,
   a = w * q + r
  PROVE a \div w = q
<1> DEFINE p == a \div w
<1>1. p \in Int /\ a = w * p + r
  <2>1. a \div w \in Int /\ a = w * (a \div w) + (a % w)
    BY ModRange, Zenon
  <2>2. a % w = r
    BY ModIs, Zenon
  <2>. QED BY <2>1, <2>2, Zenon
<1> HIDE DEF p
<1>2. w * (p - q) = 0
  BY <1>1
<1>3. p - q >= 1 \/ p - q <= -1 \/ p = q
  BY <1>1
<1>4. CASE p - q >= 1
  <2>1. w * (p - q) >= w
    BY <1>4, <1>1
  <2> QED BY <2>1, <1>2
<1>5. CASE p - q <= -1
  <2>1. w * (p - q) <= -w
    BY <1>5, <1>1
  <2> QED BY <2>1, <1>2
<1>. QED BY <1>3, <1>4, <1>5 DEF p

\* Whole ticks are counted.
LEMMA DivMore ==
  ASSUME NEW a \in Int, NEW w \in Nat \ {0}, NEW k \in Int
  PROVE (a + w * k) \div w = (a \div w) + k
<1> DEFINE q == a \div w
           r == a % w
<1>1. q \in Int /\ r \in 0 .. w - 1 /\ a = w * q + r
  BY ModRange
<1> HIDE DEF q, r
<1>2. a + w * k = w * (q + k) + r
  BY <1>1
<1>3. (a + w * k) \div w = q + k
  BY ONLY <1>1, <1>2, DivIs, w \in Nat \ {0}, k \in Int, a \in Int
<1>. QED BY <1>3 DEF q

\* The coarse clock does not run backwards.
LEMMA DivOrder ==
  ASSUME NEW a \in Nat, NEW b \in Nat, NEW w \in Nat \ {0}, b <= a
  PROVE b \div w <= a \div w /\ b \div w \in Nat /\ a \div w \in Nat
<1> DEFINE q == a \div w
           p == b \div w
           r == a % w
           s == b % w
<1>1. /\ q \in Int /\ r \in 0 .. w - 1 /\ a = w * q + r
      /\ p \in Int /\ s \in 0 .. w - 1 /\ b = w * p + s
  BY ModRange
<1> HIDE DEF q, p, r, s
<1>2. p >= 0 /\ q >= 0
  <2>1. ASSUME NEW x \in Int, x <= -1 PROVE w * x <= -w
    BY <2>1
  <2>. QED BY <2>1, <1>1
<1>3. CASE p >= q + 1
  <2>1. w * (p - q) >= w
    BY <1>1, <1>3
  <2>2. w * (p - q) = (b - a) + (r - s)
    BY <1>1
  <2>. QED BY <2>1, <2>2, <1>1
<1>. QED BY <1>1, <1>2, <1>3 DEF p, q

LEMMA DivNat ==
  ASSUME NEW a \in Nat, NEW w \in Nat \ {0}
  PROVE a \div w \in Nat
<1>1. a <= a
  OBVIOUS
<1>. QED BY <1>1, DivOrder, Zenon

\* What two readings of the coarse clock, in ticks of u, say of the true
\* time between them.
LEMMA Coarsely ==
  ASSUME NEW x \in Nat, NEW y \in Nat, NEW u \in Nat \ {0}, NEW c \in Nat
  PROVE  /\ (x \div u) - (y \div u) > c => x - y > u * c
         /\ (x \div u) - (y \div u) <= c => x - y < u * c + u
<1> DEFINE q == x \div u
           p == y \div u
           r == x % u
           s == y % u
<1>1. /\ q \in Int /\ r \in 0 .. u - 1 /\ x = u * q + r
      /\ p \in Int /\ s \in 0 .. u - 1 /\ y = u * p + s
  BY ModRange
<1> HIDE DEF q, p, r, s
<1>2. x - y = u * (q - p) + (r - s)
  BY <1>1
<1>3. ASSUME q - p > c PROVE x - y > u * c
  <2>1. u * (q - p - c) >= u
    BY <1>1, <1>3
  <2>2. u * (q - p) >= u * c + u
    BY <1>1, <2>1
  <2>. QED BY <1>1, <1>2, <2>2
<1>4. ASSUME q - p <= c PROVE x - y < u * c + u
  <2>1. u * (c - (q - p)) >= 0
    BY <1>1, <1>4
  <2>2. u * (q - p) <= u * c
    BY <1>1, <2>1
  <2>. QED BY <1>1, <1>2, <2>2
<1>. QED BY <1>3, <1>4 DEF p, q

\* A time rounded up to whole ticks.
LEMMA Rounded ==
  ASSUME NEW d \in Nat, NEW u \in Nat \ {0}
  PROVE  /\ (d + u - 1) \div u \in Nat
         /\ u * ((d + u - 1) \div u) >= d
         /\ u * ((d + u - 1) \div u) < d + u
<1> DEFINE c == (d + u - 1) \div u
           r == (d + u - 1) % u
<1>1. c \in Int /\ r \in 0 .. u - 1 /\ d + u - 1 = u * c + r
  <2>1. d + u - 1 \in Int
    OBVIOUS
  <2>. QED BY <2>1, ModRange, Zenon
<1>2. c \in Nat
  <2>1. d + u - 1 \in Nat
    OBVIOUS
  <2>. QED BY <2>1, DivOrder
<1> HIDE DEF c, r
<1>. QED BY <1>1, <1>2 DEF c

\* The moment after g that differs from it by whole turns of a clock of M
\* ticks of u, and is the last of these before the tick of x, or in it.
LastTurn(x, g, u, M) == g + u * (M * (((x \div u) - (g \div u)) \div M))

\* What a clock of M ticks of u says of the time from g to x.
TicksSince(x, g, u, M) == ((x \div u) - (g \div u)) % M

LEMMA TurnIs ==
  ASSUME NEW u \in Nat \ {0}, NEW M \in Nat \ {0}, NEW x \in Nat, NEW g \in Nat, g <= x
  PROVE  /\ LastTurn(x, g, u, M) \in Nat /\ g <= LastTurn(x, g, u, M)
         /\ (LastTurn(x, g, u, M) \div u) + TicksSince(x, g, u, M) = x \div u
         /\ (LastTurn(x, g, u, M) \div u) % M = (g \div u) % M
<1> DEFINE Q == x \div u
           G == g \div u
           D == Q - G
           k == D \div M
           n == g + u * (M * k)
<1>1. Q \in Nat /\ G \in Nat /\ D \in Nat
  BY DivOrder
<1>2. D = M * k + (D % M) /\ k \in Nat /\ D % M \in 0 .. M - 1
  <2>1. D \div M \in Nat
    BY <1>1, DivOrder
  <2>2. D \in Int
    BY <1>1
  <2>3. D = M * (D \div M) + (D % M) /\ D % M \in 0 .. M - 1
    BY <2>2, ModRange, Zenon
  <2>. QED BY <2>1, <2>3, Zenon
<1>3. n \div u = G + M * k
  <2>1. M * k \in Int
    BY <1>2
  <2>2. g \in Int
    OBVIOUS
  <2>. QED BY <2>1, <2>2, DivMore, Zenon
<1>4. (G + M * k) % M = G % M
  <2>1. G \in Int /\ k \in Int
    BY <1>1, <1>2
  <2>. QED BY <2>1, ModMore, Zenon
<1>. HIDE DEF Q, G, k
<1>5. n \in Nat /\ g <= n
  <2>1. M * k \in Nat
    BY <1>2
  <2>2. u * (M * k) \in Nat
    BY <2>1
  <2>. QED BY <2>2
<1>6. G + M * k = Q - (D % M)
  BY <1>1, <1>2
<1>7. n = LastTurn(x, g, u, M)
  BY DEF Q, G, k, LastTurn
<1>. HIDE DEF n, D
<1>8. /\ n \in Nat /\ g <= n
      /\ (n \div u) + (D % M) = Q
      /\ (n \div u) % M = G % M
  BY <1>1, <1>2, <1>3, <1>4, <1>5, <1>6
<1>9. D % M = TicksSince(x, g, u, M)
  BY DEF Q, G, D, TicksSince
<1>. QED BY <1>7, <1>8, <1>9 DEF Q, G

\* Two wrapping clocks take it for g, if the range of the coarse one is a whole
\* number of turns of the other.
LEMMA TurnUnseen ==
  ASSUME NEW u \in Nat \ {0}, NEW M \in Nat \ {0}, NEW w \in Nat \ {0},
         NEW x \in Nat, NEW g \in Nat, g <= x, (M * u) % w = 0
  PROVE  LastTurn(x, g, u, M) % w = g % w
<1> DEFINE k == ((x \div u) - (g \div u)) \div M
           e == (M * u) \div w
<1>1. M * u = w * e /\ e \in Int
  BY ModRange
<1>2. k \in Nat
  <2>1. (x \div u) - (g \div u) \in Nat
    BY DivOrder
  <2>. QED BY <2>1, DivOrder
<1> HIDE DEF k, e
<1>3. u * (M * k) = (M * u) * k
  BY <1>2
<1>4. (M * u) * k = w * (e * k)
  BY <1>1, <1>2
<1>5. (g + w * (e * k)) % w = g % w
  <2>1. g \in Int /\ e * k \in Int
    BY <1>1, <1>2
  <2>. QED BY <2>1, ModMore, Zenon
<1>6. LastTurn(x, g, u, M) = g + w * (e * k)
  BY <1>3, <1>4 DEF LastTurn, k
<1>. QED BY <1>5, <1>6
=============================================================================

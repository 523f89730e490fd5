------------------------ MODULE PacketExchangeProofs ------------------------
(***************************************************************************)
(* Proofs about PacketExchange, for every width of bytes, ints and         *)
(* varints, and any values and packets: each decoder takes the bytes that  *)
(* its encoder has written and yields their value.                         *)
(***************************************************************************)
EXTENDS PacketExchange, ListProofs

-----------------------------------------------------------------------------
(* Powers of two *)

\* g holds the first powers of two.
Powers(g, n) == g = [k \in 0 .. n |-> IF k = 0 THEN 1 ELSE 2 * g[k - 1]]

LEMMA PowersExist ==
  ASSUME NEW n \in Nat
  PROVE  \E g : Powers(g, n)
<1>. DEFINE Bad == {k \in Nat : ~ \E g : Powers(g, k)}
<1>. SUFFICES ASSUME Bad # {} PROVE FALSE
  OBVIOUS
<1>1. PICK m \in Bad : \A k \in Bad : ~(k < m)
  BY Smallest
<1>2. m # 0
  <2>. DEFINE g == [k \in 0 .. 0 |-> 1]
  <2>1. g = [k \in 0 .. 0 |-> IF k = 0 THEN 1 ELSE 2 * g[k - 1]]
    OBVIOUS
  <2>. QED  BY <2>1 DEF Powers
<1>3. m - 1 \in Nat /\ m - 1 < m
  BY <1>1, <1>2
<1>4. PICK f : Powers(f, m - 1)
  BY <1>1, <1>3
<1>. DEFINE g == [k \in 0 .. m |-> IF k = m THEN 2 * f[m - 1] ELSE f[k]]
<1>5. g[m] = 2 * f[m - 1] /\ \A k \in 0 .. m - 1 : g[k] = f[k]
  BY <1>1, <1>2
<1>6. \A k \in 0 .. m - 1 : f[k] = IF k = 0 THEN 1 ELSE 2 * f[k - 1]
  BY <1>4 DEF Powers
<1>7. ASSUME NEW k \in 0 .. m
      PROVE  g[k] = IF k = 0 THEN 1 ELSE 2 * g[k - 1]
  <2>. HIDE DEF g
  <2>1. CASE k = m
    <3>1. m - 1 \in 0 .. m - 1
      BY <1>3
    <3>. QED  BY <1>2, <1>5, <2>1, <3>1
  <2>2. CASE k # m /\ k # 0
    <3>1. k \in 0 .. m - 1 /\ k - 1 \in 0 .. m - 1
      BY <1>1, <2>2
    <3>. QED  BY <1>5, <1>6, <2>2, <3>1
  <2>3. CASE k # m /\ k = 0
    BY <1>3, <1>5, <1>6, <2>3
  <2>. QED  BY <2>1, <2>2, <2>3
<1>8. Powers(g, m)
  <2>1. g = [k \in 0 .. m |-> g[k]]
    OBVIOUS
  <2>. HIDE DEF g
  <2>. QED  BY <1>7, <2>1 DEF Powers
<1>. QED  BY <1>1, <1>8

LEMMA PowersAgree ==
  ASSUME NEW n \in Nat, NEW m \in Nat, NEW f, NEW g, Powers(f, n), Powers(g, m), n <= m
  PROVE  \A k \in 0 .. n : f[k] = g[k]
<1>. DEFINE Bad == {k \in 0 .. n : f[k] # g[k]}
<1>. SUFFICES ASSUME Bad # {} PROVE FALSE
  OBVIOUS
<1>1. PICK k \in Bad : \A j \in Bad : ~(j < k)
  <2>1. Bad \in SUBSET Nat
    OBVIOUS
  <2>. QED  BY <2>1, Smallest
<1>2. /\ \A j \in 0 .. n : f[j] = IF j = 0 THEN 1 ELSE 2 * f[j - 1]
      /\ \A j \in 0 .. m : g[j] = IF j = 0 THEN 1 ELSE 2 * g[j - 1]
  BY DEF Powers
<1>3. k \in 0 .. n /\ k \in 0 .. m /\ f[k] # g[k]
  OBVIOUS
<1>4. CASE k = 0
  BY <1>2, <1>3, <1>4
<1>5. CASE k # 0
  <2>1. k - 1 \in 0 .. n /\ k - 1 < k
    BY <1>5
  <2>2. f[k - 1] = g[k - 1]
    BY <1>1, <2>1
  <2>. QED  BY <1>2, <1>3, <1>5, <2>2
<1>. QED  BY <1>4, <1>5

\* What the recursion of Pow2 says.
LEMMA Pow2Def ==
  Pow2[0] = 1 /\ \A n \in Nat : Pow2[n + 1] = 2 * Pow2[n]
<1>. DEFINE G(n) == CHOOSE g : Powers(g, n)
            p == [n \in Nat |-> G(n)[n]]
<1>1. \A n \in Nat : Powers(G(n), n)
  BY PowersExist
<1>2. ASSUME NEW n \in Nat, n # 0
      PROVE  G(n)[n] = 2 * G(n - 1)[n - 1]
  <2>. DEFINE f == G(n - 1)
              g == G(n)
  <2>1. n - 1 \in Nat /\ n - 1 <= n /\ n - 1 \in 0 .. n - 1 /\ n \in 0 .. n
    BY <1>2
  <2>2. Powers(f, n - 1) /\ Powers(g, n)
    BY <1>1, <2>1
  <2>. HIDE DEF f, g
  <2>3. f[n - 1] = g[n - 1]
    BY <2>1, <2>2, PowersAgree
  <2>4. g[n] = 2 * g[n - 1]
    BY <1>2, <2>1, <2>2 DEF Powers
  <2>. QED  BY <2>3, <2>4 DEF f, g
<1>3. G(0)[0] = 1
  <2>. DEFINE g == G(0)
  <2>1. Powers(g, 0)
    BY <1>1
  <2>. HIDE DEF g
  <2>2. g[0] = 1
    BY <2>1 DEF Powers
  <2>. QED  BY <2>2 DEF g
<1>. HIDE DEF G
<1>4. p = [n \in Nat |-> IF n = 0 THEN 1 ELSE 2 * p[n - 1]]
  <2>1. ASSUME NEW n \in Nat
        PROVE  p[n] = IF n = 0 THEN 1 ELSE 2 * p[n - 1]
    <3>1. n # 0 => n - 1 \in Nat
      OBVIOUS
    <3>. QED  BY <1>2, <1>3, <3>1
  <2>2. p = [n \in Nat |-> p[n]]
    OBVIOUS
  <2>. HIDE DEF p
  <2>. QED  BY <2>1, <2>2
<1>. HIDE DEF p
<1>5. Pow2 = [n \in Nat |-> IF n = 0 THEN 1 ELSE 2 * Pow2[n - 1]]
  BY <1>4 DEF Pow2
<1>6. \A n \in Nat : Pow2[n] = IF n = 0 THEN 1 ELSE 2 * Pow2[n - 1]
  BY <1>5
<1>7. ASSUME NEW n \in Nat PROVE Pow2[n + 1] = 2 * Pow2[n]
  <2>1. n + 1 \in Nat /\ n + 1 # 0 /\ (n + 1) - 1 = n
    OBVIOUS
  <2>. QED  BY <1>6, <2>1
<1>. QED  BY <1>6, <1>7

LEMMA Pow2Typed ==
  ASSUME NEW n \in Nat PROVE Pow2[n] \in Nat /\ n < Pow2[n]
<1>. DEFINE Bad == {k \in Nat : ~(Pow2[k] \in Nat /\ k < Pow2[k])}
<1>. SUFFICES ASSUME Bad # {} PROVE FALSE
  OBVIOUS
<1>1. PICK m \in Bad : \A k \in Bad : ~(k < m)
  BY Smallest
<1>2. m # 0
  BY Pow2Def
<1>3. m - 1 \in Nat /\ m - 1 < m /\ (m - 1) + 1 = m
  BY <1>1, <1>2
<1>4. Pow2[m - 1] \in Nat /\ m - 1 < Pow2[m - 1]
  BY <1>1, <1>3
<1>5. Pow2[m] = 2 * Pow2[m - 1]
  BY <1>3, Pow2Def
<1>6. m \in Nat /\ ~(Pow2[m] \in Nat /\ m < Pow2[m])
  BY <1>1
<1>. HIDE DEF Bad
<1>. QED  BY <1>3, <1>4, <1>5, <1>6

\* Powers multiply as their exponents add, and grow with them.
LEMMA Pow2Add ==
  ASSUME NEW a \in Nat, NEW b \in Nat
  PROVE  Pow2[a + b] = Pow2[a] * Pow2[b]
<1>. DEFINE Bad == {k \in Nat : Pow2[a + k] # Pow2[a] * Pow2[k]}
<1>. SUFFICES ASSUME Bad # {} PROVE FALSE
  OBVIOUS
<1>1. PICK m \in Bad : \A k \in Bad : ~(k < m)
  BY Smallest
<1>2. m \in Nat /\ Pow2[a + m] # Pow2[a] * Pow2[m]
  BY <1>1
<1>3. Pow2[a] \in Nat
  BY Pow2Typed
<1>4. CASE m = 0
  <2>1. a + m = a /\ Pow2[m] = 1
    BY <1>4, Pow2Def
  <2>. QED  BY <1>2, <1>3, <2>1
<1>5. CASE m # 0
  <2>1. /\ m - 1 \in Nat /\ m - 1 < m /\ (m - 1) + 1 = m
        /\ a + (m - 1) \in Nat /\ (a + (m - 1)) + 1 = a + m
    BY <1>2, <1>5
  <2>2. Pow2[a + (m - 1)] = Pow2[a] * Pow2[m - 1]
    BY <1>1, <2>1
  <2>3. Pow2[m] = 2 * Pow2[m - 1] /\ Pow2[a + m] = 2 * Pow2[a + (m - 1)]
    BY <2>1, Pow2Def
  <2>4. Pow2[m - 1] \in Nat
    BY <2>1, Pow2Typed
  <2>5. \A x, y \in Nat : 2 * (x * y) = x * (2 * y)
    OBVIOUS
  <2>. QED  BY <1>2, <1>3, <2>2, <2>3, <2>4, <2>5
<1>. QED  BY <1>4, <1>5

LEMMA Pow2Grows ==
  ASSUME NEW a \in Nat, NEW b \in Nat, a <= b
  PROVE  /\ b - a \in Nat /\ Pow2[b] = Pow2[a] * Pow2[b - a]
         /\ Pow2[a] <= Pow2[b] /\ (a < b => Pow2[a] < Pow2[b])
<1>1. b - a \in Nat /\ a + (b - a) = b
  OBVIOUS
<1>2. Pow2[b] = Pow2[a] * Pow2[b - a]
  BY <1>1, Pow2Add
<1>3. /\ Pow2[a] \in Nat /\ Pow2[a] > 0 /\ Pow2[b - a] \in Nat /\ b - a < Pow2[b - a]
  BY <1>1, Pow2Typed
<1>4. \A x, y \in Nat : x > 0 /\ y > 0 => x <= x * y
  OBVIOUS
<1>5. \A x, y \in Nat : x > 0 /\ y > 1 => x < x * y
  OBVIOUS
<1>6. a < b => b - a > 0
  OBVIOUS
<1>. QED  BY <1>1, <1>2, <1>3, <1>4, <1>5, <1>6

-----------------------------------------------------------------------------
(* Quotients and remainders *)

LEMMA DivMod ==
  ASSUME NEW x \in Nat, NEW m \in Nat, m > 0
  PROVE  /\ x \div m \in Nat /\ x % m \in Nat /\ x % m < m
         /\ x = m * (x \div m) + (x % m)
OBVIOUS

LEMMA DivUnique ==
  ASSUME NEW m \in Nat, NEW q \in Nat, NEW r \in Nat, r < m, NEW x, x = m * q + r
  PROVE  x \in Nat /\ x \div m = q /\ x % m = r
<1>1. m * q \in Nat
  OBVIOUS
<1>2. x \in Nat
  BY <1>1
<1>. DEFINE d == x \div m
            e == x % m
<1>3. d \in Nat /\ e \in Nat /\ e < m /\ m * d + e = m * q + r
  BY <1>2, DivMod
<1>. HIDE DEF d, e
<1>4. ASSUME NEW a \in Nat, NEW b \in Nat, a < b PROVE m * a + m <= m * b
  <2>1. a + 1 <= b /\ m * (a + 1) = m * a + m
    BY <1>4
  <2>2. \A y, z \in Nat : y <= z => m * y <= m * z
    OBVIOUS
  <2>. QED  BY <2>1, <2>2
<1>5. m * d \in Nat
  BY <1>3
<1>6. CASE d < q
  BY <1>1, <1>3, <1>4, <1>5, <1>6
<1>7. CASE q < d
  BY <1>1, <1>3, <1>4, <1>5, <1>7
<1>8. CASE d = q
  BY <1>1, <1>2, <1>3, <1>5, <1>8 DEF d, e
<1>. QED  BY <1>3, <1>6, <1>7, <1>8

Divides(x, m, q, r) == m \in Nat /\ q \in Nat /\ r \in Nat /\ r < m /\ x = m * q + r

LEMMA DivIs ==
  ASSUME NEW x, NEW m, NEW q, NEW r, Divides(x, m, q, r)
  PROVE  x \div m = q /\ x % m = r
BY DivUnique DEF Divides

LEMMA DivSmall ==
  ASSUME NEW x \in Nat, NEW m \in Nat, x < m
  PROVE  x \div m = 0 /\ x % m = x
<1>1. x = m * 0 + x
  OBVIOUS
<1>. QED  BY <1>1, DivUnique

LEMMA DivLess ==
  ASSUME NEW x \in Nat, NEW m \in Nat, m > 0, NEW k \in Nat, x < m * k
  PROVE  x \div m < k
<1>1. x \div m \in Nat /\ m * (x \div m) <= x
  BY DivMod
<1>2. \A y, z \in Nat : z <= y => m * z <= m * y
  OBVIOUS
<1>3. k <= x \div m => m * k <= m * (x \div m)
  BY <1>1, <1>2
<1>4. m * k \in Nat /\ m * (x \div m) \in Nat
  BY <1>1
<1>. QED  BY <1>1, <1>3, <1>4

\* Dividing twice, and the remainder by a product.
LEMMA DivDiv ==
  ASSUME NEW x \in Nat, NEW a \in Nat, NEW b \in Nat, a > 0, b > 0
  PROVE  /\ (x \div a) \div b = x \div (a * b)
         /\ x % (a * b) = (x % a) + a * ((x \div a) % b)
<1>. DEFINE q == x \div a
            r == x % a
            s == q \div b
            t == q % b
<1>1. q \in Nat /\ r \in Nat /\ r < a /\ x = a * q + r
  BY DivMod
<1>2. s \in Nat /\ t \in Nat /\ t < b /\ q = b * s + t
  BY <1>1, DivMod
<1>. HIDE DEF q, r, s, t
<1>3. x = (a * b) * s + (a * t + r)
  <2>1. a * (b * s + t) = (a * b) * s + a * t
    BY <1>2
  <2>. QED  BY <1>1, <1>2, <2>1
<1>4. a * b \in Nat /\ a * t \in Nat /\ a * t + r < a * b
  <2>1. t + 1 <= b /\ a * (t + 1) = a * t + a
    BY <1>2
  <2>2. \A y, z \in Nat : y <= z => a * y <= a * z
    OBVIOUS
  <2>3. a * t + a <= a * b
    BY <1>2, <2>1, <2>2
  <2>. QED  BY <1>1, <1>2, <2>3
<1>5. x \div (a * b) = s /\ x % (a * b) = a * t + r
  <2>. DEFINE m == a * b
              rest == a * t + r
  <2>1. m \in Nat /\ rest \in Nat /\ rest < m /\ x = m * s + rest
    BY <1>1, <1>3, <1>4
  <2>. HIDE DEF m, rest
  <2>2. x \div m = s /\ x % m = rest
    BY <1>2, <2>1, DivUnique
  <2>. QED  BY <2>2 DEF m, rest
<1>6. r + a * t = a * t + r
  BY <1>1, <1>4
<1>. QED  BY <1>5, <1>6 DEF q, r, s, t

-----------------------------------------------------------------------------
(* Bits *)

Bit(x, b) == (x \div Pow2[b]) % 2

LEMMA Pow2Positive ==
  \A n \in Nat : Pow2[n] \in Nat /\ Pow2[n] > 0
BY Pow2Typed

LEMMA BitTyped ==
  ASSUME NEW x \in Nat, NEW b \in Nat PROVE Bit(x, b) \in {0, 1}
<1>1. x \div Pow2[b] \in Nat
  BY Pow2Positive, DivMod
<1>. QED  BY <1>1 DEF Bit

\* The remainder by the next power has one bit more.
LEMMA BitStep ==
  ASSUME NEW x \in Nat, NEW n \in Nat
  PROVE  x % Pow2[n + 1] = (x % Pow2[n]) + (IF Bit(x, n) = 1 THEN Pow2[n] ELSE 0)
<1>1. Pow2[n] \in Nat /\ Pow2[n] > 0 /\ Pow2[n + 1] = Pow2[n] * 2
  BY Pow2Positive, Pow2Def
<1>. DEFINE a == Pow2[n]
<1>2. x % (a * 2) = (x % a) + a * ((x \div a) % 2)
  BY <1>1, DivDiv
<1>3. Bit(x, n) = (x \div a) % 2
  BY DEF Bit
<1>4. Bit(x, n) \in {0, 1} /\ a * 0 = 0 /\ a * 1 = a /\ x % a \in Nat
  BY <1>1, BitTyped, DivMod
<1>. HIDE DEF a
<1>5. x % (a * 2) = (x % a) + (IF Bit(x, n) = 1 THEN a ELSE 0)
  BY <1>2, <1>3, <1>4
<1>. QED  BY <1>1, <1>5 DEF a

LEMMA BitOfQuotient ==
  ASSUME NEW x \in Nat, NEW a \in Nat, NEW b \in Nat
  PROVE  Bit(x \div Pow2[a], b) = Bit(x, a + b)
<1>1. /\ Pow2[a] \in Nat /\ Pow2[a] > 0 /\ Pow2[b] \in Nat /\ Pow2[b] > 0
      /\ Pow2[a + b] = Pow2[a] * Pow2[b]
  BY Pow2Positive, Pow2Add
<1>2. (x \div Pow2[a]) \div Pow2[b] = x \div (Pow2[a] * Pow2[b])
  BY <1>1, DivDiv
<1>. QED  BY <1>1, <1>2 DEF Bit

LEMMA BitBound ==
  ASSUME NEW n \in Nat, NEW x \in Nat, x < Pow2[n], NEW b \in Nat, n <= b
  PROVE  Bit(x, b) = 0
<1>1. Pow2[b] \in Nat /\ x < Pow2[b] /\ x = Pow2[b] * 0 + x
  <2>1. Pow2[b] \in Nat /\ Pow2[n] \in Nat /\ Pow2[n] <= Pow2[b]
    BY Pow2Positive, Pow2Grows
  <2>. QED  BY <2>1
<1>2. x \div Pow2[b] = 0
  BY <1>1, DivUnique
<1>. QED  BY <1>2 DEF Bit

LEMMA BitOfRemainder ==
  ASSUME NEW x \in Nat, NEW a \in Nat, NEW b \in Nat, b < a
  PROVE  Bit(x % Pow2[a], b) = Bit(x, b)
<1>. DEFINE c == a - b - 1
            q == x \div Pow2[a]
            r == x % Pow2[a]
            s == r \div Pow2[b]
            t == r % Pow2[b]
<1>1. /\ c \in Nat /\ a - b \in Nat /\ c + 1 = a - b /\ b <= a
  OBVIOUS
<1>2. /\ Pow2[a] \in Nat /\ Pow2[a] > 0 /\ Pow2[b] \in Nat /\ Pow2[b] > 0 /\ Pow2[c] \in Nat
      /\ Pow2[a] = Pow2[b] * (2 * Pow2[c])
  <2>1. Pow2[a] = Pow2[b] * Pow2[a - b] /\ Pow2[c + 1] = 2 * Pow2[c]
    BY <1>1, Pow2Grows, Pow2Def
  <2>2. Pow2[a - b] = 2 * Pow2[c]
    BY <1>1, <2>1
  <2>. QED  BY <1>1, <2>1, <2>2, Pow2Positive
<1>3. q \in Nat /\ r \in Nat /\ x = Pow2[a] * q + r
  BY <1>2, DivMod
<1>4. s \in Nat /\ t \in Nat /\ t < Pow2[b] /\ r = Pow2[b] * s + t
  BY <1>2, <1>3, DivMod
<1>. HIDE DEF c, q, r, s, t
<1>. DEFINE u == Pow2[c] * q
<1>5. u \in Nat /\ x = Pow2[b] * (2 * u + s) + t
  <2>1. \A d, e, f, g \in Nat : (d * (2 * e)) * f + d * g = d * (2 * (e * f) + g)
    OBVIOUS
  <2>2. (Pow2[b] * (2 * Pow2[c])) * q + Pow2[b] * s = Pow2[b] * (2 * (Pow2[c] * q) + s)
    BY <1>2, <1>3, <1>4, <2>1
  <2>3. Pow2[a] * q \in Nat /\ Pow2[b] * s \in Nat
    BY <1>2, <1>3, <1>4
  <2>4. x = Pow2[a] * q + Pow2[b] * s + t
    BY <1>3, <1>4, <2>3
  <2>. QED  BY <1>2, <1>3, <2>2, <2>4
<1>. HIDE DEF u
<1>6. x \div Pow2[b] = 2 * u + s
  <2>. DEFINE w == 2 * u + s
              m == Pow2[b]
  <2>1. /\ w \in Nat /\ m \in Nat /\ t \in Nat /\ t < m /\ x = m * w + t
    BY <1>2, <1>4, <1>5
  <2>. HIDE DEF w, m
  <2>2. x \div m = w
    BY <2>1, DivUnique
  <2>. QED  BY <2>2 DEF w, m
<1>7. (2 * u + s) % 2 = s % 2
  <2>1. /\ s \div 2 \in Nat /\ s % 2 \in Nat /\ s % 2 < 2 /\ s = 2 * (s \div 2) + (s % 2)
    BY <1>4, DivMod
  <2>2. 2 * u + s = 2 * (u + (s \div 2)) + (s % 2) /\ u + (s \div 2) \in Nat
    BY <1>5, <2>1
  <2>. QED  BY <2>1, <2>2, DivUnique
<1>. QED  BY <1>6, <1>7 DEF Bit, r, s
\* Induction up to n, for the members of a set.
LEMMA Upto ==
  ASSUME NEW n \in Nat, NEW T, 0 \in T, \A k \in 0 .. n - 1 : k \in T => k + 1 \in T
  PROVE  \A k \in 0 .. n : k \in T
<1>. DEFINE Bad == {k \in 0 .. n : k \notin T}
<1>. SUFFICES ASSUME Bad # {} PROVE FALSE
  OBVIOUS
<1>1. PICK m \in Bad : \A k \in Bad : ~(k < m)
  <2>1. Bad \in SUBSET Nat
    OBVIOUS
  <2>. QED  BY <2>1, Smallest
<1>2. m \in 0 .. n /\ m \notin T /\ m # 0
  BY <1>1
<1>3. m - 1 \in 0 .. n - 1 /\ m - 1 \in 0 .. n /\ m - 1 < m /\ (m - 1) + 1 = m
  BY <1>2
<1>. QED  BY <1>1, <1>2, <1>3

-----------------------------------------------------------------------------
(* Sets of bits *)

LEMMA Widths ==
  /\ ByteBits \in Nat /\ ByteBits > 1 /\ IntBits \in Nat /\ IntBits > ByteBits
  /\ WideBits \in Nat /\ WideBits >= IntBits
  /\ GroupBits \in Nat /\ GroupBits > 0 /\ GroupBits + 1 = ByteBits
  /\ More \in Nat /\ More > 0 /\ Pow2[ByteBits] = 2 * More /\ More = Pow2[GroupBits]
  /\ Byte = 0 .. Pow2[ByteBits] - 1 /\ Byte \subseteq Nat /\ 0 \in Byte
<1>1. /\ ByteBits \in Nat /\ ByteBits > 1 /\ IntBits \in Nat /\ IntBits > ByteBits
      /\ WideBits \in Nat /\ WideBits >= IntBits
  BY EncodingAssumption
<1>2. GroupBits \in Nat /\ GroupBits > 0 /\ GroupBits + 1 = ByteBits
  BY <1>1 DEF GroupBits
<1>3. More \in Nat /\ More > 0 /\ Pow2[ByteBits] = 2 * More /\ More = Pow2[GroupBits]
  BY <1>2, Pow2Positive, Pow2Def DEF More
<1>. QED  BY <1>1, <1>2, <1>3 DEF Byte

\* f adds up the powers of the bits below n.
Below(f, bits) ==
  f = [n \in 0 .. WideBits |->
         IF n = 0 THEN 0 ELSE f[n - 1] + IF n - 1 \in bits THEN Pow2[n - 1] ELSE 0]

LEMMA BelowIsRemainder ==
  ASSUME NEW x \in Nat, NEW bits, \A b \in 0 .. WideBits - 1 : b \in bits <=> Bit(x, b) = 1
  PROVE  /\ \E f : Below(f, bits)
         /\ \A f : Below(f, bits) => \A n \in 0 .. WideBits : f[n] = x % Pow2[n]
<1>. DEFINE g == [n \in 0 .. WideBits |-> x % Pow2[n]]
<1>0. WideBits \in Nat
  BY Widths
<1>1. g[0] = 0
  <2>1. Pow2[0] = 1 /\ x = 1 * x + 0
    BY Pow2Def
  <2>. QED  BY <1>0, <2>1, DivUnique
<1>2. ASSUME NEW n \in 0 .. WideBits, n # 0
      PROVE  g[n] = g[n - 1] + IF n - 1 \in bits THEN Pow2[n - 1] ELSE 0
  <2>1. n - 1 \in 0 .. WideBits - 1 /\ n - 1 \in 0 .. WideBits /\ n - 1 \in Nat /\ (n - 1) + 1 = n
    BY <1>0, <1>2
  <2>2. x % Pow2[n] = (x % Pow2[n - 1]) + (IF Bit(x, n - 1) = 1 THEN Pow2[n - 1] ELSE 0)
    BY <2>1, BitStep
  <2>. QED  BY <2>1, <2>2
<1>3. Below(g, bits)
  <2>1. g = [n \in 0 .. WideBits |-> g[n]]
    OBVIOUS
  <2>. HIDE DEF g
  <2>. QED  BY <1>1, <1>2, <2>1 DEF Below
<1>4. ASSUME NEW f, Below(f, bits)
      PROVE  \A n \in 0 .. WideBits : f[n] = g[n]
  <2>. DEFINE T == {n \in 0 .. WideBits : f[n] = g[n]}
  <2>. HIDE DEF g
  <2>1. \A n \in 0 .. WideBits :
          f[n] = IF n = 0 THEN 0 ELSE f[n - 1] + IF n - 1 \in bits THEN Pow2[n - 1] ELSE 0
    BY <1>4 DEF Below
  <2>2. 0 \in T
    BY <1>0, <1>1, <2>1
  <2>3. ASSUME NEW n \in 0 .. WideBits - 1, n \in T
        PROVE  n + 1 \in T
    <3>1. n + 1 \in 0 .. WideBits /\ n + 1 # 0 /\ (n + 1) - 1 = n
      BY <1>0
    <3>. QED  BY <1>2, <2>1, <2>3, <3>1
  <2>4. \A n \in 0 .. WideBits : n \in T
    <3>. HIDE DEF T
    <3>. QED  BY <1>0, <2>2, <2>3, Upto
  <2>. QED  BY <2>4
<1>. QED  BY <1>3, <1>4

\* A number is the value of its bits.
LEMMA ValueOfBits ==
  ASSUME NEW x \in Nat, x < Pow2[WideBits],
         NEW bits, \A b \in 0 .. WideBits - 1 : b \in bits <=> Bit(x, b) = 1
  PROVE  ValueOf(bits) = x
<1>. DEFINE f == CHOOSE f : Below(f, bits)
<1>1. Below(f, bits) /\ WideBits \in Nat
  BY BelowIsRemainder, Widths
<1>2. ValueOf(bits) = f[WideBits]
  BY DEF ValueOf, Below
<1>. HIDE DEF f
<1>3. f[WideBits] = x % Pow2[WideBits]
  BY <1>1, BelowIsRemainder
<1>4. Pow2[WideBits] \in Nat /\ x = Pow2[WideBits] * 0 + x
  BY <1>1, Pow2Positive
<1>5. x % Pow2[WideBits] = x
  BY <1>4, DivUnique
<1>. QED  BY <1>2, <1>3, <1>5

\* Every set of bits is that of a number.
LEMMA NumberOfBits ==
  ASSUME NEW n \in Nat, NEW S \in SUBSET (0 .. n - 1)
  PROVE  \E x \in Nat : x < Pow2[n] /\ \A b \in Nat : Bit(x, b) = 1 <=> b \in S
<1>. DEFINE Has(k, R) == \E x \in Nat : x < Pow2[k] /\ \A b \in Nat : Bit(x, b) = 1 <=> b \in R
            T == {k \in 0 .. n : \A R \in SUBSET (0 .. k - 1) : Has(k, R)}
<1>1. 0 \in T
  <2>1. 0 < Pow2[0]
    BY Pow2Def
  <2>2. \A b \in Nat : Bit(0, b) = 0
    BY <2>1, BitBound
  <2>. QED  BY <2>1, <2>2
<1>2. ASSUME NEW k \in 0 .. n - 1, k \in T
      PROVE  k + 1 \in T
  <2>1. SUFFICES ASSUME NEW R \in SUBSET (0 .. k) PROVE Has(k + 1, R)
    <3>1. k + 1 \in 0 .. n /\ (k + 1) - 1 = k
      OBVIOUS
    <3>. QED  BY <2>1, <3>1
  <2>2. R \ {k} \in SUBSET (0 .. k - 1)
    OBVIOUS
  <2>3. PICK x \in Nat : x < Pow2[k] /\ \A b \in Nat : Bit(x, b) = 1 <=> b \in R \ {k}
    BY <1>2, <2>2
  <2>4. k \in Nat /\ Pow2[k] \in Nat /\ Pow2[k] > 0 /\ Pow2[k + 1] = 2 * Pow2[k]
    BY Pow2Positive, Pow2Def
  <2>5. CASE k \notin R
    <3>1. x < Pow2[k + 1] /\ R \ {k} = R
      BY <2>3, <2>4, <2>5
    <3>. QED  BY <2>3, <3>1
  <2>6. CASE k \in R
    <3>. DEFINE y == x + Pow2[k]
    <3>1. y \in Nat /\ y < Pow2[k + 1] /\ y = Pow2[k] * 1 + x
      BY <2>3, <2>4
    <3>. HIDE DEF y
    <3>2. y \div Pow2[k] = 1 /\ y % Pow2[k] = x
      BY <2>3, <2>4, <3>1, DivUnique
    <3>3. Bit(y, k) = 1
      BY <3>2 DEF Bit
    <3>4. ASSUME NEW b \in Nat, b < k PROVE Bit(y, b) = 1 <=> b \in R
      <4>1. Bit(y, b) = Bit(x, b)
        BY <2>4, <3>1, <3>2, <3>4, BitOfRemainder
      <4>. QED  BY <2>3, <3>4, <4>1
    <3>5. ASSUME NEW b \in Nat, b > k PROVE Bit(y, b) = 1 <=> b \in R
      <4>1. Bit(y, b) = 0
        BY <2>4, <3>1, <3>5, BitBound
      <4>2. b \notin R
        BY <3>5
      <4>. QED  BY <4>1, <4>2
    <3>6. \A b \in Nat : Bit(y, b) = 1 <=> b \in R
      BY <2>4, <2>6, <3>3, <3>4, <3>5
    <3>. QED  BY <3>1, <3>6
  <2>. QED  BY <2>5, <2>6
<1>3. n \in T
  <2>. HIDE DEF T
  <2>1. \A k \in 0 .. n : k \in T
    BY <1>1, <1>2, Upto
  <2>. QED  BY <2>1
<1>. QED  BY <1>3

LEMMA ValueOfSet ==
  ASSUME NEW n \in Nat, n <= WideBits, NEW S \in SUBSET (0 .. n - 1)
  PROVE  /\ ValueOf(S) \in Nat /\ ValueOf(S) < Pow2[n]
         /\ \A b \in Nat : Bit(ValueOf(S), b) = 1 <=> b \in S
<1>1. PICK x \in Nat : x < Pow2[n] /\ \A b \in Nat : Bit(x, b) = 1 <=> b \in S
  BY NumberOfBits
<1>2. x < Pow2[WideBits] /\ WideBits \in Nat
  <2>1. Pow2[n] \in Nat /\ Pow2[WideBits] \in Nat /\ Pow2[n] <= Pow2[WideBits] /\ WideBits \in Nat
    BY Widths, Pow2Positive, Pow2Grows
  <2>. QED  BY <1>1, <2>1
<1>3. ValueOf(S) = x
  <2>1. \A b \in 0 .. WideBits - 1 : b \in S <=> Bit(x, b) = 1
    BY <1>1, <1>2
  <2>. QED  BY <1>2, <2>1, ValueOfBits
<1>. QED  BY <1>1, <1>3

-----------------------------------------------------------------------------
(* Varints *)

LEMMA MinExact ==
  ASSUME NEW T \in SUBSET Nat, T # {}
  PROVE  Min(T) \in T /\ \A x \in T : Min(T) <= x
<1>1. PICK m \in T : \A x \in T : ~(x < m)
  BY Smallest
<1>2. \A x \in T : m <= x
  BY <1>1
<1>. QED  BY <1>2 DEF Min

\* A varint has room for WideBits bits.
LEMMA RoomForAll ==
  VarintBytes \in Nat /\ VarintBytes > 0 /\ WideBits <= GroupBits * VarintBytes
<1>. DEFINE w == WideBits - 1
            q == w \div GroupBits
            r == w % GroupBits
<1>1. w \in Nat /\ GroupBits \in Nat /\ GroupBits > 0 /\ WideBits = w + 1
  BY Widths
<1>2. q \in Nat /\ r \in Nat /\ r < GroupBits /\ w = GroupBits * q + r
  BY <1>1, DivMod
<1>3. VarintBytes = 1 + q
  BY DEF VarintBytes
<1>. HIDE DEF w, q, r
<1>4. GroupBits * (1 + q) = GroupBits + GroupBits * q /\ GroupBits * q \in Nat
  BY <1>1, <1>2
<1>. QED  BY <1>1, <1>2, <1>3, <1>4

LEMMA RequiredExact ==
  ASSUME NEW v \in Nat, v < Pow2[WideBits]
  PROVE  /\ RequiredBytes(v) \in 1 .. VarintBytes
         /\ v < Pow2[GroupBits * RequiredBytes(v)]
         /\ \A k \in 1 .. RequiredBytes(v) - 1 : Pow2[GroupBits * k] <= v
<1>. DEFINE T == {n \in 1 .. VarintBytes : v < Pow2[GroupBits * n]}
<1>1. /\ VarintBytes \in 1 .. VarintBytes /\ VarintBytes \in Nat /\ GroupBits \in Nat
      /\ WideBits \in Nat /\ WideBits <= GroupBits * VarintBytes
  BY RoomForAll, Widths
<1>2. \A n \in 1 .. VarintBytes : GroupBits * n \in Nat /\ Pow2[GroupBits * n] \in Nat
  <2>1. \A n \in Nat : GroupBits * n \in Nat
    BY <1>1
  <2>. QED  BY <1>1, <2>1, Pow2Positive
<1>3. VarintBytes \in T
  <2>1. Pow2[WideBits] <= Pow2[GroupBits * VarintBytes] /\ Pow2[WideBits] \in Nat
    BY <1>1, <1>2, Pow2Grows, Pow2Positive
  <2>. QED  BY <1>1, <1>2, <2>1
<1>4. RequiredBytes(v) \in T /\ \A n \in T : RequiredBytes(v) <= n
  <2>1. T \in SUBSET Nat /\ T # {}
    BY <1>1, <1>3
  <2>2. RequiredBytes(v) = Min(T)
    BY DEF RequiredBytes
  <2>. HIDE DEF T
  <2>. QED  BY <2>1, <2>2, MinExact
<1>5. ASSUME NEW k \in 1 .. RequiredBytes(v) - 1 PROVE Pow2[GroupBits * k] <= v
  <2>1. k \in 1 .. VarintBytes /\ k \notin T
    BY <1>1, <1>4
  <2>. QED  BY <1>2, <2>1
<1>. QED  BY <1>4, <1>5

LEMMA GroupFacts ==
  /\ \A i \in Nat : GroupBits * i \in Nat /\ GroupBits * (i + 1) = GroupBits * i + GroupBits
  /\ \A i, j \in Nat : i <= j => GroupBits * i <= GroupBits * j
  /\ GroupBits * 0 = 0
<1>1. GroupBits \in Nat
  BY Widths
<1>2. \A g \in Nat : /\ \A i \in Nat : g * i \in Nat /\ g * (i + 1) = g * i + g
                     /\ \A i, j \in Nat : i <= j => g * i <= g * j
                     /\ g * 0 = 0
  OBVIOUS
<1>. QED  BY <1>1, <1>2

\* The groups of a varint, and the mark on all bytes but the last.
LEMMA VarintExact ==
  ASSUME NEW v \in Nat, v < Pow2[WideBits]
  PROVE  /\ Varint(v) \in Seq(Byte)
         /\ Len(Varint(v)) = RequiredBytes(v) /\ RequiredBytes(v) \in 1 .. VarintBytes
         /\ \A i \in 1 .. RequiredBytes(v) :
              /\ Varint(v)[i] % More = (v \div Pow2[GroupBits * (i - 1)]) % More
              /\ Varint(v)[i] < More <=> i = RequiredBytes(v)
<1>. DEFINE n == RequiredBytes(v)
            d(i) == (v \div Pow2[GroupBits * (i - 1)]) % More
            e(i) == d(i) + (IF i < n THEN More ELSE 0)
<1>1. n \in 1 .. VarintBytes /\ VarintBytes \in Nat
  BY RequiredExact, RoomForAll
<1>2. Varint(v) = [i \in 1 .. n |-> e(i)]
  BY DEF Varint
<1>3. More \in Nat /\ More > 0 /\ Byte = 0 .. 2 * More - 1
  BY Widths
<1>4. ASSUME NEW i \in 1 .. n
      PROVE  e(i) \in Byte /\ e(i) % More = d(i) /\ (e(i) < More <=> i = n)
  <2>1. i - 1 \in Nat /\ i \in Nat
    BY <1>1
  <2>2. v \div Pow2[GroupBits * (i - 1)] \in Nat
    BY <2>1, GroupFacts, Pow2Positive, DivMod
  <2>3. d(i) \in Nat /\ d(i) < More
    BY <1>3, <2>2, DivMod
  <2>. HIDE DEF d, n
  <2>4. e(i) \in Nat /\ e(i) < 2 * More /\ (e(i) < More <=> i = n)
    BY <1>1, <1>3, <2>3
  <2>5. CASE i < n
    <3>1. e(i) = More * 1 + d(i)
      BY <1>3, <2>3, <2>5
    <3>. HIDE DEF e
    <3>2. e(i) % More = d(i)
      BY <1>3, <2>3, <3>1, DivUnique
    <3>. QED  BY <1>3, <2>4, <3>2
  <2>6. CASE ~(i < n)
    <3>1. e(i) = More * 0 + d(i)
      BY <1>3, <2>3, <2>6
    <3>. HIDE DEF e
    <3>2. e(i) % More = d(i)
      BY <1>3, <2>3, <3>1, DivUnique
    <3>. QED  BY <1>3, <2>4, <3>2
  <2>. QED  BY <2>5, <2>6
<1>. HIDE DEF n, e
<1>5. Varint(v) \in [1 .. n -> Byte] /\ \A i \in 1 .. n : Varint(v)[i] = e(i)
  BY <1>2, <1>4
<1>6. Varint(v) \in Seq(Byte) /\ Len(Varint(v)) = n
  BY <1>1, <1>5
<1>7. \A i \in 1 .. n : Varint(v)[i] % More = d(i) /\ (Varint(v)[i] < More <=> i = n)
  BY <1>4, <1>5
<1>. QED  BY <1>1, <1>6, <1>7 DEF n

\* What the decoder makes of byte i of a value without the sign of an int: its
\* bits, where they belong.
LEMMA ShiftedGroupExact ==
  ASSUME NEW v \in Nat, v < Pow2[IntBits - 1], v < Pow2[WideBits], NEW i \in 1 .. RequiredBytes(v)
  PROVE  ShiftedGroup(Varint(v)[i], i - 1)
           = {b \in GroupBits * (i - 1) .. GroupBits * i - 1 : Bit(v, b) = 1}
<1>. DEFINE h == GroupBits * (i - 1)
            q == v \div Pow2[h]
            r == Varint(v)[i] % More
            shifted == {b + h : b \in BitsOf(r)} \cap 0 .. IntBits - 1
<1>1. RequiredBytes(v) \in 1 .. VarintBytes /\ VarintBytes \in Nat /\ i \in Nat /\ i - 1 \in Nat
  BY RequiredExact, RoomForAll
<1>2. /\ GroupBits \in Nat /\ GroupBits > 0 /\ IntBits \in Nat /\ IntBits - 1 \in Nat /\ IntBits - 1 > 0
      /\ WideBits \in Nat /\ WideBits >= IntBits /\ GroupBits < IntBits
  BY Widths
<1>3. h \in Nat /\ GroupBits * (i - 1) = h /\ GroupBits * i = h + GroupBits
  <2>1. (i - 1) + 1 = i
    BY <1>1
  <2>. QED  BY <1>1, <2>1, GroupFacts
<1>. HIDE DEF h
<1>4. h < IntBits - 1
  <2>1. CASE i = 1
    <3>1. h = 0
      BY <2>1, GroupFacts DEF h
    <3>. QED  BY <1>2, <3>1
  <2>2. CASE i # 1
    <3>1. i - 1 \in 1 .. RequiredBytes(v) - 1
      BY <1>1, <2>2
    <3>2. Pow2[h] <= v
      BY <3>1, RequiredExact DEF h
    <3>3. IntBits - 1 <= h => Pow2[IntBits - 1] <= Pow2[h]
      BY <1>2, <1>3, Pow2Grows
    <3>4. Pow2[h] \in Nat /\ Pow2[IntBits - 1] \in Nat
      BY <1>2, <1>3, Pow2Positive
    <3>. QED  BY <1>2, <1>3, <3>2, <3>3, <3>4
  <2>. QED  BY <2>1, <2>2
<1>5. h % IntBits = h
  <2>1. h < IntBits
    BY <1>2, <1>3, <1>4
  <2>. QED  BY <1>2, <1>3, <2>1, DivSmall
<1>6. q \in Nat /\ r = q % Pow2[GroupBits]
  <2>1. q \in Nat
    BY <1>3, Pow2Positive, DivMod
  <2>2. r = q % More
    BY VarintExact DEF h
  <2>. QED  BY <2>1, <2>2, Widths
<1>7. r \in Nat /\ r < Pow2[GroupBits]
  BY <1>2, <1>6, Pow2Positive, DivMod
<1>8. ASSUME NEW b \in Nat, b < GroupBits PROVE Bit(r, b) = Bit(v, h + b)
  <2>1. Bit(r, b) = Bit(q, b)
    BY <1>2, <1>6, <1>8, BitOfRemainder
  <2>. QED  BY <1>3, <2>1, BitOfQuotient
<1>9. \A b \in Nat : b >= GroupBits => Bit(r, b) = 0
  BY <1>2, <1>7, BitBound
<1>10. \A b \in Nat : Bit(v, b) = 1 => b < IntBits - 1
  BY <1>2, BitBound
<1>11. BitsOf(r) = {b \in 0 .. WideBits - 1 : Bit(r, b) = 1}
  BY DEF BitsOf, Bit
<1>. HIDE DEF q, r
<1>12. \A b \in BitsOf(r) : b \in Nat /\ b < GroupBits /\ Bit(v, h + b) = 1 /\ h + b < IntBits - 1
  BY <1>2, <1>3, <1>8, <1>9, <1>10, <1>11
<1>13. shifted = {b \in h .. h + GroupBits - 1 : Bit(v, b) = 1}
  <2>1. ASSUME NEW b \in shifted PROVE b \in h .. h + GroupBits - 1 /\ Bit(v, b) = 1
    <3>1. PICK a \in BitsOf(r) : b = a + h
      OBVIOUS
    <3>2. a \in Nat /\ a < GroupBits /\ Bit(v, h + a) = 1 /\ h + a = a + h
      BY <1>3, <1>12
    <3>. QED  BY <1>2, <1>3, <3>1, <3>2
  <2>2. ASSUME NEW b \in h .. h + GroupBits - 1, Bit(v, b) = 1 PROVE b \in shifted
    <3>1. b \in Nat /\ b - h \in Nat /\ b - h < GroupBits /\ h + (b - h) = b /\ (b - h) + h = b
      BY <1>2, <1>3
    <3>2. Bit(r, b - h) = 1 /\ b - h \in 0 .. WideBits - 1
      BY <1>2, <1>8, <2>2, <3>1
    <3>3. b < IntBits - 1
      BY <1>10, <2>2, <3>1
    <3>. QED  BY <1>2, <1>11, <3>1, <3>2, <3>3
  <2>. HIDE DEF shifted
  <2>. QED  BY <2>1, <2>2
<1>14. IntBits - 1 \notin shifted
  BY <1>2, <1>3, <1>10, <1>13
<1>15. ShiftedGroup(Varint(v)[i], i - 1)
         = shifted \cup IF IntBits - 1 \in shifted THEN IntBits .. WideBits - 1 ELSE {}
  BY <1>5 DEF ShiftedGroup, r, h
<1>. HIDE DEF shifted
<1>16. h .. h + GroupBits - 1 = GroupBits * (i - 1) .. GroupBits * i - 1
  BY <1>2, <1>3
<1>. QED  BY <1>13, <1>14, <1>15, <1>16

\* The groups together are the value.
LEMMA GroupsAreValue ==
  ASSUME NEW v \in Nat, v < Pow2[IntBits - 1], v < Pow2[WideBits], NEW bytes,
         \A k \in 1 .. RequiredBytes(v) : bytes[k] = Varint(v)[k]
  PROVE  ValueOf(UNION {ShiftedGroup(bytes[k], k - 1) : k \in 1 .. RequiredBytes(v)}) = v
<1>. DEFINE n == RequiredBytes(v)
            all == UNION {ShiftedGroup(bytes[k], k - 1) : k \in 1 .. n}
<1>1. n \in Nat /\ n > 0 /\ v < Pow2[GroupBits * n]
  BY RequiredExact, RoomForAll
<1>2. GroupBits \in Nat /\ GroupBits > 0 /\ WideBits \in Nat
  BY Widths
<1>3. \A k \in 1 .. n : ShiftedGroup(bytes[k], k - 1)
                          = {b \in GroupBits * (k - 1) .. GroupBits * k - 1 : Bit(v, b) = 1}
  BY ShiftedGroupExact
<1>. HIDE DEF n
<1>4. ASSUME NEW b \in 0 .. WideBits - 1 PROVE b \in all <=> Bit(v, b) = 1
  <2>1. b \in all => Bit(v, b) = 1
    BY <1>3
  <2>2. ASSUME Bit(v, b) = 1 PROVE b \in all
    <3>. DEFINE j == b \div GroupBits
                r == b % GroupBits
    <3>1. b \in Nat /\ j \in Nat /\ r \in Nat /\ r < GroupBits /\ b = GroupBits * j + r
      BY <1>2, DivMod
    <3>2. b < GroupBits * n
      <4>1. GroupBits * n \in Nat
        BY <1>1, GroupFacts
      <4>2. GroupBits * n <= b => Bit(v, b) = 0
        BY <1>1, <3>1, <4>1, BitBound
      <4>. QED  BY <2>2, <3>1, <4>1, <4>2
    <3>3. j < n
      BY <1>1, <1>2, <3>1, <3>2, DivLess
    <3>. DEFINE k == j + 1
    <3>. HIDE DEF j, r
    <3>4. k \in 1 .. n /\ k - 1 = j
      BY <1>1, <3>1, <3>3
    <3>5. GroupBits * j \in Nat /\ GroupBits * k = GroupBits * j + GroupBits
      BY <3>1, GroupFacts
    <3>6. b \in GroupBits * (k - 1) .. GroupBits * k - 1
      BY <1>2, <3>1, <3>4, <3>5
    <3>7. b \in ShiftedGroup(bytes[k], k - 1)
      BY <1>3, <2>2, <3>4, <3>6
    <3>. QED  BY <3>4, <3>7
  <2>. QED  BY <2>1, <2>2
<1>. HIDE DEF all
<1>5. ValueOf(all) = v
  BY <1>4, ValueOfBits
<1>. QED  BY <1>5 DEF all, n

-----------------------------------------------------------------------------
(* Packets: reading *)

Readable(p) ==
  /\ p \in [mem : Seq(Byte), pos : Nat, used : Nat]
  /\ p.pos <= p.used /\ p.used <= Len(p.mem)

\* The bytes are what is next in the packet.
At(p, bytes) ==
  /\ p.pos + Len(bytes) <= p.used
  /\ \A k \in 1 .. Len(bytes) : p.mem[p.pos + k] = bytes[k]

LEMMA MinMaxOfTwo ==
  ASSUME NEW a \in Nat, NEW b \in Nat
  PROVE  /\ Min({a, b}) = IF a <= b THEN a ELSE b
         /\ Max({a, b}) = IF a <= b THEN b ELSE a
<1>1. \A m \in {a, b} : (\A x \in {a, b} : m <= x) => m = IF a <= b THEN a ELSE b
  OBVIOUS
<1>2. \A m \in {a, b} : (\A x \in {a, b} : m >= x) => m = IF a <= b THEN b ELSE a
  OBVIOUS
<1>3. \E m \in {a, b} : \A x \in {a, b} : m <= x
  OBVIOUS
<1>4. \E m \in {a, b} : \A x \in {a, b} : m >= x
  OBVIOUS
<1>5. Min({a, b}) \in {a, b} /\ \A x \in {a, b} : Min({a, b}) <= x
  BY <1>3 DEF Min
<1>6. Max({a, b}) \in {a, b} /\ \A x \in {a, b} : Max({a, b}) >= x
  BY <1>4 DEF Max
<1>. QED  BY <1>1, <1>2, <1>5, <1>6

LEMMA AdvancedExact ==
  ASSUME NEW p, Readable(p), NEW n \in Nat, p.pos + n <= p.used
  PROVE  /\ Readable(Advanced(p, n))
         /\ Advanced(p, n).mem = p.mem /\ Advanced(p, n).used = p.used
         /\ Advanced(p, n).pos = p.pos + n
         /\ Remaining(Advanced(p, n)) = Remaining(p) - n
<1>1. /\ p \in [mem : Seq(Byte), pos : Nat, used : Nat]
      /\ p.mem \in Seq(Byte) /\ p.pos \in Nat /\ p.used \in Nat
      /\ p.pos <= p.used /\ p.used <= Len(p.mem)
  BY DEF Readable
<1>2. p.pos + n \in Nat
  BY <1>1
<1>3. Advanced(p, n) \in [mem : Seq(Byte), pos : Nat, used : Nat]
  BY <1>1, <1>2 DEF Advanced
<1>4. Advanced(p, n).mem = p.mem /\ Advanced(p, n).used = p.used /\ Advanced(p, n).pos = p.pos + n
  BY <1>1 DEF Advanced
<1>5. Readable(Advanced(p, n))
  BY <1>1, <1>3, <1>4 DEF Readable
<1>6. Remaining(Advanced(p, n)) = Remaining(p) - n
  BY <1>1, <1>4 DEF Remaining
<1>. QED  BY <1>4, <1>5, <1>6

LEMMA AdvancedTwice ==
  ASSUME NEW p, Readable(p), NEW m \in Nat, NEW n \in Nat
  PROVE  Advanced(Advanced(p, m), n) = Advanced(p, m + n)
<1>1. \A q : q \in [mem : Seq(Byte), pos : Nat, used : Nat]
                => q = [mem |-> q.mem, pos |-> q.pos, used |-> q.used]
  OBVIOUS
<1>2. p = [mem |-> p.mem, pos |-> p.pos, used |-> p.used] /\ p.pos \in Nat
  BY <1>1 DEF Readable
<1>3. (p.pos + m) + n = p.pos + (m + n)
  BY <1>2
<1>. DEFINE rec(x) == [mem |-> p.mem, pos |-> x, used |-> p.used]
<1>4. \A x : Advanced(rec(x), n) = rec(x + n) /\ Advanced(rec(x), m) = rec(x + m)
             /\ Advanced(rec(x), m + n) = rec(x + (m + n))
  BY DEF Advanced
<1>. HIDE DEF rec
<1>5. p = rec(p.pos)
  BY <1>2 DEF rec
<1>. QED  BY <1>3, <1>4, <1>5

LEMMA SeekExact ==
  ASSUME NEW p, Readable(p)
  PROVE  /\ \A a \in 0 .. p.used :
              /\ Seek(p, a, "SET") = [p EXCEPT !.pos = a] /\ Readable(Seek(p, a, "SET"))
         /\ \A n \in Nat : p.pos + n <= p.used => Seek(p, n, "CUR") = Advanced(p, n)
<1>1. ASSUME NEW a \in 0 .. p.used PROVE Max({0, Min({p.used, a})}) = a
  <2>1. p.used \in Nat /\ a \in Nat /\ a <= p.used
    BY <1>1 DEF Readable
  <2>2. Min({p.used, a}) = a
    BY <2>1, MinMaxOfTwo
  <2>3. Max({0, a}) = a
    BY <2>1, MinMaxOfTwo
  <2>. QED  BY <2>2, <2>3
<1>2. ASSUME NEW a \in 0 .. p.used
      PROVE  Seek(p, a, "SET") = [p EXCEPT !.pos = a] /\ Readable(Seek(p, a, "SET"))
  <2>1. Seek(p, a, "SET") = [p EXCEPT !.pos = a]
    BY <1>1 DEF Seek
  <2>. QED  BY <2>1 DEF Readable
<1>3. ASSUME NEW n \in Nat, p.pos + n <= p.used PROVE Seek(p, n, "CUR") = Advanced(p, n)
  <2>1. p.pos + n \in 0 .. p.used
    BY <1>3 DEF Readable
  <2>2. Seek(p, n, "CUR") = [p EXCEPT !.pos = Max({0, Min({p.used, p.pos + n})})]
    BY DEF Seek
  <2>. QED  BY <1>1, <2>1, <2>2 DEF Advanced
<1>. QED  BY <1>2, <1>3

LEMMA PeekExact ==
  ASSUME NEW p, Readable(p), NEW n \in Nat, p.pos + n <= p.used
  PROVE  /\ Peek(p, n) \in Seq(Byte) /\ Len(Peek(p, n)) = n /\ DOMAIN Peek(p, n) = 1 .. n
         /\ \A k \in 1 .. n : Peek(p, n)[k] = p.mem[p.pos + k]
<1>1. \A k \in 1 .. n : p.pos + k \in DOMAIN p.mem /\ p.mem[p.pos + k] \in Byte
  BY DEF Readable
<1>2. Peek(p, n) = [k \in 1 .. n |-> p.mem[p.pos + k]]
  BY <1>1 DEF Peek
<1>3. Peek(p, n) \in [1 .. n -> Byte]
  BY <1>1, <1>2
<1>. QED  BY <1>2, <1>3

LEMMA PeekAt ==
  ASSUME NEW p, Readable(p), NEW bytes \in Seq(Byte), At(p, bytes)
  PROVE  Peek(p, Len(bytes)) = bytes
<1>. DEFINE n == Len(bytes)
            q == Peek(p, n)
<1>1. n \in Nat /\ p.pos + n <= p.used /\ bytes = [k \in 1 .. n |-> bytes[k]]
  BY DEF At
<1>2. q = [k \in 1 .. n |-> q[k]] /\ \A k \in 1 .. n : q[k] = p.mem[p.pos + k]
  <2>1. q \in Seq(Byte) /\ Len(q) = n
    BY <1>1, PeekExact
  <2>2. \A k \in 1 .. n : q[k] = p.mem[p.pos + k]
    BY <1>1, PeekExact
  <2>. HIDE DEF q, n
  <2>. QED  BY <2>1, <2>2
<1>3. \A k \in 1 .. n : p.mem[p.pos + k] = bytes[k]
  BY DEF At
<1>. HIDE DEF q, n
<1>4. q = bytes
  BY <1>1, <1>2, <1>3
<1>. QED  BY <1>4 DEF q, n

\* One after the other.
LEMMA AtBoth ==
  ASSUME NEW p, Readable(p), NEW a \in Seq(Byte), NEW b \in Seq(Byte), At(p, a \o b)
  PROVE  /\ p.pos + Len(a) <= p.used
         /\ At(p, a) /\ At(Advanced(p, Len(a)), b) /\ Readable(Advanced(p, Len(a)))
<1>. DEFINE m == Len(a)
            n == Len(b)
            q == Advanced(p, m)
<1>1. m \in Nat /\ n \in Nat /\ Len(a \o b) = m + n
  OBVIOUS
<1>2. /\ \A k \in 1 .. m : (a \o b)[k] = a[k]
      /\ \A k \in 1 .. n : (a \o b)[m + k] = b[k]
  OBVIOUS
<1>3. /\ p.pos \in Nat /\ p.used \in Nat /\ p.pos + (m + n) <= p.used
      /\ \A k \in 1 .. m + n : p.mem[p.pos + k] = (a \o b)[k]
  BY <1>1 DEF At, Readable
<1>4. p.pos + m <= p.used
  BY <1>1, <1>3
<1>5. Readable(q) /\ q.mem = p.mem /\ q.used = p.used /\ q.pos = p.pos + m
  BY <1>1, <1>4, AdvancedExact
<1>. HIDE DEF q
<1>6. At(p, a)
  BY <1>1, <1>2, <1>3, <1>4 DEF At
<1>7. At(q, b)
  <2>1. q.pos + n <= q.used
    BY <1>1, <1>3, <1>5
  <2>2. ASSUME NEW k \in 1 .. n PROVE q.mem[q.pos + k] = b[k]
    <3>1. m + k \in 1 .. m + n /\ q.pos + k = p.pos + (m + k)
      BY <1>1, <1>3, <1>5
    <3>. QED  BY <1>2, <1>3, <1>5, <3>1
  <2>. QED  BY <2>1, <2>2 DEF At
<1>. QED  BY <1>4, <1>5, <1>6, <1>7 DEF q

-----------------------------------------------------------------------------
(* Decoding varints, numbers and strings *)

\* d is the result of a decoder that has read these bytes.
ReadBy(d, p, bytes) == d.p = Advanced(p, Len(bytes)) /\ d.n = Len(bytes)

LEMMA VarintDecoded ==
  ASSUME NEW p, Readable(p), NEW v \in Nat, v < Pow2[WideBits], At(p, Varint(v))
  PROVE  /\ ReadBy(DecodeVarint(p), p, Varint(v)) /\ DecodeVarint(p).n > 0
         /\ v < Pow2[IntBits - 1] => DecodeVarint(p).v = v
<1>. DEFINE n == RequiredBytes(v)
            m == Min({VarintBytes, Remaining(p)})
            bytes == Peek(p, m)
            ends == {k \in DOMAIN bytes : bytes[k] < More \/ k = VarintBytes}
<1>1. /\ Varint(v) \in Seq(Byte) /\ Len(Varint(v)) = n /\ n \in 1 .. VarintBytes /\ VarintBytes \in Nat
      /\ \A i \in 1 .. n : Varint(v)[i] < More <=> i = n
  BY VarintExact, RoomForAll
<1>2. p.pos \in Nat /\ p.used \in Nat /\ p.pos + n <= p.used /\ Remaining(p) = p.used - p.pos
  BY <1>1 DEF At, Remaining, Readable
<1>3. m \in Nat /\ n <= m /\ m <= VarintBytes /\ p.pos + m <= p.used
  <2>1. Remaining(p) \in Nat /\ n <= Remaining(p) /\ p.pos + Remaining(p) = p.used
    BY <1>1, <1>2
  <2>2. m = IF VarintBytes <= Remaining(p) THEN VarintBytes ELSE Remaining(p)
    BY <1>1, <2>1, MinMaxOfTwo
  <2>. QED  BY <1>1, <1>2, <2>1, <2>2
<1>4. /\ DOMAIN bytes = 1 .. m /\ \A k \in 1 .. m : bytes[k] \in Byte
      /\ \A k \in 1 .. n : bytes[k] = Varint(v)[k]
  <2>. HIDE DEF m, n
  <2>1. Peek(p, m) \in Seq(Byte) /\ Len(Peek(p, m)) = m /\ DOMAIN Peek(p, m) = 1 .. m
        /\ \A k \in 1 .. m : Peek(p, m)[k] = p.mem[p.pos + k]
    BY <1>3, PeekExact
  <2>2. \A k \in 1 .. n : p.mem[p.pos + k] = Varint(v)[k]
    BY <1>1 DEF At
  <2>. HIDE DEF bytes
  <2>3. \A k \in 1 .. n : k \in 1 .. m
    BY <1>1, <1>3
  <2>. QED  BY <2>1, <2>2, <2>3 DEF bytes
<1>5. DecodeVarint(p) =
        LET k == IF ends = {} THEN Remaining(p) ELSE Min(ends)
        IN [p |-> Advanced(p, k), n |-> IF ends = {} THEN 0 ELSE k,
            v |-> ValueOf(UNION {ShiftedGroup(bytes[j], j - 1) : j \in 1 .. k})]
  BY DEF DecodeVarint
<1>. HIDE DEF n, m, bytes
<1>6. n \in ends /\ \A k \in ends : n <= k
  <2>1. n \in 1 .. m /\ bytes[n] < More
    BY <1>1, <1>3, <1>4
  <2>2. ASSUME NEW k \in ends, k < n PROVE FALSE
    <3>1. k \in 1 .. n /\ k # n /\ k # VarintBytes
      BY <1>1, <1>3, <1>4, <2>2
    <3>. QED  BY <1>1, <1>4, <2>2, <3>1
  <2>3. \A k \in ends : k \in Nat
    BY <1>3, <1>4
  <2>. QED  BY <1>1, <1>4, <2>1, <2>2, <2>3
<1>7. Min(ends) = n /\ ends # {}
  <2>1. ends \in SUBSET Nat
    BY <1>3, <1>4
  <2>. HIDE DEF ends
  <2>2. Min(ends) \in ends /\ \A k \in ends : Min(ends) <= k
    BY <1>6, <2>1, MinExact
  <2>3. Min(ends) \in Nat /\ n \in Nat
    BY <1>6, <2>1, <2>2
  <2>. QED  BY <1>6, <2>2, <2>3
<1>. HIDE DEF ends
<1>8. DecodeVarint(p) = [p |-> Advanced(p, n), n |-> n,
                         v |-> ValueOf(UNION {ShiftedGroup(bytes[j], j - 1) : j \in 1 .. n})]
  BY <1>5, <1>7
<1>9. ASSUME v < Pow2[IntBits - 1] PROVE DecodeVarint(p).v = v
  <2>1. ValueOf(UNION {ShiftedGroup(bytes[j], j - 1) : j \in 1 .. n}) = v
    BY <1>4, <1>9, GroupsAreValue DEF n
  <2>. QED  BY <1>8, <2>1
<1>10. DecodeVarint(p).p = Advanced(p, n) /\ DecodeVarint(p).n = n
  BY <1>8
<1>. QED  BY <1>1, <1>9, <1>10 DEF ReadBy

LEMMA ByteFacts ==
  /\ \A i \in Nat : ByteBits * i \in Nat /\ ByteBits * (i + 1) = ByteBits * i + ByteBits
  /\ \A i \in Nat : Pow2[ByteBits * i] \in Nat /\ Pow2[ByteBits * i] > 0
  /\ ByteBits * 0 = 0
<1>1. ByteBits \in Nat
  BY Widths
<1>2. \A g \in Nat : /\ \A i \in Nat : g * i \in Nat /\ g * (i + 1) = g * i + g
                     /\ g * 0 = 0
  OBVIOUS
<1>. QED  BY <1>1, <1>2, Pow2Positive

LEMMA InMemoryExact ==
  ASSUME NEW size \in Nat, NEW v \in Nat
  PROVE  /\ InMemory(v, size) \in Seq(Byte) /\ Len(InMemory(v, size)) = size
         /\ \A k \in 1 .. size :
              InMemory(v, size)[k] = (v \div Pow2[ByteBits * (k - 1)]) % Pow2[ByteBits]
<1>1. ASSUME NEW k \in 1 .. size
      PROVE  (v \div Pow2[ByteBits * (k - 1)]) % Pow2[ByteBits] \in Byte
  <2>. DEFINE q == v \div Pow2[ByteBits * (k - 1)]
  <2>1. q \in Nat
    <3>1. k - 1 \in Nat
      OBVIOUS
    <3>. QED  BY <3>1, ByteFacts, DivMod
  <2>. HIDE DEF q
  <2>2. Pow2[ByteBits] \in Nat /\ Pow2[ByteBits] > 0
    BY Widths, Pow2Positive
  <2>3. q % Pow2[ByteBits] \in Nat /\ q % Pow2[ByteBits] < Pow2[ByteBits]
    BY <2>1, <2>2, DivMod
  <2>4. q % Pow2[ByteBits] \in Byte
    BY <2>2, <2>3, Widths
  <2>. QED  BY <2>4 DEF q
<1>. DEFINE e(k) == (v \div Pow2[ByteBits * (k - 1)]) % Pow2[ByteBits]
<1>2. InMemory(v, size) = [k \in 1 .. size |-> e(k)]
  BY DEF InMemory
<1>3. \A k \in 1 .. size : e(k) \in Byte
  BY <1>1
<1>. HIDE DEF e
<1>4. InMemory(v, size) \in [1 .. size -> Byte] /\ \A k \in 1 .. size : InMemory(v, size)[k] = e(k)
  BY <1>2, <1>3
<1>5. InMemory(v, size) \in Seq(Byte) /\ Len(InMemory(v, size)) = size
  BY <1>4
<1>. QED  BY <1>4, <1>5 DEF e

Low(f, bytes) ==
  f = [n \in 0 .. Len(bytes) |-> IF n = 0 THEN 0 ELSE f[n - 1] + bytes[n] * Pow2[ByteBits * (n - 1)]]

\* The bytes of a number add up to it.
LEMMA FromMemoryExact ==
  ASSUME NEW size \in Nat, NEW v \in NumberValue(size)
  PROVE  FromMemory(InMemory(v, size)) = v
<1>. DEFINE bytes == InMemory(v, size)
            g == [n \in 0 .. size |-> v % Pow2[ByteBits * n]]
            f == CHOOSE f : Low(f, bytes)
<1>1. v \in Nat /\ v < Pow2[ByteBits * size]
  BY ByteFacts DEF NumberValue
<1>2. /\ Len(bytes) = size
      /\ \A k \in 1 .. size : bytes[k] = (v \div Pow2[ByteBits * (k - 1)]) % Pow2[ByteBits]
  BY <1>1, InMemoryExact
<1>3. FromMemory(bytes) = f[size]
  BY <1>2 DEF FromMemory, Low
<1>. HIDE DEF bytes, f
<1>4. g[0] = 0
  <2>1. Pow2[ByteBits * 0] = 1 /\ v = 1 * v + 0
    BY <1>1, ByteFacts, Pow2Def
  <2>2. v % 1 = 0
    BY <1>1, <2>1, DivUnique
  <2>. QED  BY <2>1, <2>2
<1>5. ASSUME NEW n \in 1 .. size
      PROVE  g[n] = g[n - 1] + bytes[n] * Pow2[ByteBits * (n - 1)]
  <2>. DEFINE a == Pow2[ByteBits * (n - 1)]
              b == Pow2[ByteBits]
  <2>1. n - 1 \in Nat /\ (n - 1) + 1 = n /\ n - 1 \in 0 .. size /\ n \in 0 .. size
    OBVIOUS
  <2>2. a \in Nat /\ a > 0 /\ b \in Nat /\ b > 0 /\ Pow2[ByteBits * n] = a * b
    <3>1. ByteBits * (n - 1) \in Nat /\ ByteBits * n = ByteBits * (n - 1) + ByteBits /\ ByteBits \in Nat
      BY <2>1, ByteFacts, Widths
    <3>. QED  BY <3>1, Pow2Positive, Pow2Add
  <2>3. g[n] = v % Pow2[ByteBits * n] /\ g[n - 1] = v % a /\ bytes[n] = (v \div a) % b
    BY <1>2, <2>1
  <2>. HIDE DEF a, b, g
  <2>4. v % (a * b) = (v % a) + a * ((v \div a) % b)
    BY <1>1, <2>2, DivDiv
  <2>5. (v \div a) % b \in Nat
    BY <1>1, <2>2, DivMod
  <2>6. \A x, y \in Nat : x * y = y * x
    OBVIOUS
  <2>7. g[n] = g[n - 1] + bytes[n] * a
    BY <2>2, <2>3, <2>4, <2>5, <2>6
  <2>. QED  BY <2>7 DEF a
<1>6. Low(g, bytes)
  <2>1. g = [n \in 0 .. size |-> g[n]]
    OBVIOUS
  <2>. HIDE DEF g
  <2>2. \A n \in 0 .. size : g[n] = IF n = 0 THEN 0 ELSE g[n - 1] + bytes[n] * Pow2[ByteBits * (n - 1)]
    BY <1>4, <1>5
  <2>. QED  BY <1>2, <2>1, <2>2 DEF Low
<1>7. Low(f, bytes)
  BY <1>6 DEF f
<1>8. f[size] = g[size]
  <2>. DEFINE T == {n \in 0 .. size : f[n] = g[n]}
  <2>. HIDE DEF g
  <2>1. \A n \in 0 .. size :
          f[n] = IF n = 0 THEN 0 ELSE f[n - 1] + bytes[n] * Pow2[ByteBits * (n - 1)]
    BY <1>2, <1>7 DEF Low
  <2>2. 0 \in T
    BY <1>4, <2>1
  <2>3. ASSUME NEW n \in 0 .. size - 1, n \in T PROVE n + 1 \in T
    <3>1. n + 1 \in 1 .. size /\ n + 1 \in 0 .. size /\ n + 1 # 0 /\ (n + 1) - 1 = n
      OBVIOUS
    <3>. QED  BY <1>5, <2>1, <2>3, <3>1
  <2>4. \A n \in 0 .. size : n \in T
    <3>. HIDE DEF T
    <3>. QED  BY <2>2, <2>3, Upto
  <2>. QED  BY <2>4
<1>9. g[size] = v
  <2>1. Pow2[ByteBits * size] \in Nat
    BY ByteFacts
  <2>2. v % Pow2[ByteBits * size] = v
    BY <1>1, <2>1, DivSmall
  <2>. QED  BY <2>2
<1>. QED  BY <1>3, <1>8, <1>9 DEF bytes

LEMMA NumberExact ==
  ASSUME NEW size \in Nat, NEW v \in NumberValue(size)
  PROVE  /\ Number(v, size) \in Seq(Byte) /\ Len(Number(v, size)) = size
         /\ FromMemory(SwapBytes(Number(v, size))) = v
<1>. DEFINE m == InMemory(v, size)
            r == Reverse(m)
<1>1. v \in Nat
  BY ByteFacts DEF NumberValue
<1>2. m \in Seq(Byte) /\ Len(m) = size /\ FromMemory(m) = v
  BY <1>1, InMemoryExact, FromMemoryExact
<1>. HIDE DEF m
<1>3. \A i \in 1 .. size : (size - i) + 1 \in 1 .. size /\ (size - ((size - i) + 1)) + 1 = i
  OBVIOUS
<1>4. r \in Seq(Byte) /\ Len(r) = size /\ \A i \in 1 .. size : r[i] = m[(size - i) + 1]
  <2>1. r = [i \in 1 .. size |-> m[(size - i) + 1]]
    BY <1>2 DEF Reverse
  <2>2. \A i \in 1 .. size : m[(size - i) + 1] \in Byte
    BY <1>2, <1>3
  <2>. HIDE DEF r
  <2>3. r \in [1 .. size -> Byte]
    BY <2>1, <2>2
  <2>. QED  BY <2>1, <2>3
<1>. HIDE DEF r
<1>5. Reverse(r) = m
  <2>1. Reverse(r) = [i \in 1 .. size |-> r[(size - i) + 1]]
    BY <1>4 DEF Reverse
  <2>2. \A i \in 1 .. size : r[(size - i) + 1] = m[i]
    BY <1>3, <1>4
  <2>3. m = [i \in 1 .. size |-> m[i]]
    BY <1>2
  <2>. QED  BY <2>1, <2>2, <2>3
<1>6. Number(v, size) = r
  BY DEF Number, SwapBytes, r, m
<1>. QED  BY <1>2, <1>4, <1>5, <1>6 DEF SwapBytes

LEMMA NumberDecoded ==
  ASSUME NEW p, Readable(p), NEW size \in Nat \ {0}, NEW v \in NumberValue(size),
         At(p, Number(v, size))
  PROVE  /\ ReadBy(DecodeNumber(p, size), p, Number(v, size)) /\ DecodeNumber(p, size).n = size
         /\ DecodeNumber(p, size).v = v
<1>. DEFINE bytes == Number(v, size)
<1>1. bytes \in Seq(Byte) /\ Len(bytes) = size /\ FromMemory(SwapBytes(bytes)) = v
  BY NumberExact
<1>. HIDE DEF bytes
<1>2. p.pos \in Nat /\ p.used \in Nat /\ p.pos + size <= p.used
  BY <1>1 DEF At, Readable, bytes
<1>3. ~(Remaining(p) < size) /\ CanRead(p, size)
  BY <1>2 DEF Remaining, CanRead
<1>4. Peek(p, size) = bytes
  BY <1>1, PeekAt DEF bytes
<1>5. DecodeNumber(p, size) = [p |-> Advanced(p, size), n |-> size, v |-> v]
  BY <1>1, <1>3, <1>4 DEF DecodeNumber
<1>. QED  BY <1>1, <1>5 DEF ReadBy, bytes

LEMMA StringDecoded ==
  ASSUME NEW p, Readable(p), NEW s, IsString(s), At(p, String(s))
  PROVE  /\ String(s) \in Seq(Byte) /\ Len(String(s)) > Len(s)
         /\ ReadBy(DecodeString(p), p, String(s)) /\ DecodeString(p).n > 0
         /\ DecodeString(p).v = s
<1>. DEFINE len == DecodeVarint(p)
            m == Len(Varint(Len(s)))
<1>1. s \in Seq(Byte) /\ Len(s) \in Nat /\ Len(s) < Pow2[IntBits - 1] /\ Len(s) < Pow2[WideBits]
  <2>1. /\ IntBits - 1 \in Nat /\ WideBits \in Nat /\ IntBits - 1 <= WideBits
    BY Widths
  <2>2. Pow2[IntBits - 1] <= Pow2[WideBits] /\ Pow2[IntBits - 1] \in Nat /\ Pow2[WideBits] \in Nat
    BY <2>1, Pow2Grows, Pow2Positive
  <2>3. s \in Seq(Byte) /\ Len(s) < Pow2[IntBits - 1] /\ Len(s) \in Nat
    BY DEF IsString
  <2>. QED  BY <2>2, <2>3
<1>2. Varint(Len(s)) \in Seq(Byte) /\ m \in Nat /\ m > 0
  <2>. DEFINE l == Len(s)
  <2>1. l \in Nat /\ l < Pow2[WideBits]
    BY <1>1
  <2>. HIDE DEF l
  <2>2. Varint(l) \in Seq(Byte) /\ Len(Varint(l)) \in 1 .. VarintBytes /\ VarintBytes \in Nat
    BY <2>1, VarintExact, RoomForAll
  <2>. QED  BY <2>2 DEF l
<1>3. /\ p.pos + m <= p.used /\ At(p, Varint(Len(s)))
      /\ At(Advanced(p, m), s) /\ Readable(Advanced(p, m))
  BY <1>1, <1>2, AtBoth DEF String
<1>4. len.p = Advanced(p, m) /\ len.n = m /\ len.v = Len(s)
  BY <1>1, <1>3, VarintDecoded DEF ReadBy
<1>. DEFINE q == Advanced(p, m)
<1>. HIDE DEF len, m
<1>5. ~(Remaining(q) < Len(s)) /\ q.pos + Len(s) <= q.used
  BY <1>1, <1>3 DEF At, Readable, Remaining
<1>6. Seek(q, Len(s), "CUR") = Advanced(q, Len(s)) /\ Peek(q, Len(s)) = s
  BY <1>1, <1>3, <1>5, SeekExact, PeekAt
<1>7. Advanced(q, Len(s)) = Advanced(p, m + Len(s))
  BY <1>1, <1>2, AdvancedTwice
<1>8. DecodeString(p) = [p |-> Advanced(p, m + Len(s)), n |-> m + Len(s), v |-> s]
  <2>1. DecodeString(p) =
          IF len.n = 0 \/ Remaining(len.p) < len.v THEN [p |-> len.p, n |-> 0, v |-> <<>>]
          ELSE [p |-> Seek(len.p, len.v, "CUR"), n |-> len.n + len.v, v |-> Peek(len.p, len.v)]
    BY DEF DecodeString, len
  <2>. QED  BY <1>2, <1>4, <1>5, <1>6, <1>7, <2>1
<1>9. String(s) \in Seq(Byte) /\ Len(String(s)) = m + Len(s)
  BY <1>1, <1>2 DEF String, m
<1>. QED  BY <1>1, <1>2, <1>8, <1>9 DEF ReadBy

-----------------------------------------------------------------------------
(* Decoding messages and inputs *)

\* Two functions that agree at 0 and go on alike are the same.
GoAlike(f, g, n) == f[0] = g[0] /\ \A k \in 1 .. n : f[k - 1] = g[k - 1] => f[k] = g[k]

LEMMA SameRun ==
  ASSUME NEW n \in Nat, NEW f, NEW g, GoAlike(f, g, n)
  PROVE  \A k \in 0 .. n : f[k] = g[k]
<1>. USE DEF GoAlike
<1>. DEFINE T == {k \in 0 .. n : f[k] = g[k]}
<1>1. 0 \in T
  OBVIOUS
<1>2. ASSUME NEW k \in 0 .. n - 1, k \in T PROVE k + 1 \in T
  <2>1. k + 1 \in 1 .. n /\ k + 1 \in 0 .. n /\ (k + 1) - 1 = k
    OBVIOUS
  <2>. QED  BY <1>2, <2>1
<1>3. \A k \in 0 .. n : k \in T
  <2>. HIDE DEF T
  <2>. QED  BY <1>1, <1>2, Upto
<1>. QED  BY <1>3

\* The places of sequences that follow each other in the packet.
LEMMA AtEach ==
  ASSUME NEW p, Readable(p), NEW seqs \in Seq(Seq(Byte)), At(p, FlattenSeq(seqs))
  PROVE  \E off \in [0 .. Len(seqs) -> Nat] :
           /\ off[0] = 0 /\ off[Len(seqs)] = Len(FlattenSeq(seqs))
           /\ \A k \in 1 .. Len(seqs) : off[k] = off[k - 1] + Len(seqs[k])
           /\ \A k \in 0 .. Len(seqs) : /\ p.pos + off[k] <= p.used
                                        /\ Readable(Advanced(p, off[k]))
           /\ \A k \in 1 .. Len(seqs) : At(Advanced(p, off[k - 1]), seqs[k])
<1>. DEFINE n == Len(seqs)
            flat == FlattenSeq(seqs)
<1>1. flat \in Seq(Byte) /\ n \in Nat
  BY FlattenOffsets
<1>2. PICK o : Offsets(flat, seqs, o)
  BY FlattenOffsets
<1>. DEFINE off == [k \in 0 .. n |-> o[k + 1]]
            l == Len(flat)
<1>3. /\ o[1] = 0 /\ l = o[n + 1] /\ l \in Nat /\ DOMAIN flat = 1 .. l
      /\ \A k \in 1 .. n + 1 : o[k] \in Nat
      /\ \A k \in 1 .. n : /\ o[k + 1] = o[k] + Len(seqs[k])
                           /\ \A m \in 1 .. Len(seqs[k]) :
                                o[k] + m \in DOMAIN flat /\ flat[o[k] + m] = seqs[k][m]
  BY <1>1, <1>2 DEF Offsets
<1>4. p.pos \in Nat /\ p.used \in Nat /\ p.pos + l <= p.used
      /\ \A k \in 1 .. l : p.mem[p.pos + k] = flat[k]
  BY DEF At, Readable
<1>. HIDE DEF flat, l, n
<1>5. /\ off \in [0 .. n -> Nat] /\ off[0] = 0 /\ off[n] = l
      /\ \A k \in 1 .. n : off[k] = o[k + 1] /\ off[k - 1] = o[k]
  <2>1. \A k \in 0 .. n : k + 1 \in 1 .. n + 1
    BY <1>1
  <2>2. off \in [0 .. n -> Nat]
    BY <1>3, <2>1
  <2>3. \A k \in 1 .. n : k - 1 \in 0 .. n /\ k \in 0 .. n /\ (k - 1) + 1 = k
    BY <1>1
  <2>. QED  BY <1>1, <1>3, <2>2, <2>3
<1>. HIDE DEF off
<1>6. /\ \A k \in 1 .. n : /\ off[k] = off[k - 1] + Len(seqs[k]) /\ seqs[k] \in Seq(Byte)
                           /\ Len(seqs[k]) \in Nat
                           /\ \A m \in 1 .. Len(seqs[k]) :
                                off[k - 1] + m \in 1 .. l /\ flat[off[k - 1] + m] = seqs[k][m]
  <2>1. \A k \in 1 .. n : seqs[k] \in Seq(Byte) /\ Len(seqs[k]) \in Nat
    BY DEF n
  <2>. QED  BY <1>3, <1>5, <2>1
<1>7. \A k \in 0 .. n : off[k] <= l
  <2>. DEFINE T == {k \in 0 .. n : off[k] <= l}
  <2>1. 0 \in T
    BY <1>1, <1>3, <1>5
  <2>2. ASSUME NEW k \in 0 .. n - 1, k \in T PROVE k + 1 \in T
    <3>1. k + 1 \in 1 .. n /\ k + 1 \in 0 .. n /\ (k + 1) - 1 = k /\ off[k] <= l /\ off[k] \in Nat
      BY <1>1, <1>5, <2>2
    <3>2. off[k + 1] = off[k] + Len(seqs[k + 1]) /\ Len(seqs[k + 1]) \in Nat
      BY <1>6, <3>1
    <3>3. Len(seqs[k + 1]) > 0 => off[k + 1] <= l
      <4>. DEFINE m == Len(seqs[k + 1])
      <4>1. m > 0 => m \in 1 .. m
        BY <3>2
      <4>2. m > 0 => off[(k + 1) - 1] + m \in 1 .. l
        BY <1>6, <3>1, <4>1
      <4>. HIDE DEF m
      <4>3. m > 0 => off[k] + m \in 1 .. l
        BY <3>1, <4>2
      <4>4. m > 0 => off[k] + m <= l
        BY <1>3, <4>3
      <4>. QED  BY <3>2, <4>4 DEF m
    <3>. QED  BY <3>1, <3>2, <3>3
  <2>3. \A k \in 0 .. n : k \in T
    <3>. HIDE DEF T
    <3>. QED  BY <1>1, <2>1, <2>2, Upto
  <2>. QED  BY <2>3
<1>8. ASSUME NEW k \in 0 .. n
      PROVE  /\ p.pos + off[k] <= p.used /\ Readable(Advanced(p, off[k]))
             /\ Advanced(p, off[k]).mem = p.mem /\ Advanced(p, off[k]).used = p.used
             /\ Advanced(p, off[k]).pos = p.pos + off[k]
  <2>1. off[k] <= l /\ off[k] \in Nat
    BY <1>5, <1>7
  <2>2. p.pos + l <= p.used /\ l \in Nat
    BY <1>3, <1>4
  <2>3. p.pos \in Nat /\ p.used \in Nat
    BY <1>4
  <2>4. p.pos + off[k] <= p.used
    BY <2>1, <2>2, <2>3
  <2>. QED  BY <2>1, <2>4, AdvancedExact
<1>9. ASSUME NEW k \in 1 .. n PROVE At(Advanced(p, off[k - 1]), seqs[k])
  <2>. DEFINE q == Advanced(p, off[k - 1])
  <2>1. k - 1 \in 0 .. n /\ k \in 0 .. n /\ off[k - 1] \in Nat
    BY <1>1, <1>5
  <2>2. q.mem = p.mem /\ q.used = p.used /\ q.pos = p.pos + off[k - 1]
    BY <1>8, <2>1
  <2>. HIDE DEF q
  <2>3. q.pos + Len(seqs[k]) <= q.used
    <3>1. p.pos + off[k] <= p.used
      BY <1>8, <2>1
    <3>2. off[k] = off[k - 1] + Len(seqs[k]) /\ Len(seqs[k]) \in Nat
      BY <1>6
    <3>. QED  BY <1>4, <2>1, <2>2, <3>1, <3>2
  <2>4. ASSUME NEW m \in 1 .. Len(seqs[k]) PROVE q.mem[q.pos + m] = seqs[k][m]
    <3>1. off[k - 1] + m \in 1 .. l /\ flat[off[k - 1] + m] = seqs[k][m] /\ Len(seqs[k]) \in Nat
      BY <1>6
    <3>2. (p.pos + off[k - 1]) + m = p.pos + (off[k - 1] + m)
      BY <1>4, <2>1, <3>1
    <3>. QED  BY <1>4, <2>2, <3>1, <3>2
  <2>5. At(q, seqs[k])
    BY <2>3, <2>4 DEF At
  <2>. QED  BY <2>5 DEF q
<1>. QED  BY <1>5, <1>6, <1>8, <1>9 DEF n, l, flat

Types == {"number", "string"}

\* A value and its codec.
IsValue(type, v) ==
  CASE type = "number" -> v \in NumberValue(NumberBytes)
    [] type = "string" -> IsString(v)

LEMMA CodecExact ==
  ASSUME NEW type \in Types, NEW v, IsValue(type, v)
  PROVE  /\ Encode(type, v) \in Seq(Byte) /\ Len(Encode(type, v)) > 0
         /\ \A p : Readable(p) /\ At(p, Encode(type, v)) =>
              /\ ReadBy(Decode(type, p), p, Encode(type, v))
              /\ Decode(type, p).v = v
<1>1. CASE type = "number"
  <2>1. /\ Encode(type, v) = Number(v, NumberBytes) /\ v \in NumberValue(NumberBytes)
        /\ \A p : Decode(type, p) = DecodeNumber(p, NumberBytes)
    BY <1>1 DEF Encode, Decode, IsValue
  <2>2. NumberBytes \in Nat \ {0}
    BY EncodingAssumption
  <2>3. Number(v, NumberBytes) \in Seq(Byte) /\ Len(Number(v, NumberBytes)) = NumberBytes
    BY <2>1, <2>2, NumberExact
  <2>. QED  BY <2>1, <2>2, <2>3, NumberDecoded
<1>2. CASE type = "string"
  <2>1. /\ Encode(type, v) = String(v) /\ IsString(v)
        /\ \A p : Decode(type, p) = DecodeString(p)
    BY <1>2 DEF Encode, Decode, IsValue
  <2>2. String(v) \in Seq(Byte) /\ Len(String(v)) > 0
    <3>1. v \in Seq(Byte) /\ Len(v) \in Nat /\ Len(v) < Pow2[WideBits]
      <4>1. IntBits - 1 \in Nat /\ WideBits \in Nat /\ IntBits - 1 <= WideBits
        BY Widths
      <4>2. Pow2[IntBits - 1] <= Pow2[WideBits] /\ Pow2[IntBits - 1] \in Nat /\ Pow2[WideBits] \in Nat
        BY <4>1, Pow2Grows, Pow2Positive
      <4>3. v \in Seq(Byte) /\ Len(v) < Pow2[IntBits - 1] /\ Len(v) \in Nat
        BY <2>1 DEF IsString
      <4>. QED  BY <4>2, <4>3
    <3>. DEFINE l == Len(v)
    <3>2. l \in Nat /\ l < Pow2[WideBits]
      BY <3>1
    <3>. HIDE DEF l
    <3>3. Varint(l) \in Seq(Byte) /\ Len(Varint(l)) \in 1 .. VarintBytes /\ VarintBytes \in Nat
      BY <3>2, VarintExact, RoomForAll
    <3>. QED  BY <3>1, <3>3 DEF String, l
  <2>. QED  BY <2>1, <2>2, StringDecoded
<1>. QED  BY <1>1, <1>2 DEF Types

MessageStep(types, r, k) ==
  LET d == Decode(types[k], r.p) IN [p |-> d.p, n |-> r.n + d.n, v |-> Append(r.v, d.v)]

MessageRun(f, types, p) ==
  f = [k \in 0 .. Len(types) |-> IF k = 0 THEN [p |-> p, n |-> 0, v |-> <<>>]
                                 ELSE MessageStep(types, f[k - 1], k)]

\* v's first n elements.
FirstOf(v, n) == [j \in 1 .. n |-> v[j]]

LEMMA FirstOfExact ==
  ASSUME NEW v, NEW n \in Nat
  PROVE  FirstOf(v, 0) = <<>> /\ Append(FirstOf(v, n), v[n + 1]) = FirstOf(v, n + 1)
<1>. DEFINE S == {v[j] : j \in 1 .. n + 1}
            s == FirstOf(v, n)
<1>1. s \in Seq(S) /\ Len(s) = n /\ v[n + 1] \in S
  <2>1. s \in [1 .. n -> S] /\ n + 1 \in 1 .. n + 1
    BY DEF FirstOf
  <2>. QED  BY <2>1
<1>2. \A j \in 1 .. n : s[j] = v[j]
  BY DEF FirstOf
<1>. HIDE DEF s, S
<1>3. /\ Append(s, v[n + 1]) \in Seq(S) /\ Len(Append(s, v[n + 1])) = n + 1
      /\ \A j \in 1 .. n + 1 : Append(s, v[n + 1])[j] = v[j]
  BY <1>1, <1>2
<1>4. Append(s, v[n + 1]) = [j \in 1 .. n + 1 |-> v[j]]
  BY <1>3
<1>. QED  BY <1>4 DEF FirstOf, s

LEMMA MessageExact ==
  ASSUME NEW types \in Seq(Types), types # <<>>, NEW v, IsMessage(types, v)
  PROVE  /\ Message(types, v) \in Seq(Byte) /\ Len(Message(types, v)) > 0
         /\ \A p : Readable(p) /\ At(p, Message(types, v)) =>
              /\ ReadBy(DecodeMessage(types, p), p, Message(types, v))
              /\ DecodeMessage(types, p).v = v
<1>. DEFINE n == Len(types)
            enc == [k \in DOMAIN types |-> Encode(types[k], v[k])]
            bytes == FlattenSeq(enc)
<1>1. n \in Nat /\ n > 0 /\ DOMAIN types = 1 .. n /\ \A k \in 1 .. n : types[k] \in Types
  OBVIOUS
<1>2. v = FirstOf(v, n) /\ \A k \in 1 .. n : IsValue(types[k], v[k])
  BY <1>1 DEF IsMessage, IsValue, FirstOf
<1>3. Message(types, v) = bytes
  BY DEF Message
<1>4. \A k \in 1 .. n : /\ enc[k] = Encode(types[k], v[k]) /\ enc[k] \in Seq(Byte) /\ Len(enc[k]) > 0
  BY <1>1, <1>2, CodecExact
<1>5. enc \in Seq(Seq(Byte)) /\ Len(enc) = n
  BY <1>1, <1>4
<1>. HIDE DEF enc, n
<1>6. bytes \in Seq(Byte)
  BY <1>5, FlattenOffsets
<1>7. Len(bytes) > 0
  <2>1. PICK off : Offsets(bytes, enc, off)
    BY <1>5, FlattenOffsets
  <2>2. off[n] \in Nat /\ off[n + 1] = off[n] + Len(enc[n]) /\ Len(bytes) = off[n + 1] /\ n \in 1 .. n
    BY <1>1, <1>5, <2>1 DEF Offsets
  <2>3. Len(enc[n]) \in Nat /\ Len(enc[n]) > 0
    BY <1>1, <1>4
  <2>. QED  BY <2>2, <2>3
<1>8. ASSUME NEW p, Readable(p), At(p, bytes)
      PROVE  DecodeMessage(types, p) = [p |-> Advanced(p, Len(bytes)), n |-> Len(bytes), v |-> v]
  <2>1. PICK off \in [0 .. n -> Nat] :
           /\ off[0] = 0 /\ off[n] = Len(bytes)
           /\ \A k \in 1 .. n : off[k] = off[k - 1] + Len(enc[k])
           /\ \A k \in 0 .. n : /\ p.pos + off[k] <= p.used
                                /\ Readable(Advanced(p, off[k]))
           /\ \A k \in 1 .. n : At(Advanced(p, off[k - 1]), enc[k])
    BY <1>5, <1>8, AtEach
  <2>. DEFINE g == [k \in 0 .. n |-> [p |-> Advanced(p, off[k]), n |-> off[k], v |-> FirstOf(v, k)]]
              f == CHOOSE f : MessageRun(f, types, p)
  <2>2. DecodeMessage(types, p) = f[n]
    BY DEF DecodeMessage, MessageRun, MessageStep, n
  <2>. HIDE DEF f, bytes
  <2>3. g[0] = [p |-> p, n |-> 0, v |-> <<>>]
    <3>1. Advanced(p, 0) = p
      BY <1>8 DEF Advanced, Readable
    <3>. QED  BY <1>1, <2>1, <3>1, FirstOfExact
  <2>4. ASSUME NEW k \in 1 .. n PROVE g[k] = MessageStep(types, g[k - 1], k)
    <3>. DEFINE q == Advanced(p, off[k - 1])
                d == Decode(types[k], q)
    <3>1. k - 1 \in 0 .. n /\ k \in 0 .. n /\ off[k - 1] \in Nat /\ (k - 1) + 1 = k /\ k - 1 \in Nat
      BY <1>1, <2>1
    <3>2. Readable(q) /\ At(q, enc[k])
      BY <2>1, <3>1
    <3>3. d.p = Advanced(q, Len(enc[k])) /\ d.n = Len(enc[k]) /\ d.v = v[k] /\ Len(enc[k]) \in Nat
      BY <1>1, <1>2, <1>4, <3>2, CodecExact DEF ReadBy
    <3>4. Advanced(q, Len(enc[k])) = Advanced(p, off[k])
      <4>1. off[k] = off[k - 1] + Len(enc[k])
        BY <2>1
      <4>. DEFINE l == Len(enc[k])
      <4>2. l \in Nat /\ off[k] = off[k - 1] + l
        BY <3>3, <4>1
      <4>. HIDE DEF l
      <4>3. Advanced(q, l) = Advanced(p, off[k - 1] + l)
        BY <1>8, <3>1, <4>2, AdvancedTwice
      <4>. QED  BY <4>2, <4>3 DEF l
    <3>5. Append(FirstOf(v, k - 1), v[k]) = FirstOf(v, k)
      BY <3>1, FirstOfExact
    <3>6. g[k - 1] = [p |-> q, n |-> off[k - 1], v |-> FirstOf(v, k - 1)]
      BY <3>1
    <3>7. g[k] = [p |-> Advanced(p, off[k]), n |-> off[k], v |-> FirstOf(v, k)]
      BY <3>1
    <3>. HIDE DEF g
    <3>8. MessageStep(types, g[k - 1], k)
            = [p |-> d.p, n |-> off[k - 1] + d.n, v |-> Append(FirstOf(v, k - 1), d.v)]
      BY <3>6 DEF MessageStep
    <3>. HIDE DEF d, q
    <3>. QED  BY <2>1, <3>3, <3>4, <3>5, <3>7, <3>8
  <2>5. MessageRun(g, types, p)
    <3>1. g = [k \in 0 .. n |-> g[k]]
      OBVIOUS
    <3>. HIDE DEF g
    <3>2. \A k \in 0 .. n : g[k] = IF k = 0 THEN [p |-> p, n |-> 0, v |-> <<>>]
                                   ELSE MessageStep(types, g[k - 1], k)
      BY <2>3, <2>4
    <3>. QED  BY <3>1, <3>2 DEF MessageRun, n
  <2>6. MessageRun(f, types, p)
    BY <2>5 DEF f
  <2>7. f[n] = g[n]
    <3>. HIDE DEF g
    <3>1. /\ f[0] = [p |-> p, n |-> 0, v |-> <<>>]
          /\ \A k \in 1 .. n : f[k] = MessageStep(types, f[k - 1], k)
      BY <1>1, <2>6 DEF MessageRun, n
    <3>2. GoAlike(f, g, n)
      BY <2>3, <2>4, <3>1 DEF GoAlike
    <3>3. \A k \in 0 .. n : f[k] = g[k]
      BY <1>1, <3>2, SameRun
    <3>. QED  BY <1>1, <3>3
  <2>8. g[n] = [p |-> Advanced(p, Len(bytes)), n |-> Len(bytes), v |-> v]
    BY <1>1, <1>2, <2>1
  <2>. QED  BY <2>2, <2>7, <2>8
<1>. QED  BY <1>3, <1>6, <1>7, <1>8 DEF ReadBy

InputStep(r, k) ==
  LET d == DecodeNumber(r.p, NumberBytes) IN
  IF r.n < (k - 1) * NumberBytes \/ d.n = 0 THEN [r EXCEPT !.n = 0]
  ELSE [p |-> d.p, n |-> r.n + d.n, v |-> Append(r.v, d.v)]

InputRun(f, count, p) ==
  f = [k \in 0 .. count |-> IF k = 0 THEN [p |-> p, n |-> 0, v |-> <<>>] ELSE InputStep(f[k - 1], k)]

LEMMA InputExact ==
  ASSUME NEW count \in Nat \ {0}, NEW v \in [1 .. count -> NumberValue(NumberBytes)]
  PROVE  /\ Input(v) \in Seq(Byte) /\ Len(Input(v)) > 0
         /\ \A p : Readable(p) /\ At(p, Input(v)) =>
              /\ ReadBy(DecodeInput(count, p), p, Input(v))
              /\ DecodeInput(count, p).v = v
<1>. DEFINE enc == [k \in DOMAIN v |-> Number(v[k], NumberBytes)]
            bytes == FlattenSeq(enc)
            size == NumberBytes
<1>1. size \in Nat \ {0} /\ count \in Nat /\ count > 0
  BY EncodingAssumption
<1>2. v = FirstOf(v, count) /\ \A k \in 1 .. count : v[k] \in NumberValue(size)
  BY DEF FirstOf
<1>3. Input(v) = bytes
  BY DEF Input
<1>4. \A k \in 1 .. count : enc[k] = Number(v[k], size) /\ enc[k] \in Seq(Byte) /\ Len(enc[k]) = size
  BY <1>1, <1>2, NumberExact
<1>5. enc \in Seq(Seq(Byte)) /\ Len(enc) = count
  BY <1>1, <1>4
<1>. HIDE DEF enc, size
<1>6. bytes \in Seq(Byte)
  BY <1>5, FlattenOffsets
<1>7. Len(bytes) > 0
  <2>1. PICK off : Offsets(bytes, enc, off)
    BY <1>5, FlattenOffsets
  <2>2. /\ off[count] \in Nat /\ off[count + 1] = off[count] + Len(enc[count])
        /\ Len(bytes) = off[count + 1] /\ count \in 1 .. count
    BY <1>1, <1>5, <2>1 DEF Offsets
  <2>3. Len(enc[count]) = size
    BY <1>1, <1>4
  <2>. QED  BY <1>1, <2>2, <2>3
<1>8. ASSUME NEW p, Readable(p), At(p, bytes)
      PROVE  DecodeInput(count, p) = [p |-> Advanced(p, Len(bytes)), n |-> Len(bytes), v |-> v]
  <2>1. PICK off \in [0 .. count -> Nat] :
           /\ off[0] = 0 /\ off[count] = Len(bytes)
           /\ \A k \in 1 .. count : off[k] = off[k - 1] + Len(enc[k])
           /\ \A k \in 0 .. count : /\ p.pos + off[k] <= p.used
                                    /\ Readable(Advanced(p, off[k]))
           /\ \A k \in 1 .. count : At(Advanced(p, off[k - 1]), enc[k])
    BY <1>5, <1>8, AtEach
  <2>. DEFINE g == [k \in 0 .. count |-> [p |-> Advanced(p, off[k]), n |-> off[k], v |-> FirstOf(v, k)]]
              f == CHOOSE f : InputRun(f, count, p)
  <2>2. DecodeInput(count, p) = f[count]
    BY DEF DecodeInput, InputRun, InputStep
  <2>. HIDE DEF f, bytes
  <2>3. g[0] = [p |-> p, n |-> 0, v |-> <<>>]
    <3>1. Advanced(p, 0) = p
      BY <1>8 DEF Advanced, Readable
    <3>. QED  BY <1>1, <2>1, <3>1, FirstOfExact
  <2>4. ASSUME NEW k \in 1 .. count PROVE off[k] = off[k - 1] + size /\ off[k] \in Nat
    <3>1. off[k] = off[k - 1] + Len(enc[k]) /\ k \in 0 .. count
      BY <1>1, <2>1
    <3>. QED  BY <1>4, <2>1, <3>1
  <2>5. \A k \in 0 .. count : off[k] = k * size
    <3>. DEFINE T == {k \in 0 .. count : off[k] = k * size}
    <3>1. 0 \in T
      BY <1>1, <2>1
    <3>2. ASSUME NEW k \in 0 .. count - 1, k \in T PROVE k + 1 \in T
      <4>1. k + 1 \in 1 .. count /\ k + 1 \in 0 .. count /\ (k + 1) - 1 = k
        BY <1>1
      <4>2. off[k + 1] = k * size + size
        BY <2>4, <3>2, <4>1
      <4>3. \A x, y \in Nat : (x + 1) * y = x * y + y
        OBVIOUS
      <4>4. (k + 1) * size = k * size + size
        BY <1>1, <4>1, <4>3
      <4>. QED  BY <4>1, <4>2, <4>4
    <3>3. \A k \in 0 .. count : k \in T
      <4>. HIDE DEF T
      <4>. QED  BY <1>1, <3>1, <3>2, Upto
    <3>. QED  BY <3>3
  <2>6. ASSUME NEW k \in 1 .. count PROVE g[k] = InputStep(g[k - 1], k)
    <3>. DEFINE q == Advanced(p, off[k - 1])
                d == DecodeNumber(q, size)
    <3>1. k - 1 \in 0 .. count /\ k \in 0 .. count /\ off[k - 1] \in Nat /\ (k - 1) + 1 = k /\ k - 1 \in Nat
      BY <1>1, <2>1
    <3>2. Readable(q) /\ At(q, Number(v[k], size))
      BY <1>4, <2>1, <3>1
    <3>. HIDE DEF q
    <3>3. d.p = Advanced(q, size) /\ d.n = size /\ d.v = v[k]
      <4>1. ReadBy(DecodeNumber(q, size), q, Number(v[k], size)) /\ d.n = size /\ d.v = v[k]
        BY <1>1, <1>2, <3>2, NumberDecoded
      <4>2. Len(Number(v[k], size)) = size
        BY <1>4
      <4>. QED  BY <4>1, <4>2 DEF ReadBy
    <3>4. Advanced(q, size) = Advanced(p, off[k])
      <4>1. Advanced(q, size) = Advanced(p, off[k - 1] + size)
        BY <1>1, <1>8, <3>1, AdvancedTwice DEF q
      <4>. QED  BY <2>4, <4>1
    <3>5. Append(FirstOf(v, k - 1), v[k]) = FirstOf(v, k)
      BY <3>1, FirstOfExact
    <3>6. g[k - 1] = [p |-> q, n |-> off[k - 1], v |-> FirstOf(v, k - 1)]
      BY <3>1 DEF q
    <3>7. g[k] = [p |-> Advanced(p, off[k]), n |-> off[k], v |-> FirstOf(v, k)]
      BY <3>1
    <3>. HIDE DEF g
    <3>8. ~(off[k - 1] < (k - 1) * size) /\ d.n # 0
      BY <1>1, <2>5, <3>1, <3>3
    <3>9. InputStep(g[k - 1], k)
            = [p |-> d.p, n |-> off[k - 1] + d.n, v |-> Append(FirstOf(v, k - 1), d.v)]
      BY <3>6, <3>8 DEF InputStep, size
    <3>. HIDE DEF d
    <3>. QED  BY <2>4, <3>3, <3>4, <3>5, <3>7, <3>9
  <2>7. InputRun(g, count, p)
    <3>1. g = [k \in 0 .. count |-> g[k]]
      OBVIOUS
    <3>. HIDE DEF g
    <3>2. \A k \in 0 .. count : g[k] = IF k = 0 THEN [p |-> p, n |-> 0, v |-> <<>>]
                                       ELSE InputStep(g[k - 1], k)
      BY <2>3, <2>6
    <3>. QED  BY <3>1, <3>2 DEF InputRun
  <2>8. InputRun(f, count, p)
    BY <2>7 DEF f
  <2>9. f[count] = g[count]
    <3>. HIDE DEF g
    <3>1. /\ f[0] = [p |-> p, n |-> 0, v |-> <<>>]
          /\ \A k \in 1 .. count : f[k] = InputStep(f[k - 1], k)
      BY <1>1, <2>8 DEF InputRun
    <3>2. GoAlike(f, g, count)
      BY <2>3, <2>6, <3>1 DEF GoAlike
    <3>3. \A k \in 0 .. count : f[k] = g[k]
      BY <1>1, <3>2, SameRun
    <3>. QED  BY <1>1, <3>3
  <2>10. g[count] = [p |-> Advanced(p, Len(bytes)), n |-> Len(bytes), v |-> v]
    BY <1>1, <1>2, <2>1
  <2>. QED  BY <2>2, <2>9, <2>10
<1>. QED  BY <1>3, <1>6, <1>7, <1>8 DEF ReadBy

-----------------------------------------------------------------------------
(* Answering a join request *)

LEMMA VersionExact ==
  ASSUME NEW lib \in [1 .. 3 -> NumberValue(2)]
  PROVE  /\ Version(lib) \in Seq(Byte) /\ Len(Version(lib)) = VersionSize
         /\ \A p : Readable(p) /\ At(p, Version(lib)) =>
              DecodeVersion(p) = [p |-> Advanced(p, VersionSize), n |-> VersionSize, v |-> lib]
<1>. DEFINE enc == [k \in 1 .. 3 |-> Number(lib[k], 2)]
            bytes == FlattenSeq(enc)
<1>1. \A k \in 1 .. 3 : lib[k] \in NumberValue(2) /\ enc[k] = Number(lib[k], 2) /\ enc[k] \in Seq(Byte) /\ Len(enc[k]) = 2
  BY NumberExact
<1>2. enc \in Seq(Seq(Byte)) /\ Len(enc) = 3
  BY <1>1
<1>3. Version(lib) = bytes
  BY DEF Version
<1>. HIDE DEF enc
<1>4. bytes \in Seq(Byte) /\ Len(bytes) = 6
  <2>1. bytes \in Seq(Byte)
    BY <1>2, FlattenOffsets
  <2>2. PICK off : Offsets(bytes, enc, off)
    BY <1>2, FlattenOffsets
  <2>3. Len(bytes) = off[4] /\ off[1] = 0 /\ \A k \in 1 .. 3 : off[k + 1] = off[k] + Len(enc[k])
    BY <1>2, <2>2 DEF Offsets
  <2>4. off[2] = off[1] + Len(enc[1]) /\ off[3] = off[2] + Len(enc[2]) /\ off[4] = off[3] + Len(enc[3])
    <3>1. off[1 + 1] = off[1] + Len(enc[1]) /\ off[2 + 1] = off[2] + Len(enc[2])
          /\ off[3 + 1] = off[3] + Len(enc[3])
      BY <2>3
    <3>. QED  BY <3>1
  <2>5. Len(enc[1]) = 2 /\ Len(enc[2]) = 2 /\ Len(enc[3]) = 2
    BY <1>1
  <2>. QED  BY <2>1, <2>3, <2>4, <2>5
<1>5. ASSUME NEW p, Readable(p), At(p, bytes)
      PROVE  \A k \in 1 .. 3 : DecodeNumber(Advanced(p, 2 * (k - 1)), 2).v = lib[k]
  <2>1. PICK off \in [0 .. 3 -> Nat] :
           /\ off[0] = 0
           /\ \A k \in 1 .. 3 : off[k] = off[k - 1] + Len(enc[k])
           /\ \A k \in 0 .. 3 : Readable(Advanced(p, off[k]))
           /\ \A k \in 1 .. 3 : At(Advanced(p, off[k - 1]), enc[k])
    <3>. HIDE DEF bytes
    <3>1. At(p, FlattenSeq(enc))
      BY <1>5 DEF bytes
    <3>2. \E off \in [0 .. Len(enc) -> Nat] :
           /\ off[0] = 0 /\ off[Len(enc)] = Len(FlattenSeq(enc))
           /\ \A k \in 1 .. Len(enc) : off[k] = off[k - 1] + Len(enc[k])
           /\ \A k \in 0 .. Len(enc) : /\ p.pos + off[k] <= p.used
                                       /\ Readable(Advanced(p, off[k]))
           /\ \A k \in 1 .. Len(enc) : At(Advanced(p, off[k - 1]), enc[k])
      BY <1>2, <1>5, <3>1, AtEach
    <3>. QED  BY <1>2, <3>2
  <2>2. off[1] = 2 /\ off[2] = 4
    <3>1. off[1] = off[1 - 1] + Len(enc[1]) /\ off[2] = off[2 - 1] + Len(enc[2])
      BY <2>1
    <3>2. Len(enc[1]) = 2 /\ Len(enc[2]) = 2
      BY <1>1
    <3>. QED  BY <2>1, <3>1, <3>2
  <2>3. \A k \in 1 .. 3 : off[k - 1] = 2 * (k - 1)
    BY <2>1, <2>2
  <2>4. ASSUME NEW k \in 1 .. 3 PROVE DecodeNumber(Advanced(p, 2 * (k - 1)), 2).v = lib[k]
    <3>. DEFINE q == Advanced(p, 2 * (k - 1))
    <3>1. Readable(q) /\ At(q, Number(lib[k], 2))
      <4>1. k - 1 \in 0 .. 3
        OBVIOUS
      <4>. QED  BY <1>1, <2>1, <2>3, <4>1
    <3>. HIDE DEF q
    <3>2. DecodeNumber(q, 2).v = lib[k]
      BY <1>1, <3>1, NumberDecoded
    <3>. QED  BY <3>2 DEF q
  <2>. QED  BY <2>4
<1>6. lib = [k \in 1 .. 3 |-> lib[k]]
  OBVIOUS
<1>. QED  BY <1>3, <1>4, <1>5, <1>6 DEF DecodeVersion, VersionSize

LEMMA ConcatExact ==
  ASSUME NEW a \in Seq(Byte), NEW b \in Seq(Byte)
  PROVE  a \o b \in Seq(Byte) /\ Len(a \o b) = Len(a) + Len(b)
OBVIOUS

\* Where the parts of a join request are.
LEMMA JoinPlaces ==
  ASSUME NEW j, IsJoinRequest(j)
  PROVE  /\ JoinRequest(j) \in Seq(Byte) /\ Len(JoinRequest(j)) = 15 + Len(String(j.game))
         /\ \A p : Readable(p) /\ At(p, JoinRequest(j)) =>
              LET q == Advanced(p, 11 + Len(String(j.game))) IN
              /\ Readable(Advanced(p, 4)) /\ At(Advanced(p, 4), <<JoinRequestCommand>>)
              /\ Readable(Advanced(p, 5)) /\ At(Advanced(p, 5), Version(j.lib))
              /\ Readable(Advanced(p, 11)) /\ At(Advanced(p, 11), String(j.game))
              /\ Readable(q) /\ At(q, Number(j.version, GameVersionSize))
              /\ p.pos + (15 + Len(String(j.game))) <= p.used
<1>. DEFINE H == Header
            C == <<JoinRequestCommand>>
            V == Version(j.lib)
            S == String(j.game)
            N == Number(j.version, GameVersionSize)
            HC == H \o C
            HCV == HC \o V
            HCVS == HCV \o S
<1>1. H \in Seq(Byte) /\ Len(H) = 4 /\ C \in Seq(Byte) /\ Len(C) = 1
  <2>1. 0 \in NumberValue(2) /\ 0 \in Byte /\ 1 \in Byte
    <3>1. Pow2[ByteBits * 2] \in Nat /\ Pow2[ByteBits * 2] > 0
      BY ByteFacts
    <3>. QED  BY <3>1, Widths DEF NumberValue
  <2>2. Number(0, 2) \in Seq(Byte) /\ Len(Number(0, 2)) = 2
    BY <2>1, NumberExact
  <2>. DEFINE z == <<0, 0>>
              n == Number(0, 2)
  <2>3. z \in Seq(Byte) /\ Len(z) = 2 /\ C \in Seq(Byte) /\ Len(C) = 1
    BY <2>1 DEF JoinRequestCommand
  <2>4. H = z \o n /\ n \in Seq(Byte) /\ Len(n) = 2
    BY <2>2 DEF Header
  <2>. HIDE DEF z, n, H, C
  <2>5. H \in Seq(Byte) /\ Len(H) = Len(z) + Len(n)
    BY <2>3, <2>4, ConcatExact
  <2>. QED  BY <2>3, <2>4, <2>5
<1>2. V \in Seq(Byte) /\ Len(V) = 6
  BY VersionExact DEF IsJoinRequest, VersionSize
<1>3. S \in Seq(Byte) /\ Len(S) \in Nat
  <2>1. "string" \in Types /\ IsValue("string", j.game) /\ Encode("string", j.game) = S
    BY DEF Types, IsValue, Encode, IsJoinRequest
  <2>. QED  BY <2>1, CodecExact
<1>4. N \in Seq(Byte) /\ Len(N) = 4
  BY NumberExact DEF IsJoinRequest, GameVersionSize
<1>5. JoinRequest(j) = HCVS \o N
  BY DEF JoinRequest
<1>. HIDE DEF H, C, V, S, N
<1>6. HC \in Seq(Byte) /\ Len(HC) = 5
  <2>1. HC \in Seq(Byte) /\ Len(HC) = Len(H) + Len(C)
    BY <1>1, ConcatExact
  <2>. QED  BY <1>1, <2>1
<1>. HIDE DEF HC
<1>7. HCV \in Seq(Byte) /\ Len(HCV) = 11
  <2>1. HCV \in Seq(Byte) /\ Len(HCV) = Len(HC) + Len(V)
    BY <1>2, <1>6, ConcatExact
  <2>. QED  BY <1>2, <1>6, <2>1
<1>. HIDE DEF HCV
<1>8. HCVS \in Seq(Byte) /\ Len(HCVS) = 11 + Len(S)
  BY <1>3, <1>7, ConcatExact
<1>. HIDE DEF HCVS
<1>9. HCVS \o N \in Seq(Byte) /\ Len(HCVS \o N) = 15 + Len(S)
  <2>1. HCVS \o N \in Seq(Byte) /\ Len(HCVS \o N) = Len(HCVS) + Len(N)
    BY <1>4, <1>8, ConcatExact
  <2>. QED  BY <1>3, <1>4, <1>8, <2>1
<1>10. ASSUME NEW p, Readable(p), At(p, HCVS \o N)
       PROVE  /\ Readable(Advanced(p, 4)) /\ At(Advanced(p, 4), C)
              /\ Readable(Advanced(p, 5)) /\ At(Advanced(p, 5), V)
              /\ Readable(Advanced(p, 11)) /\ At(Advanced(p, 11), S)
              /\ Readable(Advanced(p, 11 + Len(S))) /\ At(Advanced(p, 11 + Len(S)), N)
              /\ p.pos + (15 + Len(S)) <= p.used
  <2>1. At(p, HCVS) /\ Readable(Advanced(p, 11 + Len(S))) /\ At(Advanced(p, 11 + Len(S)), N)
    BY <1>4, <1>8, <1>10, AtBoth
  <2>2. At(p, HCV) /\ Readable(Advanced(p, 11)) /\ At(Advanced(p, 11), S)
    BY <1>3, <1>7, <1>10, <2>1, AtBoth DEF HCVS
  <2>3. At(p, HC) /\ Readable(Advanced(p, 5)) /\ At(Advanced(p, 5), V)
    BY <1>2, <1>6, <1>10, <2>2, AtBoth DEF HCV
  <2>4. Readable(Advanced(p, 4)) /\ At(Advanced(p, 4), C)
    BY <1>1, <1>10, <2>3, AtBoth DEF HC
  <2>5. p.pos + (15 + Len(S)) <= p.used
    BY <1>9, <1>10 DEF At
  <2>. QED  BY <2>1, <2>2, <2>3, <2>4, <2>5
<1>. QED  BY <1>5, <1>9, <1>10 DEF C, V, S, N

\* What the server is to say of a request.
RightAnswer(j) ==
  CASE j.game # GameName -> "IGNORED"
    [] j.game = GameName /\ j.lib # LibVersion -> "WRONG_LIB_VERSION"
    [] j.game = GameName /\ j.lib = LibVersion ->
         IF j.version = GameVersion THEN "CHALLENGE" ELSE "WRONG_GAME_VERSION"

LEMMA JoinAnswer ==
  ASSUME NEW j, IsJoinRequest(j), NEW p, Readable(p), p.pos = 0, At(p, JoinRequest(j)),
         p.used = Len(JoinRequest(j))
  PROVE  LET a == Answer(p) IN
         /\ a.v = RightAnswer(j) /\ Readable(a.p) /\ a.p.mem = p.mem /\ a.p.used = p.used
         /\ \/ Remaining(a.p) = 0
            \/ a.v \in {"IGNORED", "WRONG_LIB_VERSION"}
<1>. DEFINE l == Len(String(j.game))
            q == Advanced(p, 11 + l)
            lib == DecodeVersion(Advanced(p, 5))
            game == DecodeString(Advanced(p, 11))
            ver == DecodeNumber(q, GameVersionSize)
            a == Answer(p)
            head == Advanced(p, HeaderSize)
<1>1. /\ Readable(Advanced(p, 4)) /\ At(Advanced(p, 4), <<JoinRequestCommand>>)
      /\ Readable(Advanced(p, 5)) /\ At(Advanced(p, 5), Version(j.lib))
      /\ Readable(Advanced(p, 11)) /\ At(Advanced(p, 11), String(j.game))
      /\ Readable(q) /\ At(q, Number(j.version, GameVersionSize))
      /\ p.used = 15 + l
  BY JoinPlaces
<1>2. IsString(j.game) /\ j.lib \in [1 .. 3 -> NumberValue(2)] /\ j.version \in NumberValue(4)
  BY DEF IsJoinRequest, GameVersionSize
<1>3. l \in Nat /\ l > Len(j.game) /\ Len(j.game) \in Nat
  <2>1. String(j.game) \in Seq(Byte) /\ Len(String(j.game)) > Len(j.game)
    BY <1>1, <1>2, StringDecoded
  <2>. QED  BY <1>2, <2>1 DEF IsString
<1>4. lib.p = Advanced(p, 11) /\ lib.v = j.lib
  <2>1. lib = [p |-> Advanced(Advanced(p, 5), 6), n |-> 6, v |-> j.lib]
    BY <1>1, <1>2, VersionExact DEF VersionSize
  <2>2. Advanced(Advanced(p, 5), 6) = Advanced(p, 11)
    <3>1. Advanced(Advanced(p, 5), 6) = Advanced(p, 5 + 6)
      BY AdvancedTwice
    <3>. QED  BY <3>1
  <2>. QED  BY <2>1, <2>2
<1>5. game.p = q /\ game.v = j.game
  <2>. DEFINE r == Advanced(p, 11)
  <2>1. DecodeString(r).p = Advanced(r, l) /\ DecodeString(r).v = j.game
    BY <1>1, <1>2, StringDecoded DEF ReadBy
  <2>2. Advanced(r, l) = q
    BY <1>3, AdvancedTwice
  <2>. QED  BY <2>1, <2>2
<1>6. ver.p = Advanced(p, 15 + l) /\ ver.n = 4 /\ ver.v = j.version
  <2>1. Len(Number(j.version, 4)) = 4
    BY <1>2, NumberExact
  <2>. HIDE DEF q
  <2>2. DecodeNumber(q, 4).p = Advanced(q, 4) /\ DecodeNumber(q, 4).n = 4 /\ DecodeNumber(q, 4).v = j.version
    BY <1>1, <1>2, <2>1, NumberDecoded DEF ReadBy, GameVersionSize
  <2>3. Advanced(q, 4) = Advanced(p, 15 + l)
    <3>1. Advanced(q, 4) = Advanced(p, (11 + l) + 4) /\ (11 + l) + 4 = 15 + l
      BY <1>3, AdvancedTwice DEF q
    <3>. QED  BY <3>1
  <2>. QED  BY <2>2, <2>3 DEF GameVersionSize
<1>7. p.pos = 0 /\ p.used \in Nat
  BY DEF Readable
<1>8. Seek(p, HeaderSize + 1 + VersionSize, "SET") = Advanced(p, 11)
  <2>1. 11 \in 0 .. p.used /\ HeaderSize + 1 + VersionSize = 11
    BY <1>1, <1>3, <1>7 DEF HeaderSize, VersionSize
  <2>2. Seek(p, 11, "SET") = [p EXCEPT !.pos = 11]
    BY <2>1, SeekExact
  <2>3. Advanced(p, 11) = [p EXCEPT !.pos = 11]
    BY <1>7 DEF Advanced, Readable
  <2>. QED  BY <2>1, <2>2, <2>3
<1>9. /\ Readable(head) /\ head.pos = 4 /\ head.used = 15 + l
      /\ Peek(head, 1)[1] = JoinRequestCommand /\ Advanced(head, 1) = Advanced(p, 5)
  <2>. DEFINE r == Advanced(p, 4)
  <2>1. Readable(r) /\ r.pos = 4 /\ r.used = 15 + l
    BY <1>1, <1>7 DEF Advanced, Readable
  <2>2. Advanced(r, 1) = Advanced(p, 5)
    <3>1. Advanced(r, 1) = Advanced(p, 4 + 1)
      BY AdvancedTwice
    <3>. QED  BY <3>1
  <2>. HIDE DEF r
  <2>3. At(r, <<JoinRequestCommand>>)
    BY <1>1 DEF r
  <2>4. /\ r.pos + 1 <= r.used
        /\ r.mem[r.pos + 1] = JoinRequestCommand
    BY <2>3 DEF At
  <2>5. Peek(r, 1)[1] = r.mem[r.pos + 1]
    BY <2>1, <2>4, PeekExact
  <2>. QED  BY <2>1, <2>2, <2>4, <2>5 DEF r, HeaderSize
<1>10. ConnectCheck(p) <=> j.game = GameName
  <2>1. DecodeString(Seek(p, HeaderSize + 1 + VersionSize, "SET")).v = j.game
    BY <1>5, <1>8
  <2>2. j.game = GameName => Remaining(p) >= HeaderSize + 1 + VersionSize + Len(GameName) + GameVersionSize
    <3>1. HeaderSize + 1 + VersionSize + Len(j.game) + GameVersionSize <= 15 + l /\ Remaining(p) = 15 + l
      BY <1>1, <1>3, <1>7 DEF Remaining, HeaderSize, VersionSize, GameVersionSize
    <3>. QED  BY <3>1
  <2>. QED  BY <2>1, <2>2 DEF ConnectCheck
<1>11. CASE j.game # GameName
  <2>1. a = [p |-> p, n |-> 0, v |-> "IGNORED"]
    BY <1>10, <1>11 DEF Answer
  <2>2. RightAnswer(j) = "IGNORED"
    BY <1>11 DEF RightAnswer
  <2>. HIDE DEF a
  <2>3. a.p = p /\ a.v = "IGNORED"
    BY <2>1
  <2>. QED  BY <2>2, <2>3 DEF a
<1>12. CASE j.game = GameName
  <2>. DEFINE response(r, v) == [p |-> r, n |-> r.pos - head.pos, v |-> v]
  <2>1. a = Response(head)
    BY <1>10, <1>12 DEF Answer
  <2>2. ~ (\/ Remaining(head) = 0 \/ Peek(head, 1)[1] # JoinRequestCommand
           \/ Remaining(head) - 1 <= VersionSize)
    BY <1>3, <1>9 DEF Remaining, VersionSize
  <2>. HIDE DEF head, q
  <2>3. DecodeVersion(Advanced(head, 1)) = lib /\ DecodeString(lib.p) = game
        /\ DecodeNumber(game.p, GameVersionSize) = ver
    BY <1>4, <1>5, <1>9
  <2>. HIDE DEF lib, game, ver
  <2>4. Response(head) =
          IF ~IsVersionCompatible(lib.v) THEN response(lib.p, "WRONG_LIB_VERSION")
          ELSE IF game.v # GameName      THEN response(game.p, "WRONG_GAME")
          ELSE IF ver.n = 0              THEN [p |-> game.p, n |-> 0, v |-> "FALSE"]
          ELSE IF ~IsGameVersionCompatible(ver.v)
                                         THEN response(ver.p, "WRONG_GAME_VERSION")
          ELSE response(ver.p, "CHALLENGE")
    BY <2>2, <2>3 DEF Response
  <2>5. CASE j.lib # LibVersion
    <3>1. a = response(lib.p, "WRONG_LIB_VERSION")
      BY <1>4, <2>1, <2>4, <2>5 DEF IsVersionCompatible
    <3>2. RightAnswer(j) = "WRONG_LIB_VERSION"
      BY <1>12, <2>5 DEF RightAnswer
    <3>. HIDE DEF a
    <3>3. a.p = Advanced(p, 11) /\ a.v = "WRONG_LIB_VERSION"
      BY <1>4, <3>1
    <3>4. Readable(a.p) /\ a.p.mem = p.mem /\ a.p.used = p.used
      <4>1. p.pos + 11 <= p.used
        BY <1>1, <1>3, <1>7
      <4>. QED  BY <3>3, <4>1, AdvancedExact
    <3>. QED  BY <3>2, <3>3, <3>4 DEF a
  <2>6. CASE j.lib = LibVersion
    <3>1. a = response(ver.p, IF j.version = GameVersion THEN "CHALLENGE" ELSE "WRONG_GAME_VERSION")
      BY <1>4, <1>5, <1>6, <1>12, <2>1, <2>4, <2>6 DEF IsVersionCompatible, IsGameVersionCompatible
    <3>2. RightAnswer(j) = IF j.version = GameVersion THEN "CHALLENGE" ELSE "WRONG_GAME_VERSION"
      BY <1>12, <2>6 DEF RightAnswer
    <3>. HIDE DEF a
    <3>3. a.p = Advanced(p, 15 + l) /\ a.v = RightAnswer(j)
      BY <1>6, <3>1, <3>2
    <3>4. Readable(a.p) /\ a.p.mem = p.mem /\ a.p.used = p.used /\ a.p.pos = p.pos + (15 + l)
      <4>1. p.pos + (15 + l) <= p.used /\ 15 + l \in Nat
        BY <1>1, <1>3, <1>7
      <4>. QED  BY <3>3, <4>1, AdvancedExact
    <3>5. Remaining(a.p) = 0
      BY <1>1, <1>3, <1>7, <3>4 DEF Remaining
    <3>. QED  BY <3>3, <3>4, <3>5 DEF a
  <2>. QED  BY <2>5, <2>6
<1>. QED  BY <1>11, <1>12

-----------------------------------------------------------------------------
(* Decoding the update of an entity: the mask *)

Rounded(x) == (x + ByteBits - 1) \div ByteBits

\* The byte of a bit, and how many bytes hold so many bits.
LEMMA RoundedExact ==
  ASSUME NEW x \in Nat
  PROVE  /\ x \div ByteBits \in Nat /\ x % ByteBits \in 0 .. ByteBits - 1
         /\ x = ByteBits * (x \div ByteBits) + (x % ByteBits)
         /\ Rounded(x) = IF x % ByteBits = 0 THEN x \div ByteBits ELSE (x \div ByteBits) + 1
         /\ Rounded(x + 1) = (x \div ByteBits) + 1
         /\ (x + 1) % ByteBits = ((x % ByteBits) + 1) % ByteBits
         /\ x % ByteBits # 0 => (x - 1) \div ByteBits = x \div ByteBits
<1>. DEFINE b == ByteBits
            q == x \div b
            r == x % b
<1>1. b \in Nat /\ b > 1
  BY Widths
<1>2. q \in Nat /\ r \in Nat /\ r < b /\ x = b * q + r
  BY <1>1, DivMod
<1>. HIDE DEF b, q, r
<1>3. b * (q + 1) = b * q + b /\ b * q \in Nat
  BY <1>1, <1>2
<1>4. (x + b - 1) \div b = IF r = 0 THEN q ELSE q + 1
  <2>1. CASE r = 0
    <3>1. Divides(x + b - 1, b, q, b - 1)
      BY <1>1, <1>2, <1>3, <2>1 DEF Divides
    <3>. QED  BY <2>1, <3>1, DivIs
  <2>2. CASE r # 0
    <3>1. Divides(x + b - 1, b, q + 1, r - 1)
      BY <1>1, <1>2, <1>3, <2>2 DEF Divides
    <3>. QED  BY <2>2, <3>1, DivIs
  <2>. QED  BY <2>1, <2>2
<1>5. ((x + 1) + b - 1) \div b = q + 1
  <2>1. Divides((x + 1) + b - 1, b, q + 1, r)
    BY <1>1, <1>2, <1>3 DEF Divides
  <2>. QED  BY <2>1, DivIs
<1>6. (x + 1) % b = (r + 1) % b
  <2>1. CASE r + 1 < b
    <3>1. Divides(x + 1, b, q, r + 1)
      BY <1>1, <1>2, <1>3, <2>1 DEF Divides
    <3>2. Divides(r + 1, b, 0, r + 1)
      BY <1>1, <1>2, <2>1 DEF Divides
    <3>. QED  BY <3>1, <3>2, DivIs
  <2>2. CASE ~(r + 1 < b)
    <3>1. Divides(x + 1, b, q + 1, 0)
      BY <1>1, <1>2, <1>3, <2>2 DEF Divides
    <3>2. Divides(r + 1, b, 1, 0)
      BY <1>1, <1>2, <2>2 DEF Divides
    <3>. QED  BY <3>1, <3>2, DivIs
  <2>. QED  BY <2>1, <2>2
<1>7. ASSUME r # 0 PROVE (x - 1) \div b = q
  <2>1. Divides(x - 1, b, q, r - 1)
    BY <1>1, <1>2, <1>3, <1>7 DEF Divides
  <2>. QED  BY <2>1, DivIs
<1>. QED  BY <1>1, <1>2, <1>4, <1>5, <1>6, <1>7 DEF Rounded, b, q, r

LEMMA FieldsBeginExact ==
  ASSUME NEW count \in Nat \ {0}
  PROVE  /\ FieldsBegin(count) = Rounded(count) /\ FieldsBegin(count) \in Nat \ {0}
         /\ \A x \in 0 .. count - 1 : (x \div ByteBits) + 1 \in 1 .. FieldsBegin(count)
<1>. DEFINE c == count - 1
            q == c \div ByteBits
            r == c % ByteBits
<1>1. c \in Nat /\ c + 1 = count
  OBVIOUS
<1>. HIDE DEF c
<1>2. q \in Nat /\ r \in 0 .. ByteBits - 1 /\ c = ByteBits * q + r /\ Rounded(c + 1) = q + 1
  BY <1>1, RoundedExact
<1>3. FieldsBegin(count) = 1 + q
  BY DEF FieldsBegin, c
<1>. HIDE DEF q, r
<1>4. ASSUME NEW x \in 0 .. c PROVE (x \div ByteBits) + 1 \in 1 .. 1 + q
  <2>1. ByteBits \in Nat /\ ByteBits * (q + 1) = ByteBits * q + ByteBits /\ ByteBits * q \in Nat
        /\ ByteBits > 0
    BY <1>2, ByteFacts, Widths
  <2>2. x \in Nat /\ x < ByteBits * (q + 1) /\ q + 1 \in Nat
    BY <1>1, <1>2, <2>1
  <2>3. x \div ByteBits < q + 1 /\ x \div ByteBits \in Nat
    BY <2>1, <2>2, DivLess, DivMod
  <2>. QED  BY <1>2, <2>3
<1>5. c = count - 1
  BY DEF c
<1>. QED  BY <1>1, <1>2, <1>3, <1>4, <1>5

LEMMA MaskExact ==
  ASSUME NEW count \in Nat \ {0}, NEW D \in SUBSET (0 .. count - 1)
  PROVE  /\ Mask(D, count) \in Seq(Byte) /\ Len(Mask(D, count)) = FieldsBegin(count)
         /\ \A x \in 0 .. count - 1 :
              Bit(Mask(D, count)[(x \div ByteBits) + 1], ByteBits - 1 - (x % ByteBits)) = 1 <=> x \in D
<1>. DEFINE b == ByteBits
            S(j) == {b - 1 - (x % b) : x \in {y \in D : y \div b = j - 1}}
            m == FieldsBegin(count)
<1>1. b \in Nat /\ b > 1 /\ b <= WideBits /\ WideBits \in Nat
  BY Widths
<1>2. m \in Nat /\ Rounded(count) = m
  BY FieldsBeginExact
<1>3. Mask(D, count) = [j \in 1 .. m |-> ValueOf(S(j))]
  BY <1>2 DEF Mask, Rounded
<1>4. \A x \in D : x \in Nat /\ x % b \in 0 .. b - 1
  BY RoundedExact
<1>5. ASSUME NEW j \in 1 .. m
      PROVE  /\ ValueOf(S(j)) \in Byte
             /\ \A i \in Nat : Bit(ValueOf(S(j)), i) = 1 <=> i \in S(j)
  <2>1. S(j) \in SUBSET (0 .. b - 1)
    BY <1>1, <1>4
  <2>. HIDE DEF S
  <2>2. /\ ValueOf(S(j)) \in Nat /\ ValueOf(S(j)) < Pow2[b]
        /\ \A i \in Nat : Bit(ValueOf(S(j)), i) = 1 <=> i \in S(j)
    BY <1>1, <2>1, ValueOfSet
  <2>3. Byte = 0 .. Pow2[b] - 1 /\ Pow2[b] \in Nat
    BY <1>1, Widths, Pow2Positive
  <2>. QED  BY <2>2, <2>3
<1>6. Mask(D, count) \in Seq(Byte) /\ Len(Mask(D, count)) = m
  <2>. HIDE DEF S, m
  <2>1. Mask(D, count) \in [1 .. m -> Byte]
    BY <1>3, <1>5
  <2>. QED  BY <1>2, <2>1
<1>7. ASSUME NEW x \in 0 .. count - 1
      PROVE  Bit(Mask(D, count)[(x \div b) + 1], b - 1 - (x % b)) = 1 <=> x \in D
  <2>. DEFINE j == (x \div b) + 1
              i == b - 1 - (x % b)
  <2>1. x \in Nat /\ x \div b \in Nat /\ x % b \in 0 .. b - 1 /\ x = b * (x \div b) + (x % b) /\ j \in 1 .. m
    BY RoundedExact, FieldsBeginExact
  <2>2. i \in Nat /\ j - 1 = x \div b
    BY <1>1, <2>1
  <2>3. Mask(D, count)[j] = ValueOf(S(j))
    BY <1>3, <2>1
  <2>4. x \in D => i \in S(j)
    BY <2>2
  <2>5. ASSUME i \in S(j) PROVE x \in D
    <3>1. PICK y \in D : y \div b = j - 1 /\ i = b - 1 - (y % b)
      BY <2>5
    <3>2. y \in Nat /\ y % b \in 0 .. b - 1 /\ y = b * (y \div b) + (y % b)
      BY RoundedExact
    <3>3. y % b = x % b
      BY <1>1, <2>1, <3>1, <3>2
    <3>4. y \div b = x \div b
      BY <2>2, <3>1
    <3>. QED  BY <2>1, <3>2, <3>3, <3>4
  <2>. HIDE DEF i, j, S
  <2>6. Bit(ValueOf(S(j)), i) = 1 <=> i \in S(j)
    BY <1>5, <2>1, <2>2
  <2>. QED  BY <2>3, <2>4, <2>5, <2>6 DEF i, j
<1>. QED  BY <1>6, <1>7 DEF b, m

\* The packet p with its pointer at a.
Pointed(p, a) == [p EXCEPT !.pos = a]

LEMMA PointedExact ==
  ASSUME NEW p, Readable(p)
  PROVE  /\ p = Pointed(p, p.pos)
         /\ \A n \in Nat : Advanced(p, n) = Pointed(p, p.pos + n)
         /\ \A a \in 0 .. p.used :
              /\ Readable(Pointed(p, a)) /\ Pointed(p, a).pos = a
              /\ Pointed(p, a).mem = p.mem /\ Pointed(p, a).used = p.used
              /\ \A c \in 0 .. p.used : Seek(Pointed(p, a), c, "SET") = Pointed(p, c)
              /\ \A n \in Nat : Advanced(Pointed(p, a), n) = Pointed(p, a + n)
<1>1. \A q : q \in [mem : Seq(Byte), pos : Nat, used : Nat]
                => q = [mem |-> q.mem, pos |-> q.pos, used |-> q.used]
  OBVIOUS
<1>2. p = [mem |-> p.mem, pos |-> p.pos, used |-> p.used] /\ p.pos \in Nat /\ p.used \in Nat
  BY <1>1 DEF Readable
<1>3. \A a : Pointed(p, a) = [mem |-> p.mem, pos |-> a, used |-> p.used]
  BY <1>2 DEF Pointed
<1>4. p = Pointed(p, p.pos) /\ \A n \in Nat : Advanced(p, n) = Pointed(p, p.pos + n)
  BY <1>2, <1>3 DEF Advanced
<1>5. ASSUME NEW a \in 0 .. p.used
      PROVE  /\ Readable(Pointed(p, a)) /\ Pointed(p, a).pos = a
             /\ Pointed(p, a).mem = p.mem /\ Pointed(p, a).used = p.used
             /\ \A c \in 0 .. p.used : Seek(Pointed(p, a), c, "SET") = Pointed(p, c)
             /\ \A n \in Nat : Advanced(Pointed(p, a), n) = Pointed(p, a + n)
  <2>1. /\ Readable(Pointed(p, a)) /\ Pointed(p, a).pos = a
        /\ Pointed(p, a).mem = p.mem /\ Pointed(p, a).used = p.used
    BY <1>3 DEF Readable
  <2>2. \A c \in 0 .. p.used : Seek(Pointed(p, a), c, "SET") = [Pointed(p, a) EXCEPT !.pos = c]
    BY <2>1, SeekExact
  <2>3. \A c : [Pointed(p, a) EXCEPT !.pos = c] = Pointed(p, c)
    BY <1>3
  <2>4. \A n \in Nat : Advanced(Pointed(p, a), n) = Pointed(p, a + n)
    BY <1>3 DEF Advanced
  <2>. QED  BY <2>1, <2>2, <2>3, <2>4
<1>. QED  BY <1>4, <1>5

-----------------------------------------------------------------------------
(* Decoding the update of an entity: the fields *)

\* The first k of order are those below x.
Splits(order, x, k) ==
  k \in 0 .. Len(order) /\ \A i \in 1 .. Len(order) : order[i] < x <=> i <= k

LEMMA BelowFinite ==
  ASSUME NEW count \in Nat, NEW D \in SUBSET (0 .. count - 1)
  PROVE  D \in SUBSET Nat /\ IsFiniteSet(D)
<1>1. IsFiniteSet(0 .. count - 1)
  BY FS_Interval
<1>2. D \subseteq 0 .. count - 1
  OBVIOUS
<1>3. D \subseteq Nat
  OBVIOUS
<1>4. IsFiniteSet(D)
  BY <1>1, <1>2, FS_Subset
<1>. QED  BY <1>3, <1>4

\* c counts the members of D below x.
Counts(c, D, order, count) ==
  /\ c \in [0 .. count -> 0 .. Len(order)] /\ c[0] = 0 /\ c[count] = Len(order)
  /\ \A x \in 0 .. count - 1 :
       IF x \in D THEN c[x + 1] = c[x] + 1 /\ order[c[x] + 1] = x ELSE c[x + 1] = c[x]

LEMMA SplitsExact ==
  ASSUME NEW count \in Nat, NEW D \in SUBSET (0 .. count - 1)
  PROVE  \E c : Counts(c, D, Ascending(D), count)
<1>. DEFINE order == Ascending(D)
            n == Len(order)
<1>1. /\ order \in Seq(D) /\ DOMAIN order = 1 .. n /\ n \in Nat
      /\ \A i \in 1 .. n : order[i] \in D
      /\ \A i, j \in 1 .. n : (i < j => order[i] < order[j]) /\ (order[i] = order[j] => i = j)
      /\ \A x \in D : \E i \in 1 .. n : order[i] = x
  <2>1. D \in SUBSET Nat /\ IsFiniteSet(D)
    BY BelowFinite
  <2>2. /\ order \in Seq(D) /\ DOMAIN order = 1 .. Len(order)
        /\ \A i, j \in DOMAIN order :
             (i < j => order[i] < order[j]) /\ (order[i] = order[j] => i = j)
        /\ \A x \in D : \E i \in DOMAIN order : order[i] = x
    BY <2>1, AscendingExact
  <2>. HIDE DEF order
  <2>. QED  BY <2>2
<1>0. \A x \in D : x \in Nat /\ x < count
  OBVIOUS
<1>. HIDE DEF order, n
<1>12. \A i \in 1 .. n : order[i] \in Nat /\ order[i] < count
  <2>1. \A i \in 1 .. n : order[i] \in D
    BY <1>1
  <2>. QED  BY <1>0, <2>1
<1>2. Splits(order, 0, 0)
  <2>1. n \in Nat /\ 0 \in 0 .. n
    BY <1>1
  <2>2. ASSUME NEW i \in 1 .. n PROVE order[i] < 0 <=> i <= 0
    <3>1. order[i] \in Nat /\ i \in Nat /\ i > 0
      BY <1>12, <2>1
    <3>. QED  BY <3>1
  <2>. QED  BY <2>1, <2>2 DEF Splits, n
<1>3. ASSUME NEW x \in 0 .. count - 1, NEW k, Splits(order, x, k)
      PROVE  IF x \in D THEN Splits(order, x + 1, k + 1) /\ order[k + 1] = x
                        ELSE Splits(order, x + 1, k)
  <2>1. k \in 0 .. n /\ \A i \in 1 .. n : order[i] < x <=> i <= k
    BY <1>3 DEF Splits, n
  <2>2. \A i \in 1 .. n : order[i] \in Nat /\ (order[i] < x + 1 <=> order[i] < x \/ order[i] = x)
    BY <1>12
  <2>3. CASE x \notin D
    <3>1. \A i \in 1 .. n : order[i] # x
      BY <1>1, <2>3
    <3>. QED  BY <2>1, <2>2, <2>3, <3>1 DEF Splits, n
  <2>4. CASE x \in D
    <3>1. PICK i \in 1 .. n : order[i] = x
      BY <1>1, <2>4
    <3>2. k < i
      BY <1>1, <2>1, <3>1
    <3>3. ASSUME k + 1 # i PROVE FALSE
      <4>1. k + 1 \in 1 .. n /\ k + 1 < i
        BY <1>1, <2>1, <3>1, <3>2, <3>3
      <4>2. order[k + 1] < x
        BY <1>1, <3>1, <4>1
      <4>. QED  BY <2>1, <4>1, <4>2
    <3>4. i = k + 1
      BY <3>3
    <3>5. \A l \in 1 .. n : order[l] = x <=> l = i
      BY <1>1, <3>1
    <3>6. \A l \in 1 .. n : order[l] < x + 1 <=> l <= k + 1
      BY <1>1, <2>1, <2>2, <3>4, <3>5
    <3>7. k + 1 \in 0 .. n
      BY <1>1, <3>1, <3>4
    <3>. QED  BY <2>4, <3>1, <3>4, <3>6, <3>7 DEF Splits, n
  <2>. QED  BY <2>3, <2>4
<1>4. \A x \in 0 .. count : \E k : Splits(order, x, k)
  <2>. DEFINE T == {x \in 0 .. count : \E k : Splits(order, x, k)}
  <2>1. 0 \in T
    BY <1>2
  <2>2. ASSUME NEW x \in 0 .. count - 1, x \in T PROVE x + 1 \in T
    <3>1. PICK k : Splits(order, x, k)
      BY <2>2
    <3>2. \E l : Splits(order, x + 1, l)
      BY <1>3, <3>1
    <3>. QED  BY <3>2
  <2>3. \A x \in 0 .. count : x \in T
    <3>. HIDE DEF T
    <3>. QED  BY <2>1, <2>2, Upto
  <2>. QED  BY <2>3
<1>5. ASSUME NEW x, NEW k, NEW l, Splits(order, x, k), Splits(order, x, l) PROVE k = l
  <2>1. k \in 0 .. n /\ l \in 0 .. n /\ \A i \in 1 .. n : i <= k <=> i <= l
    BY <1>5 DEF Splits, n
  <2>2. k > 0 => k <= l
    BY <1>1, <2>1
  <2>3. l > 0 => l <= k
    BY <1>1, <2>1
  <2>. QED  BY <1>1, <2>1, <2>2, <2>3
<1>. DEFINE c == [x \in 0 .. count |-> CHOOSE k : Splits(order, x, k)]
<1>6. \A x \in 0 .. count : Splits(order, x, c[x])
  BY <1>4
<1>7. c \in [0 .. count -> 0 .. n]
  <2>1. \A x \in 0 .. count : c[x] \in 0 .. n
    BY <1>6 DEF Splits, n
  <2>2. c = [x \in 0 .. count |-> c[x]]
    OBVIOUS
  <2>. HIDE DEF c
  <2>. QED  BY <2>1, <2>2
<1>. HIDE DEF c
<1>8. c[0] = 0
  BY <1>2, <1>5, <1>6
<1>9. c[count] = n
  <2>1. Splits(order, count, n)
    <3>1. \A i \in 1 .. n : order[i] < count <=> i <= n
      BY <1>12
    <3>. QED  BY <1>1, <3>1 DEF Splits, n
  <2>. QED  BY <1>5, <1>6, <2>1
<1>10. ASSUME NEW x \in 0 .. count - 1
       PROVE  IF x \in D THEN c[x + 1] = c[x] + 1 /\ order[c[x] + 1] = x ELSE c[x + 1] = c[x]
  <2>1. x \in 0 .. count /\ x + 1 \in 0 .. count
    OBVIOUS
  <2>2. Splits(order, x, c[x]) /\ Splits(order, x + 1, c[x + 1])
    BY <1>6, <2>1
  <2>. QED  BY <1>3, <1>5, <2>2
<1>11. Counts(c, D, order, count)
  BY <1>7, <1>8, <1>9, <1>10 DEF Counts, n
<1>. QED  BY <1>11 DEF order

IsUpdate(upd, count) ==
  DOMAIN upd \subseteq 0 .. count - 1 /\ upd \in [DOMAIN upd -> 0 .. Pow2[WideBits] - 1]

\* Field x is at its place, if there is one.
FieldAt(p, place, upd, x) ==
  /\ p.pos + place[x] <= p.used /\ p.pos + place[x + 1] <= p.used
  /\ IF x \in DOMAIN upd
       THEN /\ place[x + 1] = place[x] + Len(Varint(upd[x]))
            /\ At(Pointed(p, p.pos + place[x]), Varint(upd[x]))
       ELSE place[x + 1] = place[x]

Placed(place, p, upd, count) ==
  /\ place \in [0 .. count -> Nat]
  /\ place[0] = FieldsBegin(count) /\ place[count] = Len(Update(upd, count))
  /\ \A x \in 0 .. count : p.pos + place[x] <= p.used
  /\ \A x \in 0 .. count - 1 : FieldAt(p, place, upd, x)

LEMMA FieldPlaces ==
  ASSUME NEW count \in Nat \ {0}, NEW upd, IsUpdate(upd, count)
  PROVE  /\ Update(upd, count) \in Seq(Byte) /\ Len(Update(upd, count)) > 0
         /\ \A p : Readable(p) /\ At(p, Update(upd, count)) =>
              At(p, Mask(DOMAIN upd, count)) /\ \E place : Placed(place, p, upd, count)
<1>. DEFINE D == DOMAIN upd
            order == Ascending(D)
            n == Len(order)
            enc == [k \in DOMAIN order |-> Varint(upd[order[k]])]
            fields == FlattenSeq(enc)
            mask == Mask(D, count)
            m == FieldsBegin(count)
<1>1. D \in SUBSET (0 .. count - 1) /\ count \in Nat /\ count > 0
  BY DEF IsUpdate
<1>2. mask \in Seq(Byte) /\ Len(mask) = m /\ m \in Nat /\ m > 0
  BY <1>1, MaskExact, FieldsBeginExact
<1>3. DOMAIN order = 1 .. n /\ n \in Nat /\ \A k \in 1 .. n : order[k] \in D
  <2>1. D \in SUBSET Nat /\ IsFiniteSet(D)
    BY <1>1, BelowFinite
  <2>2. order \in Seq(D) /\ DOMAIN order = 1 .. n
    BY <2>1, AscendingExact
  <2>. HIDE DEF order, D
  <2>. QED  BY <2>2
<1>4. \A x \in D : upd[x] \in Nat /\ upd[x] < Pow2[WideBits]
  <2>1. Pow2[WideBits] \in Nat
    BY Widths, Pow2Positive
  <2>2. \A x \in D : upd[x] \in 0 .. Pow2[WideBits] - 1
    BY DEF IsUpdate
  <2>. QED  BY <2>1, <2>2
<1>. HIDE DEF D
<1>10. PICK c : Counts(c, D, order, count)
  BY <1>1, SplitsExact
<1>. HIDE DEF order
<1>5. \A x \in D : Varint(upd[x]) \in Seq(Byte)
  BY <1>4, VarintExact
<1>6. enc \in Seq(Seq(Byte)) /\ Len(enc) = n /\ \A k \in 1 .. n : enc[k] = Varint(upd[order[k]])
  BY <1>3, <1>5
<1>7. Update(upd, count) = mask \o fields
  BY DEF Update, D, order
<1>. HIDE DEF enc, mask, n, m
<1>8. fields \in Seq(Byte)
  BY <1>6, FlattenOffsets
<1>9. mask \o fields \in Seq(Byte) /\ Len(mask \o fields) = m + Len(fields) /\ Len(fields) \in Nat
  <2>. HIDE DEF fields
  <2>1. mask \o fields \in Seq(Byte) /\ Len(mask \o fields) = Len(mask) + Len(fields)
    BY <1>2, <1>8, ConcatExact
  <2>. QED  BY <1>2, <1>8, <2>1
<1>13. /\ c \in [0 .. count -> 0 .. n] /\ c[0] = 0 /\ c[count] = n
       /\ \A x \in 0 .. count - 1 :
            IF x \in D THEN c[x + 1] = c[x] + 1 /\ order[c[x] + 1] = x ELSE c[x + 1] = c[x]
  BY <1>10 DEF Counts, n
<1>11. ASSUME NEW p, Readable(p), At(p, mask \o fields)
       PROVE  At(p, mask) /\ \E place : Placed(place, p, upd, count)
  <2>. DEFINE q == Advanced(p, m)
  <2>1. At(p, mask) /\ At(q, fields) /\ Readable(q) /\ p.pos + m <= p.used
    <3>. HIDE DEF fields
    <3>. QED  BY <1>2, <1>8, <1>11, AtBoth
  <2>2. p.pos \in Nat /\ p.used \in Nat /\ q.pos = p.pos + m /\ q.used = p.used
    BY <1>2, <1>11, <2>1, AdvancedExact DEF Readable
  <2>. HIDE DEF q
  <2>3. PICK off \in [0 .. n -> Nat] :
           /\ off[0] = 0 /\ off[n] = Len(fields)
           /\ \A k \in 1 .. n : off[k] = off[k - 1] + Len(enc[k])
           /\ \A k \in 0 .. n : q.pos + off[k] <= q.used
           /\ \A k \in 1 .. n : At(Advanced(q, off[k - 1]), enc[k])
    <3>1. \E off \in [0 .. Len(enc) -> Nat] :
           /\ off[0] = 0 /\ off[Len(enc)] = Len(FlattenSeq(enc))
           /\ \A k \in 1 .. Len(enc) : off[k] = off[k - 1] + Len(enc[k])
           /\ \A k \in 0 .. Len(enc) : /\ q.pos + off[k] <= q.used
                                       /\ Readable(Advanced(q, off[k]))
           /\ \A k \in 1 .. Len(enc) : At(Advanced(q, off[k - 1]), enc[k])
      BY <1>6, <2>1, AtEach
    <3>. QED  BY <1>6, <3>1
  <2>. HIDE DEF fields
  <2>. DEFINE place == [x \in 0 .. count |-> m + off[c[x]]]
  <2>4. \A x \in 0 .. count : c[x] \in 0 .. n /\ off[c[x]] \in Nat
    BY <1>13, <2>3
  <2>5. place \in [0 .. count -> Nat] /\ \A x \in 0 .. count : place[x] = m + off[c[x]]
    BY <1>2, <2>4
  <2>. HIDE DEF place
  <2>6. place[0] = m /\ place[count] = m + Len(fields)
    <3>1. 0 \in 0 .. count /\ count \in 0 .. count
      BY <1>1
    <3>2. place[0] = m + off[0] /\ place[count] = m + off[n]
      BY <1>13, <2>5, <3>1
    <3>. QED  BY <1>2, <2>3, <3>2
  <2>7. ASSUME NEW x \in 0 .. count PROVE p.pos + place[x] <= p.used
    <3>1. q.pos + off[c[x]] <= q.used /\ off[c[x]] \in Nat /\ place[x] = m + off[c[x]]
      BY <2>3, <2>4, <2>5
    <3>. QED  BY <1>2, <2>2, <3>1
  <2>8. ASSUME NEW x \in 0 .. count - 1
        PROVE  IF x \in D
                 THEN /\ place[x + 1] = place[x] + Len(Varint(upd[x]))
                      /\ At(Pointed(p, p.pos + place[x]), Varint(upd[x]))
                 ELSE place[x + 1] = place[x]
    <3>1. /\ x \in 0 .. count /\ x + 1 \in 0 .. count
          /\ IF x \in D THEN c[x + 1] = c[x] + 1 /\ order[c[x] + 1] = x ELSE c[x + 1] = c[x]
      BY <1>13
    <3>2. /\ place[x] = m + off[c[x]] /\ place[x + 1] = m + off[c[x + 1]]
          /\ c[x] \in 0 .. n /\ c[x + 1] \in 0 .. n /\ off[c[x]] \in Nat
      BY <2>4, <2>5, <3>1
    <3>3. CASE x \in D
      <4>. DEFINE k == c[x] + 1
      <4>0. c[x + 1] = c[x] + 1 /\ order[c[x] + 1] = x
        BY <3>1, <3>3
      <4>1. k \in 1 .. n /\ k - 1 = c[x] /\ c[x + 1] = k /\ order[k] = x
        <5>. DEFINE a == c[x]
                    b == c[x + 1]
        <5>1. a \in 0 .. n /\ b \in 0 .. n /\ n \in Nat /\ b = a + 1 /\ order[a + 1] = x
          BY <1>3, <3>2, <4>0
        <5>. HIDE DEF a, b
        <5>2. a + 1 \in 1 .. n /\ (a + 1) - 1 = a /\ b = a + 1
          BY <5>1
        <5>. QED  BY <5>1, <5>2 DEF a, b
      <4>2. enc[k] = Varint(upd[x]) /\ Len(Varint(upd[x])) \in Nat
        BY <1>5, <1>6, <3>3, <4>1
      <4>. HIDE DEF k
      <4>3. off[k] = off[k - 1] + Len(enc[k]) /\ At(Advanced(q, off[k - 1]), enc[k])
        BY <2>3, <4>1
      <4>4. place[x + 1] = place[x] + Len(Varint(upd[x]))
        BY <1>2, <3>2, <4>1, <4>2, <4>3
      <4>5. Advanced(q, off[k - 1]) = Pointed(p, p.pos + place[x])
        <5>. DEFINE o == off[k - 1]
        <5>1. o \in Nat /\ place[x] = m + o
          BY <3>2, <4>1
        <5>. HIDE DEF o
        <5>2. Advanced(q, o) = Advanced(p, m + o)
          BY <1>2, <1>11, <5>1, AdvancedTwice DEF q
        <5>3. m + o \in Nat
          BY <1>2, <5>1
        <5>4. Advanced(p, m + o) = Pointed(p, p.pos + (m + o))
          BY <1>11, <5>3, PointedExact
        <5>. QED  BY <5>1, <5>2, <5>4 DEF o
      <4>. QED  BY <3>3, <4>2, <4>3, <4>4, <4>5
    <3>4. CASE x \notin D
      BY <3>1, <3>2, <3>4
    <3>. QED  BY <3>3, <3>4
  <2>9. ASSUME NEW x \in 0 .. count - 1 PROVE FieldAt(p, place, upd, x)
    <3>1. x \in 0 .. count /\ x + 1 \in 0 .. count
      BY <1>1
    <3>. QED  BY <2>7, <2>8, <3>1 DEF FieldAt, D
  <2>10. place[count] = Len(Update(upd, count))
    BY <1>7, <1>9, <2>6
  <2>11. Placed(place, p, upd, count)
    BY <2>5, <2>6, <2>7, <2>9, <2>10 DEF Placed, m
  <2>. QED  BY <2>1, <2>11
<1>. HIDE DEF fields
<1>12. Len(mask \o fields) > 0
  BY <1>2, <1>9
<1>. QED  BY <1>7, <1>9, <1>11, <1>12 DEF D, mask

\* A BitReader before bit x, at the byte after the one it takes bits of.
AtBit(p, x, bits, bit, at, v) ==
  [p |-> Pointed(p, p.pos + Rounded(x)), bits |-> bits, count |-> x % ByteBits,
   bit |-> bit, at |-> at, v |-> v]

\* A bit more of the mask.
LEMMA NextBitExact ==
  ASSUME NEW count \in Nat \ {0}, NEW D \in SUBSET (0 .. count - 1),
         NEW p, Readable(p), At(p, Mask(D, count)), NEW x \in 0 .. count - 1,
         NEW bits, x % ByteBits # 0 => bits = Mask(D, count)[((x - 1) \div ByteBits) + 1],
         NEW bit, NEW at, NEW v
  PROVE  NextBit(AtBit(p, x, bits, bit, at, v))
           = AtBit(p, x + 1, Mask(D, count)[(x \div ByteBits) + 1], x \in D, at, v)
<1>. DEFINE mask == Mask(D, count)
            q == Pointed(p, p.pos + Rounded(x))
            r == [p |-> q, bits |-> bits, count |-> x % ByteBits, bit |-> bit, at |-> at, v |-> v]
            byte == mask[(x \div ByteBits) + 1]
            reads == r.count = 0 /\ CanRead(r.p, 1)
            new == IF reads THEN Peek(r.p, 1)[1] ELSE r.bits
            np == IF reads THEN Advanced(r.p, 1) ELSE r.p
<1>1. /\ x \in Nat /\ x \div ByteBits \in Nat /\ x % ByteBits \in 0 .. ByteBits - 1
      /\ Rounded(x) = IF x % ByteBits = 0 THEN x \div ByteBits ELSE (x \div ByteBits) + 1
      /\ Rounded(x + 1) = (x \div ByteBits) + 1
      /\ (x + 1) % ByteBits = ((x % ByteBits) + 1) % ByteBits
      /\ x % ByteBits # 0 => (x - 1) \div ByteBits = x \div ByteBits
  BY RoundedExact
<1>2. /\ Len(mask) = FieldsBegin(count) /\ (x \div ByteBits) + 1 \in 1 .. FieldsBegin(count)
      /\ FieldsBegin(count) \in Nat
      /\ Bit(byte, ByteBits - 1 - (x % ByteBits)) = 1 <=> x \in D
  BY MaskExact, FieldsBeginExact
<1>. DEFINE j == (x \div ByteBits) + 1
<1>3. /\ p.pos \in Nat /\ p.used \in Nat /\ p.pos + j <= p.used /\ p.mem[p.pos + j] = mask[j]
      /\ j \in Nat
  <2>. HIDE DEF mask, j
  <2>1. j \in 1 .. Len(mask) /\ Len(mask) \in Nat
    BY <1>2 DEF j
  <2>2. p.pos + Len(mask) <= p.used /\ \A k \in 1 .. Len(mask) : p.mem[p.pos + k] = mask[k]
    BY DEF At, mask
  <2>. QED  BY <2>1, <2>2 DEF Readable
<1>4. np = Pointed(p, p.pos + Rounded(x + 1)) /\ new = byte
  <2>1. CASE x % ByteBits # 0
    <3>1. Rounded(x) = Rounded(x + 1) /\ bits = byte
      BY <1>1, <2>1
    <3>2. ~reads
      BY <2>1
    <3>. QED  BY <3>1, <3>2
  <2>2. CASE x % ByteBits = 0
    <3>1. Rounded(x) = j - 1 /\ Rounded(x + 1) = j
      BY <1>1, <2>2
    <3>. DEFINE a == p.pos + (j - 1)
    <3>2. a \in 0 .. p.used /\ a + 1 = p.pos + j /\ a + 1 <= p.used /\ a \in Nat /\ p.used \in Nat
          /\ j = (x \div ByteBits) + 1
      BY <1>1, <1>3
    <3>3. q = Pointed(p, a)
      BY <3>1
    <3>4. r.p = q /\ r.count = 0
      BY <2>2
    <3>. HIDE DEF a, q, r, mask, j
    <3>5. /\ Readable(q) /\ q.pos = a /\ q.mem = p.mem /\ q.used = p.used
          /\ Advanced(q, 1) = Pointed(p, a + 1)
      BY <3>2, <3>3, PointedExact
    <3>6. Peek(q, 1)[1] = p.mem[a + 1]
      BY <3>2, <3>5, PeekExact
    <3>7. CanRead(q, 1)
      BY <3>2, <3>5 DEF CanRead
    <3>8. Peek(q, 1)[1] = byte
      BY <1>3, <3>2, <3>6
    <3>9. Advanced(q, 1) = Pointed(p, p.pos + Rounded(x + 1))
      BY <3>1, <3>2, <3>5
    <3>. QED  BY <3>4, <3>7, <3>8, <3>9
  <2>. QED  BY <2>1, <2>2
<1>5. NextBit(r) = [r EXCEPT !.p = np, !.bits = new, !.count = (@ + 1) % ByteBits,
                             !.bit = (new \div Pow2[ByteBits - 1 - r.count]) % 2 = 1]
  BY DEF NextBit
<1>6. (byte \div Pow2[ByteBits - 1 - (x % ByteBits)]) % 2 = 1 <=> x \in D
  BY <1>2 DEF Bit
<1>. HIDE DEF np, new, byte
<1>7. NextBit(r) = [r EXCEPT !.p = Pointed(p, p.pos + Rounded(x + 1)), !.bits = byte,
                             !.count = (@ + 1) % ByteBits,
                             !.bit = (byte \div Pow2[ByteBits - 1 - r.count]) % 2 = 1]
  BY <1>4, <1>5
<1>. HIDE DEF q
<1>8. NextBit(r) = [p |-> Pointed(p, p.pos + Rounded(x + 1)), bits |-> byte,
                    count |-> ((x % ByteBits) + 1) % ByteBits,
                    bit |-> (byte \div Pow2[ByteBits - 1 - (x % ByteBits)]) % 2 = 1,
                    at |-> at, v |-> v]
  BY <1>7
<1>. QED  BY <1>1, <1>6, <1>8 DEF AtBit, byte, q

UpdateStep(r, x) ==
  LET b == NextBit(r)
      d == DecodeVarint(Seek(b.p, b.at, "SET"))
  IN IF ~b.bit THEN b
     ELSE [b EXCEPT !.p = Seek(d.p, b.p.pos, "SET"), !.at = @ + d.n,
                    !.v = [y \in DOMAIN b.v \cup {x} |-> IF y = x THEN d.v ELSE b.v[y]]]

UpdateRun(f, count, p) ==
  f = [x \in 0 .. count |->
         IF x = 0 THEN [p |-> p, bits |-> 0, count |-> 0, bit |-> FALSE,
                        at |-> p.pos + FieldsBegin(count), v |-> <<>>]
         ELSE UpdateStep(f[x - 1], x - 1)]

\* The values of the fields below x, each read at its place.
Fields(p, place, D, x) ==
  [y \in {d \in D : d < x} |-> DecodeVarint(Pointed(p, p.pos + place[y])).v]

\* The decoder when it has come to bit x.
UpdateState(p, place, D, mask, x) ==
  AtBit(p, x, IF x = 0 THEN 0 ELSE mask[((x - 1) \div ByteBits) + 1], x > 0 /\ x - 1 \in D,
        p.pos + place[x], Fields(p, place, D, x))

LEMMA UpdateStepExact ==
  ASSUME NEW count \in Nat \ {0}, NEW upd, IsUpdate(upd, count),
         NEW p, Readable(p), At(p, Mask(DOMAIN upd, count)),
         NEW place \in [0 .. count -> Nat], NEW x \in 0 .. count - 1, FieldAt(p, place, upd, x)
  PROVE  UpdateStep(UpdateState(p, place, DOMAIN upd, Mask(DOMAIN upd, count), x), x)
           = UpdateState(p, place, DOMAIN upd, Mask(DOMAIN upd, count), x + 1)
<1>. DEFINE D == DOMAIN upd
            mask == Mask(D, count)
            r == UpdateState(p, place, D, mask, x)
            s == UpdateState(p, place, D, mask, x + 1)
            b == NextBit(r)
            at == p.pos + place[x]
            a == p.pos + Rounded(x + 1)
            byte == mask[(x \div ByteBits) + 1]
            q == Pointed(p, at)
            d == DecodeVarint(q)
            v == Fields(p, place, D, x)
<1>1. D \in SUBSET (0 .. count - 1) /\ x \in Nat /\ count \in Nat
  BY DEF IsUpdate
<1>2. \A y \in D : upd[y] \in Nat /\ upd[y] < Pow2[WideBits]
  <2>1. Pow2[WideBits] \in Nat
    BY Widths, Pow2Positive
  <2>2. \A y \in D : upd[y] \in 0 .. Pow2[WideBits] - 1
    BY DEF IsUpdate
  <2>. QED  BY <2>1, <2>2
<1>. HIDE DEF D
<1>3. b = AtBit(p, x + 1, byte, x \in D, at, v)
  <2>. DEFINE bits == IF x = 0 THEN 0 ELSE mask[((x - 1) \div ByteBits) + 1]
              bit == x > 0 /\ x - 1 \in D
  <2>1. x % ByteBits # 0 => bits = mask[((x - 1) \div ByteBits) + 1]
    <3>1. x % ByteBits # 0 => x # 0
      BY Widths
    <3>. QED  BY <3>1
  <2>2. r = AtBit(p, x, bits, bit, at, v)
    BY DEF UpdateState
  <2>3. At(p, mask) /\ D \in SUBSET (0 .. count - 1)
    BY <1>1 DEF D
  <2>. HIDE DEF r, bits, bit, at, v
  <2>4. NextBit(AtBit(p, x, bits, bit, at, v))
          = AtBit(p, x + 1, mask[(x \div ByteBits) + 1], x \in D, at, v)
    BY <2>1, <2>3, NextBitExact
  <2>. QED  BY <2>2, <2>4
<1>4. s = AtBit(p, x + 1, byte, x \in D, p.pos + place[x + 1], Fields(p, place, D, x + 1))
  <2>1. x + 1 # 0 /\ (x + 1) - 1 = x /\ x + 1 > 0
    BY <1>1
  <2>2. s = AtBit(p, x + 1, IF x + 1 = 0 THEN 0 ELSE mask[(((x + 1) - 1) \div ByteBits) + 1],
                  x + 1 > 0 /\ (x + 1) - 1 \in D, p.pos + place[x + 1], Fields(p, place, D, x + 1))
    BY DEF UpdateState
  <2>. HIDE DEF s, mask
  <2>. QED  BY <2>1, <2>2
<1>5. a \in 0 .. p.used /\ at \in 0 .. p.used /\ at \in Nat
  <2>1. Len(mask) = FieldsBegin(count) /\ (x \div ByteBits) + 1 \in 1 .. FieldsBegin(count)
        /\ FieldsBegin(count) \in Nat /\ Rounded(x + 1) = (x \div ByteBits) + 1
    BY <1>1, MaskExact, FieldsBeginExact, RoundedExact
  <2>2. p.pos + Len(mask) <= p.used
    BY DEF At, D
  <2>3. p.pos \in Nat /\ p.used \in Nat /\ place[x] \in Nat
    BY <1>1 DEF Readable
  <2>. DEFINE k == Rounded(x + 1)
              l == Len(mask)
  <2>4. k \in 1 .. l /\ l \in Nat
    BY <2>1
  <2>5. at \in 0 .. p.used /\ at \in Nat
    BY <2>3 DEF FieldAt
  <2>6. p.pos + l <= p.used
    BY <2>2
  <2>. HIDE DEF k, l
  <2>7. p.pos + k \in 0 .. p.used
    BY <2>3, <2>4, <2>6
  <2>. QED  BY <2>5, <2>7 DEF k
<1>. HIDE DEF r, s, b, at, a, byte, v, mask, q, d
<1>6. CASE x \notin D
  <2>1. {y \in D : y < x + 1} = {y \in D : y < x}
    <3>1. \A y \in D : y \in Nat /\ y # x
      BY <1>1, <1>6
    <3>2. \A y \in D : y < x + 1 <=> y < x
      BY <1>1, <3>1
    <3>. QED  BY <3>2
  <2>2. v = Fields(p, place, D, x + 1)
    BY <2>1 DEF v, Fields
  <2>3. place[x + 1] = place[x]
    BY <1>6 DEF D, FieldAt
  <2>4. b = s /\ ~b.bit
    BY <1>3, <1>4, <1>6, <2>2, <2>3 DEF at, AtBit
  <2>5. UpdateStep(r, x) = b
    BY <2>4 DEF UpdateStep, b
  <2>. QED  BY <2>4, <2>5 DEF r, s, mask, D
<1>7. CASE x \in D
  <2>1. place[x + 1] = place[x] + Len(Varint(upd[x])) /\ At(q, Varint(upd[x]))
    BY <1>7 DEF D, q, at, FieldAt
  <2>2. b.p = Pointed(p, a) /\ b.at = at /\ b.v = v /\ b.bit /\ Pointed(p, a).pos = a
    BY <1>3, <1>5, <1>7, PointedExact DEF AtBit, a
  <2>3. Seek(b.p, b.at, "SET") = q /\ Readable(q)
    BY <1>5, <2>2, PointedExact DEF q
  <2>4. d.p = Advanced(q, Len(Varint(upd[x]))) /\ d.n = Len(Varint(upd[x]))
    BY <1>2, <1>7, <2>1, <2>3, VarintDecoded DEF ReadBy, d
  <2>5. Len(Varint(upd[x])) \in Nat
    BY <1>2, <1>7, VarintExact
  <2>6. at + Len(Varint(upd[x])) = p.pos + place[x + 1] /\ p.pos + place[x + 1] \in 0 .. p.used
    <3>1. place[x] \in Nat /\ p.pos \in Nat /\ place[x + 1] \in Nat /\ p.used \in Nat
      BY <1>1 DEF Readable
    <3>. DEFINE l == Len(Varint(upd[x]))
                m == place[x]
                n == place[x + 1]
    <3>2. n = m + l /\ l \in Nat /\ m \in Nat /\ n \in Nat /\ p.pos + n <= p.used
      BY <2>1, <2>5, <3>1 DEF FieldAt
    <3>. HIDE DEF l, m, n
    <3>3. (p.pos + m) + l = p.pos + n /\ p.pos + n \in 0 .. p.used
      BY <3>1, <3>2
    <3>. QED  BY <3>3 DEF at, l, m, n
  <2>7. d.p = Pointed(p, p.pos + place[x + 1])
    BY <1>5, <2>4, <2>5, <2>6, PointedExact DEF q
  <2>8. Seek(d.p, b.p.pos, "SET") = Pointed(p, a)
    BY <1>5, <2>2, <2>6, <2>7, PointedExact
  <2>9. [y \in DOMAIN v \cup {x} |-> IF y = x THEN d.v ELSE v[y]] = Fields(p, place, D, x + 1)
    <3>1. DOMAIN v \cup {x} = {y \in D : y < x + 1}
      BY <1>1, <1>7 DEF v, Fields
    <3>2. \A y \in DOMAIN v \cup {x} :
            (IF y = x THEN d.v ELSE v[y]) = DecodeVarint(Pointed(p, p.pos + place[y])).v
      BY DEF v, Fields, d, q, at
    <3>. QED  BY <3>1, <3>2 DEF Fields
  <2>10. UpdateStep(r, x) =
           [b EXCEPT !.p = Seek(d.p, b.p.pos, "SET"), !.at = @ + d.n,
                     !.v = [y \in DOMAIN b.v \cup {x} |-> IF y = x THEN d.v ELSE b.v[y]]]
    BY <2>2, <2>3 DEF UpdateStep, b, d
  <2>11. UpdateStep(r, x) = [b EXCEPT !.p = Pointed(p, a), !.at = at + d.n,
                                      !.v = Fields(p, place, D, x + 1)]
    BY <2>2, <2>8, <2>9, <2>10
  <2>12. at + d.n = p.pos + place[x + 1]
    BY <2>4, <2>6
  <2>13. UpdateStep(r, x) = s
    BY <1>3, <1>4, <2>11, <2>12 DEF AtBit, a
  <2>. QED  BY <2>13 DEF r, s, mask, D
<1>. QED  BY <1>6, <1>7

LEMMA UpdateExact ==
  ASSUME NEW count \in Nat \ {0}, NEW upd, IsUpdate(upd, count)
  PROVE  /\ Update(upd, count) \in Seq(Byte) /\ Len(Update(upd, count)) > 0
         /\ \A p : Readable(p) /\ At(p, Update(upd, count)) =>
              /\ ReadBy(DecodeUpdate(p, count), p, Update(upd, count))
              /\ (\A x \in DOMAIN upd : upd[x] < Pow2[IntBits - 1]) => DecodeUpdate(p, count).v = upd
<1>. DEFINE D == DOMAIN upd
            mask == Mask(D, count)
            bytes == Update(upd, count)
            m == FieldsBegin(count)
<1>1. bytes \in Seq(Byte) /\ Len(bytes) > 0 /\ Len(bytes) \in Nat
  <2>1. bytes \in Seq(Byte) /\ Len(bytes) > 0
    BY FieldPlaces
  <2>. HIDE DEF bytes
  <2>. QED  BY <2>1
<1>2. D \in SUBSET (0 .. count - 1) /\ count \in Nat /\ count > 0
  BY DEF IsUpdate
<1>3. m \in Nat /\ m = Rounded(count)
  BY FieldsBeginExact
<1>4. ASSUME NEW p, Readable(p), At(p, bytes)
      PROVE  /\ ReadBy(DecodeUpdate(p, count), p, bytes)
             /\ (\A x \in D : upd[x] < Pow2[IntBits - 1]) => DecodeUpdate(p, count).v = upd
  <2>1. At(p, mask)
    BY <1>4, FieldPlaces
  <2>2. PICK place : Placed(place, p, upd, count)
    BY <1>4, FieldPlaces
  <2>3. /\ place \in [0 .. count -> Nat] /\ place[0] = m /\ place[count] = Len(bytes)
        /\ \A x \in 0 .. count : p.pos + place[x] <= p.used
        /\ \A x \in 0 .. count - 1 : FieldAt(p, place, upd, x)
    BY <2>2 DEF Placed
  <2>. HIDE DEF bytes
  <2>. DEFINE g == [x \in 0 .. count |-> UpdateState(p, place, D, mask, x)]
              f == CHOOSE f : UpdateRun(f, count, p)
              last == f[count]
              first == [p |-> p, bits |-> 0, count |-> 0, bit |-> FALSE, at |-> p.pos + m, v |-> <<>>]
  <2>4. DecodeUpdate(p, count)
          = [p |-> Seek(last.p, last.at, "SET"), n |-> last.at - p.pos, v |-> last.v]
    BY DEF DecodeUpdate, UpdateRun, UpdateStep
  <2>. HIDE DEF f, mask, m, D
  <2>5. g[0] = first
    <3>1. /\ 0 \in 0 .. count /\ Rounded(0) = 0 /\ 0 % ByteBits = 0 /\ place[0] = m
      <4>1. ByteBits \in Nat /\ ByteBits > 1
        BY Widths
      <4>2. Divides(0, ByteBits, 0, 0)
        BY <4>1 DEF Divides
      <4>3. 0 \div ByteBits = 0 /\ 0 % ByteBits = 0
        BY <4>2, DivIs
      <4>. QED  BY <1>2, <2>3, <4>3, RoundedExact
    <3>2. Pointed(p, p.pos + 0) = p
      <4>1. p.pos + 0 = p.pos
        BY <1>4 DEF Readable
      <4>. QED  BY <1>4, <4>1, PointedExact
    <3>3. Fields(p, place, D, 0) = <<>>
      <4>1. {d \in D : d < 0} = {}
        <5>1. \A d \in D : ~(d < 0)
          BY <1>2
        <5>. QED  BY <5>1
      <4>. QED  BY <4>1 DEF Fields
    <3>4. ~(0 > 0 /\ 0 - 1 \in D)
      OBVIOUS
    <3>. QED  BY <3>1, <3>2, <3>3, <3>4 DEF UpdateState, AtBit
  <2>6. ASSUME NEW x \in 1 .. count PROVE g[x] = UpdateStep(g[x - 1], x - 1)
    <3>1. x - 1 \in 0 .. count - 1 /\ x - 1 \in 0 .. count /\ x \in 0 .. count /\ (x - 1) + 1 = x
      BY <1>2
    <3>2. UpdateStep(UpdateState(p, place, D, mask, x - 1), x - 1)
            = UpdateState(p, place, D, mask, (x - 1) + 1)
      <4>. DEFINE y == x - 1
      <4>1. y \in 0 .. count - 1 /\ FieldAt(p, place, upd, y)
        BY <2>3, <3>1
      <4>. HIDE DEF y
      <4>2. UpdateStep(UpdateState(p, place, D, mask, y), y) = UpdateState(p, place, D, mask, y + 1)
        BY <1>4, <2>1, <2>3, <4>1, UpdateStepExact DEF D, mask
      <4>. QED  BY <4>2 DEF y
    <3>. QED  BY <3>1, <3>2
  <2>. HIDE DEF first
  <2>7. UpdateRun(g, count, p)
    <3>1. g = [x \in 0 .. count |-> g[x]]
      OBVIOUS
    <3>. HIDE DEF g
    <3>2. \A x \in 0 .. count : g[x] = IF x = 0 THEN first ELSE UpdateStep(g[x - 1], x - 1)
      BY <2>5, <2>6
    <3>. QED  BY <3>1, <3>2 DEF UpdateRun, first, m
  <2>8. UpdateRun(f, count, p)
    BY <2>7 DEF f
  <2>9. f[count] = UpdateState(p, place, D, mask, count)
    <3>0. g[count] = UpdateState(p, place, D, mask, count)
      BY <1>2
    <3>. HIDE DEF g
    <3>1. f[0] = first /\ \A x \in 1 .. count : f[x] = UpdateStep(f[x - 1], x - 1)
      <4>1. f = [x \in 0 .. count |-> IF x = 0 THEN first ELSE UpdateStep(f[x - 1], x - 1)]
        BY <2>8 DEF UpdateRun, first, m
      <4>2. 0 \in 0 .. count /\ \A x \in 1 .. count : x \in 0 .. count /\ x # 0
        BY <1>2
      <4>. QED  BY <4>1, <4>2
    <3>2. GoAlike(f, g, count)
      BY <2>5, <2>6, <3>1 DEF GoAlike
    <3>3. \A x \in 0 .. count : f[x] = g[x]
      BY <1>2, <3>2, SameRun
    <3>. QED  BY <1>2, <3>0, <3>3
  <2>10. last.p = Pointed(p, p.pos + m) /\ last.at = p.pos + Len(bytes) /\ last.v = Fields(p, place, D, count)
    BY <1>3, <2>3, <2>9 DEF UpdateState, AtBit
  <2>. HIDE DEF last
  <2>11. /\ p.pos \in Nat /\ p.used \in Nat
         /\ p.pos + m \in 0 .. p.used /\ p.pos + Len(bytes) \in 0 .. p.used
         /\ (p.pos + Len(bytes)) - p.pos = Len(bytes)
    <3>1. p.pos \in Nat /\ p.used \in Nat /\ p.pos + Len(bytes) <= p.used
      BY <1>4 DEF Readable, At
    <3>2. p.pos + m <= p.used
      <4>1. 0 \in 0 .. count
        BY <1>2
      <4>. QED  BY <2>3, <4>1
    <3>. QED  BY <1>1, <1>3, <3>1, <3>2
  <2>12. Seek(last.p, last.at, "SET") = Advanced(p, Len(bytes))
    <3>. DEFINE a == p.pos + m
                c == p.pos + Len(bytes)
    <3>1. a \in 0 .. p.used /\ c \in 0 .. p.used /\ last.p = Pointed(p, a) /\ last.at = c
      BY <2>10, <2>11
    <3>2. Advanced(p, Len(bytes)) = Pointed(p, c)
      BY <1>1, <1>4, PointedExact
    <3>. HIDE DEF a, c
    <3>3. Seek(Pointed(p, a), c, "SET") = Pointed(p, c)
      BY <1>4, <3>1, PointedExact
    <3>. QED  BY <3>1, <3>2, <3>3
  <2>13. ReadBy(DecodeUpdate(p, count), p, bytes)
    BY <2>4, <2>10, <2>11, <2>12 DEF ReadBy
  <2>14. ASSUME \A x \in D : upd[x] < Pow2[IntBits - 1]
         PROVE  DecodeUpdate(p, count).v = upd
    <3>1. \A x \in D : upd[x] \in Nat /\ upd[x] < Pow2[WideBits] /\ x \in 0 .. count - 1
      <4>1. Pow2[WideBits] \in Nat
        BY Widths, Pow2Positive
      <4>2. \A x \in D : upd[x] \in 0 .. Pow2[WideBits] - 1
        BY DEF IsUpdate, D
      <4>. QED  BY <1>2, <4>1, <4>2
    <3>2. ASSUME NEW x \in D PROVE DecodeVarint(Pointed(p, p.pos + place[x])).v = upd[x]
      <4>. DEFINE q == Pointed(p, p.pos + place[x])
      <4>1. At(q, Varint(upd[x])) /\ p.pos + place[x] <= p.used
        BY <2>3, <3>1 DEF FieldAt, D
      <4>2. place[x] \in Nat
        BY <1>2, <2>3, <3>1
      <4>3. p.pos + place[x] \in 0 .. p.used
        BY <2>11, <4>1, <4>2
      <4>4. Readable(q)
        BY <1>4, <4>3, PointedExact
      <4>. HIDE DEF q
      <4>. QED  BY <2>14, <3>1, <4>1, <4>4, VarintDecoded DEF q
    <3>3. {d \in D : d < count} = D
      <4>1. \A d \in D : d < count
        BY <1>2
      <4>. QED  BY <4>1
    <3>4. Fields(p, place, D, count) = [y \in D |-> upd[y]]
      BY <3>2, <3>3 DEF Fields
    <3>5. upd = [y \in D |-> upd[y]]
      BY DEF IsUpdate, D
    <3>. QED  BY <2>4, <2>10, <3>4, <3>5
  <2>. QED  BY <2>13, <2>14
<1>. QED  BY <1>1, <1>4 DEF D

-----------------------------------------------------------------------------
(* Decoding the update of an array *)

LEMMA Sizes ==
  /\ ArraySize \in Nat /\ ArraySize > 0 /\ Index = 0 .. ArraySize - 1
  /\ Index \subseteq Byte /\ Element \subseteq Byte /\ 0 \in Element
  /\ IsFiniteSet(Index) /\ Cardinality(Index) = ArraySize
  /\ \A U \in SUBSET Index : U # {} => IsFiniteSet(U) /\ Cardinality(U) \in 1 .. ArraySize
<1>1. ArraySize \in 1 .. Pow2[ByteBits] - 1 /\ Pow2[ByteBits] \in Nat
  BY EncodingAssumption, Widths, Pow2Positive
<1>2. Index = 0 .. ArraySize - 1 /\ Byte = 0 .. Pow2[ByteBits] - 1
  BY Widths DEF Index
<1>3. IsFiniteSet(Index) /\ Cardinality(Index) = ArraySize
  <2>1. 0 \in Int /\ ArraySize - 1 \in Int
    BY <1>1
  <2>2. IsFiniteSet(0 .. ArraySize - 1)
        /\ Cardinality(0 .. ArraySize - 1) = IF 0 > ArraySize - 1 THEN 0 ELSE (ArraySize - 1) - 0 + 1
    BY <2>1, FS_Interval
  <2>. QED  BY <1>1, <1>2, <2>2
<1>4. ASSUME NEW U \in SUBSET Index, U # {} PROVE IsFiniteSet(U) /\ Cardinality(U) \in 1 .. ArraySize
  <2>1. IsFiniteSet(U) /\ Cardinality(U) <= Cardinality(Index)
    BY <1>3, FS_Subset
  <2>2. Cardinality(U) \in Nat /\ Cardinality(U) # 0
    BY <1>4, <2>1, FS_CardinalityType, FS_EmptySet
  <2>. QED  BY <1>1, <1>3, <2>1, <2>2
<1>5. Element \subseteq Byte /\ 0 \in Element
  BY EncodingAssumption
<1>. QED  BY <1>1, <1>2, <1>3, <1>4, <1>5

\* Pairs, one after the other.
LEMMA PairsExact ==
  ASSUME NEW n \in Nat, NEW a \in [1 .. n -> Byte], NEW b \in [1 .. n -> Byte]
  PROVE  LET s == FlattenSeq([k \in 1 .. n |-> <<a[k], b[k]>>]) IN
         /\ s \in Seq(Byte) /\ Len(s) = 2 * n
         /\ \A k \in 1 .. n : s[2 * k - 1] = a[k] /\ s[2 * k] = b[k]
<1>. DEFINE seqs == [k \in 1 .. n |-> <<a[k], b[k]>>]
            s == FlattenSeq(seqs)
<1>1. seqs \in Seq(Seq(Byte)) /\ Len(seqs) = n
  OBVIOUS
<1>2. \A k \in 1 .. n : Len(seqs[k]) = 2 /\ seqs[k][1] = a[k] /\ seqs[k][2] = b[k]
  OBVIOUS
<1>. HIDE DEF seqs
<1>3. s \in Seq(Byte) /\ \E off : Offsets(s, seqs, off)
  BY <1>1, FlattenOffsets
<1>. HIDE DEF s
<1>4. PICK off : Offsets(s, seqs, off)
  BY <1>3
<1>5. /\ off[1] = 0 /\ Len(s) = off[n + 1] /\ \A k \in 1 .. n : off[k + 1] = off[k] + 2
      /\ \A k \in 1 .. n : s[off[k] + 1] = a[k] /\ s[off[k] + 2] = b[k]
  <2>1. /\ off[1] = 0 /\ Len(s) = off[n + 1] /\ \A k \in 1 .. n : off[k + 1] = off[k] + 2
    BY <1>1, <1>2, <1>4 DEF Offsets
  <2>2. \A k \in 1 .. n : \A m \in 1 .. 2 : s[off[k] + m] = seqs[k][m]
    BY <1>1, <1>2, <1>4 DEF Offsets
  <2>3. \A k \in 1 .. n : s[off[k] + 1] = seqs[k][1] /\ s[off[k] + 2] = seqs[k][2]
    <3>1. 1 \in 1 .. 2 /\ 2 \in 1 .. 2
      OBVIOUS
    <3>. HIDE <1>4
    <3>. QED  BY <2>2, <3>1
  <2>. QED  BY <1>2, <2>1, <2>3
<1>6. \A k \in 0 .. n : off[k + 1] = 2 * k
  <2>. DEFINE T == {k \in 0 .. n : off[k + 1] = 2 * k}
  <2>1. 0 \in T
    BY <1>5
  <2>2. ASSUME NEW k \in 0 .. n - 1, k \in T PROVE k + 1 \in T
    BY <1>5, <2>2
  <2>3. \A k \in 0 .. n : k \in T
    <3>. HIDE DEF T
    <3>. QED  BY <2>1, <2>2, Upto
  <2>. QED  BY <2>3
<1>7. ASSUME NEW k \in 1 .. n PROVE s[2 * k - 1] = a[k] /\ s[2 * k] = b[k]
  <2>1. k - 1 \in 0 .. n /\ (k - 1) + 1 = k
    OBVIOUS
  <2>2. off[k] = 2 * (k - 1)
    BY <1>6, <2>1
  <2>3. off[k] + 1 = 2 * k - 1 /\ off[k] + 2 = 2 * k
    BY <2>2
  <2>. QED  BY <1>5, <2>3
<1>8. Len(s) = 2 * n
  BY <1>5, <1>6
<1>. QED  BY <1>3, <1>7, <1>8 DEF seqs, s

\* The two ways of writing n elements of data, those in U.
WholeArray(bytes, data) ==
  Len(bytes) = 1 + ArraySize /\ \A i \in Index : bytes[1 + (i + 1)] = data[i]

ArrayPairs(bytes, data, U, n) ==
  /\ Len(bytes) = 1 + 2 * n
  /\ \E order \in [1 .. n -> U] :
       /\ \A i \in U : \E k \in 1 .. n : order[k] = i
       /\ \A k, l \in 1 .. n : order[k] = order[l] => k = l
       /\ \A k \in 1 .. n : /\ bytes[1 + (2 * k - 1)] = order[k]
                            /\ bytes[1 + 2 * k] = data[order[k]]

LEMMA ArrayWritten ==
  ASSUME NEW data \in [Index -> Byte], NEW U \in SUBSET Index, U # {}
  PROVE  LET n     == Cardinality(U)
             bytes == ArrayUpdate(data, U)
         IN /\ n \in 1 .. ArraySize /\ bytes \in Seq(Byte) /\ bytes[1] = n - 1
            /\ WritesWhole(n, ArraySize) => WholeArray(bytes, data)
            /\ ~WritesWhole(n, ArraySize) => ArrayPairs(bytes, data, U, n)
<1>. DEFINE n == Cardinality(U)
            order == Ascending(U)
            N == ArraySize
            bytes == ArrayUpdate(data, U)
            all == [k \in 1 .. N |-> data[k - 1]]
            pairs == FlattenSeq([k \in DOMAIN order |-> <<order[k], data[order[k]]>>])
<1>1. n \in 1 .. N /\ IsFiniteSet(U) /\ Index \subseteq Byte /\ N \in Nat /\ N > 0 /\ Index = 0 .. N - 1
  BY Sizes
<1>2. Cardinality(DOMAIN data) = N
  BY Sizes
<1>3. bytes = <<n - 1>> \o IF WritesWhole(n, N) THEN all ELSE pairs
  BY <1>2 DEF ArrayUpdate
<1>4. n - 1 \in Byte
  <2>1. n - 1 \in Index
    BY <1>1
  <2>. QED  BY <1>1, <2>1
<1>. HIDE DEF n, bytes
<1>5. ASSUME NEW s \in Seq(Byte), bytes = <<n - 1>> \o s
      PROVE  /\ bytes \in Seq(Byte) /\ bytes[1] = n - 1 /\ Len(bytes) = 1 + Len(s)
             /\ \A k \in 1 .. Len(s) : bytes[1 + k] = s[k]
  BY <1>4, <1>5
<1>6. CASE WritesWhole(n, N)
  <2>1. all \in Seq(Byte) /\ Len(all) = N /\ \A k \in 1 .. N : all[k] = data[k - 1]
    <3>1. \A k \in 1 .. N : k - 1 \in Index
      BY <1>1
    <3>. QED  BY <1>1, <3>1
  <2>2. bytes = <<n - 1>> \o all
    BY <1>3, <1>6
  <2>. HIDE DEF all
  <2>3. /\ bytes \in Seq(Byte) /\ bytes[1] = n - 1 /\ Len(bytes) = 1 + N
        /\ \A k \in 1 .. N : bytes[1 + k] = all[k]
    BY <1>5, <2>1, <2>2
  <2>4. ASSUME NEW i \in Index PROVE bytes[1 + (i + 1)] = data[i]
    <3>1. i + 1 \in 1 .. N /\ (i + 1) - 1 = i
      BY <1>1
    <3>. QED  BY <2>1, <2>3, <3>1
  <2>. QED  BY <1>1, <1>6, <2>3, <2>4 DEF WholeArray, n, bytes
<1>7. CASE ~WritesWhole(n, N)
  <2>1. /\ order \in [1 .. n -> U] /\ DOMAIN order = 1 .. n
        /\ \A i \in U : \E k \in 1 .. n : order[k] = i
        /\ \A k, l \in 1 .. n : order[k] = order[l] => k = l
    <3>1. U \in SUBSET Nat
      BY <1>1
    <3>2. /\ order \in Seq(U) /\ DOMAIN order = 1 .. Len(order) /\ Len(order) = n
          /\ \A i, j \in DOMAIN order : order[i] = order[j] => i = j
          /\ \A i \in U : \E k \in DOMAIN order : order[k] = i
      BY <1>1, <3>1, AscendingExact DEF n
    <3>. HIDE DEF order
    <3>3. order \in [1 .. n -> U]
      BY <3>2
    <3>. QED  BY <3>2, <3>3
  <2>. HIDE DEF order
  <2>2. /\ pairs \in Seq(Byte) /\ Len(pairs) = 2 * n
        /\ \A k \in 1 .. n : pairs[2 * k - 1] = order[k] /\ pairs[2 * k] = data[order[k]]
    <3>. DEFINE vals == [k \in 1 .. n |-> data[order[k]]]
    <3>1. n \in Nat /\ order \in [1 .. n -> Byte] /\ vals \in [1 .. n -> Byte]
      <4>1. n \in Nat /\ order = [k \in 1 .. n |-> order[k]]
        BY <1>1, <2>1
      <4>2. \A k \in 1 .. n : order[k] \in Index
        BY <2>1
      <4>3. \A k \in 1 .. n : order[k] \in Byte /\ data[order[k]] \in Byte
        BY <1>1, <4>2
      <4>4. vals \in [1 .. n -> Byte]
        BY <4>3
      <4>5. order \in [1 .. n -> Byte]
        BY <4>1, <4>3
      <4>. QED  BY <4>1, <4>4, <4>5
    <3>2. pairs = FlattenSeq([k \in 1 .. n |-> <<order[k], vals[k]>>])
      BY <2>1
    <3>3. \A k \in 1 .. n : vals[k] = data[order[k]]
      OBVIOUS
    <3>. HIDE DEF pairs, vals
    <3>4. /\ pairs \in Seq(Byte) /\ Len(pairs) = 2 * n
          /\ \A k \in 1 .. n : pairs[2 * k - 1] = order[k] /\ pairs[2 * k] = vals[k]
      BY <3>1, <3>2, PairsExact
    <3>. QED  BY <3>3, <3>4
  <2>3. bytes = <<n - 1>> \o pairs
    BY <1>3, <1>7
  <2>. HIDE DEF pairs
  <2>4. /\ bytes \in Seq(Byte) /\ bytes[1] = n - 1 /\ Len(bytes) = 1 + 2 * n
        /\ \A k \in 1 .. 2 * n : bytes[1 + k] = pairs[k]
    BY <1>5, <2>2, <2>3
  <2>5. \A k \in 1 .. n : bytes[1 + (2 * k - 1)] = order[k] /\ bytes[1 + 2 * k] = data[order[k]]
    <3>1. \A k \in 1 .. n : 2 * k - 1 \in 1 .. 2 * n /\ 2 * k \in 1 .. 2 * n
      BY <1>1
    <3>. QED  BY <2>2, <2>4, <3>1
  <2>6. ArrayPairs(bytes, data, U, n)
    BY <2>1, <2>4, <2>5 DEF ArrayPairs
  <2>. QED  BY <1>1, <1>7, <2>4, <2>6 DEF n, bytes
<1>. QED  BY <1>6, <1>7

LEMMA ArrayDecoded ==
  ASSUME NEW data \in [Index -> Byte], NEW U \in SUBSET Index, U # {},
         NEW before \in [Index -> Byte], \A i \in Index \ U : before[i] = data[i],
         NEW p, Readable(p), At(p, ArrayUpdate(data, U))
  PROVE  /\ ReadBy(DecodeArray(p, before), p, ArrayUpdate(data, U)) /\ DecodeArray(p, before).n > 0
         /\ DecodeArray(p, before).v = data
<1>. DEFINE n == Cardinality(U)
            N == ArraySize
            bytes == ArrayUpdate(data, U)
            q == Advanced(p, 1)
            pairs == Peek(q, 2 * n)
            value(i) == LET ks == {k \in 1 .. n : pairs[2 * k - 1] = i}
                        IN IF ks = {} THEN before[i] ELSE pairs[2 * Max(ks)]
            d == DecodeArray(p, before)
<1>1. /\ n \in 1 .. N /\ N \in Nat /\ Index = 0 .. N - 1 /\ Index \subseteq Byte
      /\ Cardinality(DOMAIN before) = N
  BY Sizes
<1>2. /\ bytes \in Seq(Byte) /\ bytes[1] = n - 1
      /\ WritesWhole(n, N) => WholeArray(bytes, data)
      /\ ~WritesWhole(n, N) => ArrayPairs(bytes, data, U, n)
  BY ArrayWritten
<1>3. n \in Nat /\ n > 0 /\ 2 * n \in Nat
  BY <1>1
<1>. HIDE DEF n, bytes
<1>4. Len(bytes) \in Nat /\ Len(bytes) > 1
  BY <1>1, <1>2, <1>3 DEF WholeArray, ArrayPairs
<1>5. p.pos \in Nat /\ p.used \in Nat /\ p.pos + Len(bytes) <= p.used
  BY DEF At, Readable, bytes
<1>11. \A k \in 1 .. Len(bytes) : p.mem[p.pos + k] = bytes[k]
  BY DEF At, bytes
<1>6. /\ Readable(q) /\ q.pos = p.pos + 1 /\ q.mem = p.mem /\ q.used = p.used
  BY <1>4, <1>5, AdvancedExact
<1>7. Peek(p, 1)[1] + 1 = n
  <2>1. Peek(p, 1)[1] = p.mem[p.pos + 1]
    BY <1>4, <1>5, PeekExact
  <2>2. 1 \in 1 .. Len(bytes)
    BY <1>4
  <2>3. Peek(p, 1)[1] = n - 1
    BY <1>2, <1>11, <2>1, <2>2
  <2>. QED  BY <1>3, <2>3
<1>8. ASSUME NEW l \in Nat, Len(bytes) = 1 + l, NEW k \in 1 .. l
      PROVE  Peek(q, l)[k] = bytes[1 + k]
  <2>1. q.pos + l <= q.used
    BY <1>5, <1>6, <1>8
  <2>. HIDE DEF q
  <2>2. Peek(q, l)[k] = q.mem[q.pos + k]
    BY <1>6, <1>8, <2>1, PeekExact
  <2>3. q.pos + k = p.pos + (1 + k) /\ 1 + k \in 1 .. Len(bytes)
    BY <1>5, <1>6, <1>8
  <2>. QED  BY <1>6, <1>11, <2>2, <2>3
<1>9. CASE 2 * n > N
  <2>. DEFINE v == [i \in DOMAIN before |-> Peek(q, N)[i + 1]]
  <2>1. d = [p |-> Advanced(p, 1 + N), n |-> 1 + N, v |-> v]
    BY <1>1, <1>7, <1>9 DEF DecodeArray
  <2>2. Len(bytes) = 1 + N /\ \A i \in Index : bytes[1 + (i + 1)] = data[i]
    BY <1>2, <1>9 DEF WritesWhole, WholeArray
  <2>3. ASSUME NEW i \in Index PROVE Peek(q, N)[i + 1] = data[i]
    <3>1. i + 1 \in 1 .. N
      BY <1>1
    <3>2. Peek(q, N)[i + 1] = bytes[1 + (i + 1)]
      BY <1>1, <1>8, <2>2, <3>1
    <3>. QED  BY <2>2, <3>2
  <2>4. v = data
    BY <2>3
  <2>. HIDE DEF d, v
  <2>5. d.p = Advanced(p, Len(bytes)) /\ d.n = Len(bytes) /\ d.v = data
    BY <2>1, <2>2, <2>4
  <2>. QED  BY <1>4, <2>5 DEF ReadBy, d, bytes
<1>10. CASE ~(2 * n > N)
  <2>. DEFINE v == [i \in DOMAIN before |-> value(i)]
  <2>1. d = [p |-> Advanced(p, 1 + 2 * n), n |-> 1 + 2 * n, v |-> v]
    BY <1>1, <1>7, <1>10 DEF DecodeArray
  <2>2. Len(bytes) = 1 + 2 * n
    BY <1>2, <1>10 DEF WritesWhole, ArrayPairs
  <2>3. PICK order \in [1 .. n -> U] :
           /\ \A i \in U : \E k \in 1 .. n : order[k] = i
           /\ \A k, l \in 1 .. n : order[k] = order[l] => k = l
           /\ \A k \in 1 .. n : /\ bytes[1 + (2 * k - 1)] = order[k]
                                /\ bytes[1 + 2 * k] = data[order[k]]
    BY <1>2, <1>10 DEF WritesWhole, ArrayPairs
  <2>4. \A k \in 1 .. 2 * n : pairs[k] = bytes[1 + k]
    BY <1>3, <1>8, <2>2
  <2>. HIDE DEF pairs
  <2>5. \A k \in 1 .. n : pairs[2 * k - 1] = order[k] /\ pairs[2 * k] = data[order[k]]
    <3>1. \A k \in 1 .. n : 2 * k - 1 \in 1 .. 2 * n /\ 2 * k \in 1 .. 2 * n
      BY <1>3
    <3>. QED  BY <2>3, <2>4, <3>1
  <2>6. ASSUME NEW i \in Index PROVE value(i) = data[i]
    <3>. DEFINE ks == {k \in 1 .. n : pairs[2 * k - 1] = i}
    <3>1. CASE i \in U
      <4>1. PICK k \in 1 .. n : order[k] = i
        BY <2>3, <3>1
      <4>2. ks = {k, k} /\ ks # {}
        <5>1. ASSUME NEW l \in 1 .. n PROVE pairs[2 * l - 1] = i <=> l = k
          BY <2>3, <2>5, <4>1
        <5>. QED  BY <5>1
      <4>3. Max({k, k}) = k
        <5>1. k \in Nat /\ k <= k
          BY <1>3
        <5>2. Max({k, k}) = IF k <= k THEN k ELSE k
          BY ONLY <5>1, MinMaxOfTwo
        <5>. QED  BY <5>2
      <4>4. value(i) = pairs[2 * k]
        BY <4>2, <4>3
      <4>. QED  BY <2>5, <4>1, <4>4
    <3>2. CASE i \notin U
      <4>1. \A k \in 1 .. n : order[k] \in U
        BY <2>3
      <4>2. ks = {}
        BY <2>5, <3>2, <4>1
      <4>. QED  BY <3>2, <4>2
    <3>. QED  BY <3>1, <3>2
  <2>. HIDE DEF value
  <2>7. v = data
    BY <2>6
  <2>. HIDE DEF d, v
  <2>8. d.p = Advanced(p, Len(bytes)) /\ d.n = Len(bytes) /\ d.v = data
    BY <2>1, <2>2, <2>7
  <2>. QED  BY <1>4, <2>8 DEF ReadBy, d, bytes
<1>. QED  BY <1>9, <1>10

-----------------------------------------------------------------------------
(* Signed numbers *)

LEMMA ZigzagExact ==
  ASSUME NEW v \in -Pow2[WideBits - 1] .. Pow2[WideBits - 1] - 1
  PROVE  Zigzag(v) \in Nat /\ Zigzag(v) < Pow2[WideBits] /\ Zagzig(Zigzag(v)) = v
<1>. DEFINE h == Pow2[WideBits - 1]
            w == Pow2[WideBits]
<1>1. h \in Nat /\ w = 2 * h
  <2>1. WideBits - 1 \in Nat /\ (WideBits - 1) + 1 = WideBits
    BY Widths
  <2>. QED  BY <2>1, Pow2Def, Pow2Typed
<1>2. v \in Int /\ -h <= v /\ v <= h - 1
  BY <1>1
<1>. HIDE DEF h, w
<1>3. CASE v >= 0
  <2>1. Zigzag(v) = 2 * v
    BY <1>3 DEF Zigzag
  <2>2. Divides(2 * v, 2, v, 0)
    BY <1>2, <1>3 DEF Divides
  <2>3. (2 * v) \div 2 = v /\ (2 * v) % 2 = 0
    BY <2>2, DivIs
  <2>. QED  BY <1>1, <1>2, <1>3, <2>1, <2>3 DEF Zagzig, h, w
<1>4. CASE ~(v >= 0)
  <2>1. Zigzag(v) = -2 * v - 1
    BY <1>4 DEF Zigzag
  <2>. DEFINE u == -2 * v - 1
              q == -v - 1
  <2>2. u \in Nat /\ u < w /\ q \in Nat /\ u = 2 * q + 1 /\ -q - 1 = v
    BY <1>1, <1>2, <1>4
  <2>3. Divides(u, 2, q, 1)
    BY <2>2 DEF Divides
  <2>4. u \div 2 = q /\ u % 2 = 1
    BY <2>3, DivIs
  <2>. HIDE DEF u, q
  <2>5. Zagzig(u) = v
    BY <2>2, <2>4 DEF Zagzig
  <2>. QED  BY <2>1, <2>2, <2>5 DEF u, w
<1>. QED  BY <1>3, <1>4

-----------------------------------------------------------------------------
(* Packets: writing *)

\* A packet that has only ever grown by doubling.
Sized(p) == \E k \in Nat : Len(p.mem) = InitialSize * Pow2[k]

LEMMA SizedExact ==
  ASSUME NEW p, Readable(p), Sized(p)
  PROVE  IsPacket(p) /\ Len(p.mem) \in Nat /\ Len(p.mem) > 0
<1>1. PICK k \in Nat : Len(p.mem) = InitialSize * Pow2[k]
  BY DEF Sized
<1>2. InitialSize \in Nat /\ InitialSize > 0 /\ Pow2[k] \in Nat /\ k < Pow2[k] /\ Pow2[k] > 0
  BY EncodingAssumption, Pow2Typed
<1>. DEFINE l == Len(p.mem)
            w == Pow2[k]
<1>3. l \in Nat /\ l > 0
  BY <1>1, <1>2
<1>4. l \div InitialSize = w
  <2>1. Divides(l, InitialSize, w, 0)
    BY <1>1, <1>2 DEF Divides
  <2>. QED  BY <2>1, DivIs
<1>5. k \in 0 .. l \div InitialSize
  <2>1. k \in 0 .. w
    BY <1>2
  <2>. HIDE DEF l, w
  <2>. QED  BY <1>4, <2>1
<1>6. \A i \in DOMAIN p.mem : p.mem[i] \in Byte
  <2>. DEFINE m == p.mem
  <2>1. m \in Seq(Byte)
    BY DEF Readable
  <2>. HIDE DEF m
  <2>2. \A i \in DOMAIN m : m[i] \in Byte
    BY <2>1
  <2>. QED  BY <2>2 DEF m
<1>7. p.pos \in 0 .. p.used /\ p.used <= Len(p.mem)
  BY DEF Readable
<1>. QED  BY <1>1, <1>3, <1>5, <1>6, <1>7 DEF IsPacket

LEMMA ResizedExact ==
  ASSUME NEW p, Readable(p), Sized(p), NEW n \in Nat
  PROVE  LET r == Resized(p, n) IN
         /\ Readable(r) /\ Sized(r) /\ p.pos + n <= Len(r.mem) /\ Len(p.mem) <= Len(r.mem)
         /\ \A j \in 1 .. Len(p.mem) : r.mem[j] = p.mem[j]
<1>. DEFINE l == Len(p.mem)
            S == {s \in {l * Pow2[k] : k \in 0 .. n} : p.pos + n <= s}
            size == Min(S)
            r == Resized(p, n)
            mem == [k \in 1 .. size |-> IF k <= l THEN p.mem[k] ELSE 0]
<1>1. l \in Nat /\ l > 0 /\ p.pos \in Nat /\ p.used \in Nat /\ p.pos <= p.used /\ p.used <= l
  BY SizedExact DEF Readable
<1>2. \A i \in 1 .. l : p.mem[i] \in Byte
  BY DEF Readable
<1>. HIDE DEF l
<1>3. \A k \in 0 .. n : Pow2[k] \in Nat /\ k < Pow2[k] /\ l * Pow2[k] \in Nat
  BY <1>1, Pow2Typed
<1>4. S \in SUBSET Nat
  BY <1>3
<1>5. l * Pow2[n] \in S
  <2>. DEFINE w == Pow2[n]
  <2>1. w \in Nat /\ n + 1 <= w /\ n \in 0 .. n
    BY <1>3
  <2>. HIDE DEF w
  <2>2. PICK x \in Nat : w = n + 1 + x
    <3>1. w - n - 1 \in Nat /\ w = n + 1 + (w - n - 1)
      BY <2>1
    <3>. QED  BY <3>1
  <2>3. PICK y \in Nat : l = 1 + y
    <3>1. l - 1 \in Nat /\ l = 1 + (l - 1)
      BY <1>1
    <3>. QED  BY <3>1
  <2>4. l * w = l * n + l + l * x /\ l * n = n + y * n /\ l * x \in Nat /\ y * n \in Nat
    BY <1>1, <2>2, <2>3
  <2>5. p.pos + n <= l * w
    BY <1>1, <2>4
  <2>. QED  BY <2>1, <2>5 DEF w
<1>6. size \in S
  <2>. HIDE DEF S
  <2>. QED  BY <1>4, <1>5, MinExact
<1>7. PICK k \in 0 .. n : size = l * Pow2[k] /\ p.pos + n <= size
  BY <1>6
<1>. HIDE DEF size
<1>8. size \in Nat /\ l <= size
  <2>. DEFINE w == Pow2[k]
  <2>1. w \in Nat /\ w >= 1
    BY <1>3
  <2>. HIDE DEF w
  <2>2. PICK x \in Nat : w = 1 + x
    <3>1. w - 1 \in Nat /\ w = 1 + (w - 1)
      BY <2>1
    <3>. QED  BY <3>1
  <2>3. l * w = l + l * x /\ l * x \in Nat
    BY <1>1, <2>2
  <2>. QED  BY <1>1, <1>7, <2>3 DEF w
<1>9. mem \in Seq(Byte) /\ Len(mem) = size /\ \A j \in 1 .. l : mem[j] = p.mem[j]
  <2>1. 0 \in Byte
    BY Widths
  <2>2. \A j \in 1 .. size : (IF j <= l THEN p.mem[j] ELSE 0) \in Byte
    BY <1>2, <2>1
  <2>3. mem \in [1 .. size -> Byte]
    BY <2>2
  <2>4. \A j \in 1 .. l : j \in 1 .. size /\ j <= l
    BY <1>1, <1>8
  <2>5. \A j \in 1 .. l : mem[j] = p.mem[j]
    BY <2>4
  <2>. HIDE DEF mem
  <2>. QED  BY <1>8, <2>3, <2>5
<1>10. r = [p EXCEPT !.mem = mem]
  BY DEF Resized, size, l
<1>. HIDE DEF mem, r
<1>11. Readable(r) /\ r.mem = mem
  BY <1>1, <1>8, <1>9, <1>10 DEF Readable
<1>12. Sized(r)
  <2>1. PICK j \in Nat : l = InitialSize * Pow2[j]
    BY DEF Sized, l
  <2>2. Pow2[j + k] = Pow2[j] * Pow2[k] /\ j + k \in Nat
    BY Pow2Add
  <2>3. InitialSize \in Nat /\ Pow2[j] \in Nat /\ Pow2[k] \in Nat
    BY EncodingAssumption, Pow2Typed
  <2>4. size = InitialSize * Pow2[j + k]
    BY <1>7, <2>1, <2>2, <2>3
  <2>. QED  BY <1>9, <1>11, <2>2, <2>4 DEF Sized
<1>. QED  BY <1>7, <1>8, <1>9, <1>11, <1>12 DEF l, r

LEMMA PutExact ==
  ASSUME NEW p, Readable(p), Sized(p), NEW bytes \in Seq(Byte)
  PROVE  LET q == Put(p, bytes) IN
         /\ Readable(q) /\ Sized(q) /\ q.pos = p.pos + Len(bytes)
         /\ q.used = IF p.used <= q.pos THEN q.pos ELSE p.used
         /\ \A j \in 1 .. p.pos : q.mem[j] = p.mem[j]
         /\ \A j \in 1 .. Len(bytes) : q.mem[p.pos + j] = bytes[j]
<1>. DEFINE n == Len(bytes)
            r == Resized(p, n)
            end == p.pos + n
            mem == [k \in DOMAIN r.mem |-> IF k \in p.pos + 1 .. end THEN bytes[k - p.pos]
                                           ELSE r.mem[k]]
            q == Put(p, bytes)
<1>1. n \in Nat /\ \A j \in 1 .. n : bytes[j] \in Byte
  OBVIOUS
<1>. HIDE DEF n, r
<1>2. /\ Readable(r) /\ Sized(r) /\ p.pos + n <= Len(r.mem) /\ Len(p.mem) <= Len(r.mem)
      /\ \A j \in 1 .. Len(p.mem) : r.mem[j] = p.mem[j]
  BY <1>1, ResizedExact DEF r
<1>3. /\ p.pos \in Nat /\ p.used \in Nat /\ p.pos <= p.used /\ p.used <= Len(p.mem)
      /\ Len(p.mem) \in Nat
  BY DEF Readable
<1>4. Len(r.mem) \in Nat /\ DOMAIN r.mem = 1 .. Len(r.mem) /\ \A j \in 1 .. Len(r.mem) : r.mem[j] \in Byte
  BY <1>2 DEF Readable
<1>. DEFINE l == Len(r.mem)
<1>5. l \in Nat /\ end \in Nat /\ end <= l /\ p.used <= l /\ p.pos <= Len(p.mem)
  BY <1>1, <1>2, <1>3, <1>4
<1>6. mem \in Seq(Byte) /\ Len(mem) = l
  <2>1. ASSUME NEW k \in 1 .. l
        PROVE  (IF k \in p.pos + 1 .. end THEN bytes[k - p.pos] ELSE r.mem[k]) \in Byte
    <3>1. k \in p.pos + 1 .. end => k - p.pos \in 1 .. n
      BY <1>1, <1>3
    <3>. QED  BY <1>1, <1>4, <3>1
  <2>. HIDE DEF end, l
  <2>2. mem \in [1 .. l -> Byte]
    BY <1>4, <2>1 DEF l
  <2>. HIDE DEF mem
  <2>. QED  BY <1>5, <2>2
<1>7. \A k \in 1 .. l : mem[k] = IF k \in p.pos + 1 .. end THEN bytes[k - p.pos] ELSE r.mem[k]
  BY <1>4
<1>8. q = [mem |-> mem, pos |-> end, used |-> Max({p.used, end})]
  BY DEF Put, r, n
<1>9. Max({p.used, end}) = IF p.used <= end THEN end ELSE p.used
  BY <1>3, <1>5, MinMaxOfTwo
<1>. HIDE DEF mem, q
<1>10. Readable(q) /\ q.mem = mem /\ q.pos = end /\ q.used = IF p.used <= end THEN end ELSE p.used
  <2>1. q.mem = mem /\ q.pos = end /\ q.used = IF p.used <= end THEN end ELSE p.used
    BY <1>8, <1>9
  <2>2. q.used \in Nat /\ q.pos <= q.used /\ q.used <= Len(q.mem)
    BY <1>3, <1>5, <1>6, <2>1
  <2>3. q \in [mem : Seq(Byte), pos : Nat, used : Nat]
    BY <1>5, <1>6, <1>8, <2>1, <2>2
  <2>. QED  BY <2>1, <2>2, <2>3 DEF Readable
<1>11. Sized(q)
  BY <1>2, <1>6, <1>10 DEF Sized
<1>12. ASSUME NEW j \in 1 .. p.pos PROVE mem[j] = p.mem[j]
  <2>1. j \in 1 .. l /\ j \in 1 .. Len(p.mem) /\ j \notin p.pos + 1 .. end
    BY <1>3, <1>5
  <2>. QED  BY <1>2, <1>7, <2>1
<1>13. ASSUME NEW j \in 1 .. n PROVE mem[p.pos + j] = bytes[j]
  <2>1. p.pos + j \in 1 .. l /\ p.pos + j \in p.pos + 1 .. end /\ (p.pos + j) - p.pos = j
    BY <1>1, <1>3, <1>5
  <2>. QED  BY <1>7, <2>1
<1>. QED  BY <1>10, <1>11, <1>12, <1>13 DEF q, n

-----------------------------------------------------------------------------
(* What lies in a packet *)

\* The copy is data, but for the elements in U.
Agrees(c, data, U) == \A i \in Index \ U : c[i] = data[i]

\* The bytes of an item.  Those of an array are an update of the copy c to the
\* writer's array a.
Encoded(item, bytes, a, c) ==
  /\ item = Item(item.kind, item.v)
  /\ \/ item.kind = "unsigned" /\ item.v \in UValue /\ bytes = Varint(item.v)
     \/ item.kind = "signed" /\ item.v \in SValue /\ bytes = Varint(Zigzag(item.v))
     \/ item.kind = "message" /\ item.v \in MessageValue /\ bytes = Message(MessageTypes, item.v)
     \/ item.kind = "input" /\ item.v \in InputValue /\ bytes = Input(item.v)
     \/ item.kind = "update" /\ item.v \in UpdateValue /\ bytes = Update(item.v, NumFields)
     \/ /\ item.kind = "array" /\ item.v = a.data /\ a.updated = {}
        /\ \E U \in SUBSET Index : /\ U # {} /\ Agrees(c, a.data, U)
                                   /\ bytes = ArrayUpdate(a.data, U)
     \/ item.kind = "join" /\ item.v \in JoinValue /\ bytes = JoinRequest(item.v)

ArrayType == [data : [Index -> Element], updated : SUBSET Index]

LEMMA ValuesAre ==
  /\ \A v \in UValue : v \in Nat /\ v < Pow2[WideBits]
  /\ \A v \in SValue : v \in -Pow2[WideBits - 1] .. Pow2[WideBits - 1] - 1
  /\ MessageTypes \in Seq(Types) /\ MessageTypes # <<>>
  /\ \A v \in MessageValue : IsMessage(MessageTypes, v)
  /\ NumInputs \in Nat \ {0} /\ \A v \in InputValue : v \in [1 .. NumInputs -> NumberValue(NumberBytes)]
  /\ NumFields \in Nat \ {0} /\ \A v \in UpdateValue : IsUpdate(v, NumFields)
  /\ \A v \in JoinValue : IsJoinRequest(v)
<1>1. \A v \in UValue : v \in Nat /\ v < Pow2[WideBits]
  <2>1. UValue \subseteq 0 .. Pow2[WideBits] - 1 /\ Pow2[WideBits] \in Nat
    BY EncodingAssumption, Widths, Pow2Positive
  <2>. QED  BY <2>1
<1>2. \A v \in SValue : v \in -Pow2[WideBits - 1] .. Pow2[WideBits - 1] - 1
  BY EncodingAssumption
<1>3. /\ MessageTypes \in Seq(Types) /\ MessageTypes # <<>>
      /\ \A v \in MessageValue : IsMessage(MessageTypes, v)
  BY EncodingAssumption DEF Types
<1>4. NumInputs \in Nat \ {0} /\ \A v \in InputValue : v \in [1 .. NumInputs -> NumberValue(NumberBytes)]
  BY EncodingAssumption
<1>5. NumFields \in Nat \ {0} /\ \A v \in UpdateValue : IsUpdate(v, NumFields)
  BY EncodingAssumption DEF IsUpdate
<1>6. \A v \in JoinValue : IsJoinRequest(v)
  BY EncodingAssumption
<1>. QED  BY <1>1, <1>2, <1>3, <1>4, <1>5, <1>6

LEMMA DataIsBytes ==
  ASSUME NEW data \in [Index -> Element] PROVE data \in [Index -> Byte]
BY Sizes

LEMMA EncodedBytes ==
  ASSUME NEW item, NEW bytes, NEW a \in ArrayType, NEW c, Encoded(item, bytes, a, c)
  PROVE  bytes \in Seq(Byte) /\ Len(bytes) > 0 /\ Len(bytes) \in Nat
<1>0. \A s \in Seq(Byte) : Len(s) \in Nat
  OBVIOUS
<1>1. SUFFICES bytes \in Seq(Byte) /\ Len(bytes) > 0
  BY <1>0
<1>2. CASE item.kind = "unsigned" /\ item.v \in UValue /\ bytes = Varint(item.v)
  BY <1>2, ValuesAre, VarintExact
<1>3. CASE item.kind = "signed" /\ item.v \in SValue /\ bytes = Varint(Zigzag(item.v))
  BY <1>3, ValuesAre, ZigzagExact, VarintExact
<1>4. CASE item.kind = "message" /\ item.v \in MessageValue /\ bytes = Message(MessageTypes, item.v)
  BY <1>4, ValuesAre, MessageExact
<1>5. CASE item.kind = "input" /\ item.v \in InputValue /\ bytes = Input(item.v)
  BY <1>5, ValuesAre, InputExact
<1>6. CASE item.kind = "update" /\ item.v \in UpdateValue /\ bytes = Update(item.v, NumFields)
  BY <1>6, ValuesAre, UpdateExact
<1>7. CASE item.kind = "array" /\ \E U \in SUBSET Index : U # {} /\ bytes = ArrayUpdate(a.data, U)
  <2>1. PICK U \in SUBSET Index : U # {} /\ bytes = ArrayUpdate(a.data, U)
    BY <1>7
  <2>2. a.data \in [Index -> Byte]
    BY DataIsBytes DEF ArrayType
  <2>. DEFINE data == a.data
  <2>3. data \in [Index -> Byte] /\ bytes = ArrayUpdate(data, U) /\ U # {}
    BY <2>1, <2>2
  <2>. HIDE DEF data
  <2>4. /\ Cardinality(U) \in 1 .. ArraySize /\ bytes \in Seq(Byte)
        /\ WritesWhole(Cardinality(U), ArraySize) => WholeArray(bytes, data)
        /\ ~WritesWhole(Cardinality(U), ArraySize) => ArrayPairs(bytes, data, U, Cardinality(U))
    BY <2>3, ArrayWritten
  <2>. QED  BY <2>4, Sizes DEF WholeArray, ArrayPairs
<1>8. CASE item.kind = "join" /\ item.v \in JoinValue /\ bytes = JoinRequest(item.v)
  <2>1. IsJoinRequest(item.v)
    BY <1>8, ValuesAre
  <2>2. bytes \in Seq(Byte) /\ Len(bytes) = 15 + Len(String(item.v.game))
    BY <1>8, <2>1, JoinPlaces
  <2>3. String(item.v.game) \in Seq(Byte)
    <3>1. IsValue("string", item.v.game) /\ "string" \in Types
      BY <2>1 DEF IsJoinRequest, IsValue, Types
    <3>2. Encode("string", item.v.game) \in Seq(Byte)
      BY <3>1, CodecExact
    <3>. QED  BY <3>2 DEF Encode
  <2>. QED  BY <1>0, <2>2, <2>3
<1>. QED  BY <1>2, <1>3, <1>4, <1>5, <1>6, <1>7, <1>8 DEF Encoded

\* The decoder of its kind makes of an item's bytes the item again.
LEMMA DecodedExact ==
  ASSUME array \in ArrayType, copy \in [Index -> Byte], Readable(in),
         NEW item, NEW bytes, Encoded(item, bytes, array, copy), item.kind # "join", At(in, bytes)
  PROVE  LET d == Decoded(item.kind) IN
         /\ ReadBy(d, in, bytes) /\ d.n > 0
         /\ Fits(item) => Item(item.kind, d.v) = item
         /\ item.kind = "array" => d.v = array.data
<1>0. item = Item(item.kind, item.v)
  BY DEF Encoded
<1>. DEFINE Goal(d) == /\ ReadBy(d, in, bytes) /\ d.n > 0 /\ (Fits(item) => d.v = item.v)
                       /\ item.kind = "array" => d.v = array.data
<1>1. SUFFICES Goal(Decoded(item.kind))
  BY <1>0, <1>1
<1>2. CASE item.kind = "unsigned" /\ item.v \in UValue /\ bytes = Varint(item.v)
  <2>1. Decoded(item.kind) = DecodeVarint(in) /\ (Fits(item) <=> item.v < Pow2[IntBits - 1])
    BY <1>2 DEF Decoded, Fits
  <2>2. item.v \in Nat /\ item.v < Pow2[WideBits]
    BY <1>2, ValuesAre
  <2>3. ReadBy(DecodeVarint(in), in, bytes) /\ DecodeVarint(in).n > 0
        /\ (item.v < Pow2[IntBits - 1] => DecodeVarint(in).v = item.v)
    BY <1>2, <2>2, VarintDecoded
  <2>. QED  BY <1>2, <2>1, <2>3
<1>3. CASE item.kind = "signed" /\ item.v \in SValue /\ bytes = Varint(Zigzag(item.v))
  <2>. DEFINE z == Zigzag(item.v)
              e == DecodeVarint(in)
  <2>1. Decoded(item.kind) = DecodeSigned(in) /\ (Fits(item) <=> z < Pow2[IntBits - 1])
    BY <1>3 DEF Decoded, Fits
  <2>2. z \in Nat /\ z < Pow2[WideBits] /\ Zagzig(z) = item.v
    BY <1>3, ValuesAre, ZigzagExact
  <2>. HIDE DEF z
  <2>3. ReadBy(e, in, bytes) /\ e.n > 0 /\ (z < Pow2[IntBits - 1] => e.v = z)
    BY <1>3, <2>2, VarintDecoded DEF z
  <2>4. DecodeSigned(in) = [p |-> e.p, n |-> e.n, v |-> Zagzig(e.v)]
    <3>1. \E x, y, w : e = [p |-> x, n |-> y, v |-> w]
      BY DEF DecodeVarint
    <3>2. DecodeSigned(in) = [e EXCEPT !.v = Zagzig(@)]
      BY DEF DecodeSigned
    <3>. HIDE DEF e
    <3>. QED  BY <3>1, <3>2
  <2>. HIDE DEF e
  <2>5. /\ DecodeSigned(in).p = e.p /\ DecodeSigned(in).n = e.n /\ DecodeSigned(in).v = Zagzig(e.v)
    BY <2>4
  <2>6. ReadBy(DecodeSigned(in), in, bytes) /\ DecodeSigned(in).n > 0
    BY <2>3, <2>5 DEF ReadBy
  <2>. QED  BY <1>3, <2>1, <2>2, <2>3, <2>5, <2>6
<1>4. CASE item.kind = "message" /\ item.v \in MessageValue /\ bytes = Message(MessageTypes, item.v)
  <2>1. Decoded(item.kind) = DecodeMessage(MessageTypes, in)
    BY <1>4 DEF Decoded
  <2>2. IsMessage(MessageTypes, item.v) /\ MessageTypes \in Seq(Types) /\ MessageTypes # <<>>
    BY <1>4, ValuesAre
  <2>3. ReadBy(DecodeMessage(MessageTypes, in), in, bytes) /\ Len(bytes) > 0
        /\ DecodeMessage(MessageTypes, in).v = item.v
    BY <1>4, <2>2, MessageExact
  <2>. QED  BY <1>4, <2>1, <2>3 DEF ReadBy
<1>5. CASE item.kind = "input" /\ item.v \in InputValue /\ bytes = Input(item.v)
  <2>1. Decoded(item.kind) = DecodeInput(NumInputs, in)
    BY <1>5 DEF Decoded
  <2>2. NumInputs \in Nat \ {0} /\ item.v \in [1 .. NumInputs -> NumberValue(NumberBytes)]
    BY <1>5, ValuesAre
  <2>3. ReadBy(DecodeInput(NumInputs, in), in, bytes) /\ Len(bytes) > 0
        /\ DecodeInput(NumInputs, in).v = item.v
    BY <1>5, <2>2, InputExact
  <2>. QED  BY <1>5, <2>1, <2>3 DEF ReadBy
<1>6. CASE item.kind = "update" /\ item.v \in UpdateValue /\ bytes = Update(item.v, NumFields)
  <2>1. /\ Decoded(item.kind) = DecodeUpdate(in, NumFields)
        /\ Fits(item) <=> \A x \in DOMAIN item.v : item.v[x] < Pow2[IntBits - 1]
    BY <1>6 DEF Decoded, Fits
  <2>2. NumFields \in Nat \ {0} /\ IsUpdate(item.v, NumFields)
    BY <1>6, ValuesAre
  <2>3. /\ ReadBy(DecodeUpdate(in, NumFields), in, bytes) /\ Len(bytes) > 0
        /\ (\A x \in DOMAIN item.v : item.v[x] < Pow2[IntBits - 1])
             => DecodeUpdate(in, NumFields).v = item.v
    BY <1>6, <2>2, UpdateExact
  <2>. QED  BY <1>6, <2>1, <2>3 DEF ReadBy
<1>7. CASE /\ item.kind = "array" /\ item.v = array.data
           /\ \E U \in SUBSET Index : /\ U # {} /\ Agrees(copy, array.data, U)
                                      /\ bytes = ArrayUpdate(array.data, U)
  <2>. DEFINE data == array.data
  <2>1. Decoded(item.kind) = DecodeArray(in, copy)
    BY <1>7 DEF Decoded
  <2>2. data \in [Index -> Byte]
    BY DataIsBytes DEF ArrayType
  <2>3. PICK U \in SUBSET Index : U # {} /\ Agrees(copy, data, U) /\ bytes = ArrayUpdate(data, U)
    BY <1>7
  <2>4. item.v = data
    BY <1>7
  <2>. HIDE DEF data
  <2>5. ReadBy(DecodeArray(in, copy), in, bytes) /\ DecodeArray(in, copy).n > 0
        /\ DecodeArray(in, copy).v = data
    BY <2>2, <2>3, ArrayDecoded DEF Agrees
  <2>. QED  BY <2>1, <2>4, <2>5 DEF data
<1>. QED  BY <1>2, <1>3, <1>4, <1>5, <1>6, <1>7 DEF Encoded

\* What is written lies where it was when more is written, or the packet is copied.
LEMMA AtKept ==
  ASSUME NEW p, Readable(p), NEW q, Readable(q), p.used <= q.used,
         \A j \in 1 .. p.used : q.mem[j] = p.mem[j],
         NEW a \in Nat, NEW bytes \in Seq(Byte), At(Pointed(p, a), bytes)
  PROVE  At(Pointed(q, a), bytes)
<1>1. p.used \in Nat /\ q.used \in Nat /\ a \in Nat /\ Len(bytes) \in Nat
  BY DEF Readable
<1>2. /\ Pointed(p, a).pos = a /\ Pointed(p, a).used = p.used /\ Pointed(p, a).mem = p.mem
      /\ Pointed(q, a).pos = a /\ Pointed(q, a).used = q.used /\ Pointed(q, a).mem = q.mem
  BY DEF Pointed, Readable
<1>3. a + Len(bytes) <= p.used /\ \A k \in 1 .. Len(bytes) : p.mem[a + k] = bytes[k]
  BY <1>2 DEF At
<1>4. \A k \in 1 .. Len(bytes) : a + k \in 1 .. p.used
  BY <1>1, <1>3
<1>5. a + Len(bytes) <= q.used
  <2>. HIDE <1>2
  <2>. QED  BY <1>1, <1>3
<1>. QED  BY <1>2, <1>3, <1>4, <1>5 DEF At

\* A sequence of whatever values: an item and what is read have no common type.
IsList(s) == \E S : s \in Seq(S)

LEMMA AppendExact ==
  ASSUME NEW s, IsList(s), NEW x
  PROVE  /\ Len(s) \in Nat /\ DOMAIN s = 1 .. Len(s) /\ (s = <<>> <=> Len(s) = 0)
         /\ IsList(Append(s, x)) /\ Len(Append(s, x)) = Len(s) + 1
         /\ \A k \in 1 .. Len(s) : Append(s, x)[k] = s[k]
         /\ Append(s, x)[Len(s) + 1] = x
<1>1. PICK S : s \in Seq(S)
  BY DEF IsList
<1>. DEFINE T == S \cup {x}
<1>2. s \in Seq(T) /\ x \in T
  BY <1>1
<1>. HIDE DEF T
<1>3. Append(s, x) \in Seq(T)
  BY <1>2
<1>. QED  BY <1>2, <1>3 DEF IsList

-----------------------------------------------------------------------------
(* The invariant *)

\* The items of a packet follow each other from its start to its end; those
\* from number "from" on have still to be read, into the copy c of the array a.
Packed(p, its, off, from, a, c) ==
  /\ off \in [0 .. Len(its) -> Nat] /\ off[0] = 0 /\ off[Len(its)] = p.used
  /\ \A k \in from .. Len(its) :
       \E bytes \in Seq(Byte) : /\ Encoded(its[k], bytes, a, c)
                                /\ off[k] = off[k - 1] + Len(bytes)
                                /\ At(Pointed(p, off[k - 1]), bytes)

\* A join request is alone in its packet, and an array is written once.
Contents(its) ==
  /\ IsList(its)
  /\ \A k \in 1 .. Len(its) : its[k].kind = "join" => Len(its) = 1
  /\ \A k, l \in 1 .. Len(its) : its[k].kind = "array" /\ its[l].kind = "array" => k = l

\* None of the items from number "from" on updates the array.
NoArray(its, from) == \A k \in from .. Len(its) : its[k].kind # "array"

\* What the runs' properties say of an item s that was read as r.
RightlyRead(s, r) ==
  /\ r.kind # "failed"
  /\ Fits(s) /\ s.kind \notin {"array", "join"} => r = s
  /\ s.kind = "array" => r = s
  /\ s.kind = "join" => r.v = RightAnswer(s.v)

\* The writer is at the end of its packet; it writes once the reader is done.
InvTypes ==
  /\ Readable(out) /\ Sized(out) /\ out.pos = out.used
  /\ Readable(in) /\ Sized(in)
  /\ array \in ArrayType /\ copy \in [Index -> Byte]
  /\ Contents(items) /\ Len(items) <= MaxItems
  /\ Contents(sent) /\ IsList(read) /\ Len(read) <= Len(sent)
  /\ packets \in 0 .. MaxPackets
  /\ items # <<>> => Len(read) = Len(sent)

\* Unless an update of the array is on its way, the copy lacks what is to be
\* updated and nothing else.
InvCopy ==
  NoArray(items, 1) /\ NoArray(sent, Len(read) + 1) => Agrees(copy, array.data, array.updated)

\* The packet being written holds the items written into it; the one being
\* read holds those sent, and the pointer is where the next one begins.  A
\* join request is answered at once and may leave the pointer where it was refused.
InvOut == \E off : Packed(out, items, off, 1, array, copy)

JoinRead == HasJoin(sent) /\ read # <<>>

InvIn ==
  /\ \E off : /\ Packed(in, sent, off, Len(read) + 1, array, copy)
              /\ ~JoinRead => in.pos = off[Len(read)]
  /\ JoinRead => Remaining(in) = 0 \/ read[1].v \in {"IGNORED", "WRONG_LIB_VERSION"}

InvRead == \A k \in 1 .. Len(read) : RightlyRead(sent[k], read[k])

Inv == InvTypes /\ InvCopy /\ InvOut /\ InvIn /\ InvRead

LEMMA ListExact ==
  ASSUME NEW s, IsList(s)
  PROVE  Len(s) \in Nat /\ DOMAIN s = 1 .. Len(s) /\ (s = <<>> <=> Len(s) = 0)
BY AppendExact

LEMMA EmptyList ==
  /\ IsList(<<>>) /\ Contents(<<>>) /\ Len(<<>>) = 0
  /\ \A p, a, c : p.used = 0 => \E off : Packed(p, <<>>, off, 1, a, c) /\ off[0] = 0
  /\ \A n \in Nat : NoArray(<<>>, n + 1)
<1>1. IsList(<<>>) /\ Len(<<>>) = 0
  <2>1. <<>> \in Seq({}) /\ Len(<<>>) = 0
    OBVIOUS
  <2>. QED  BY <2>1 DEF IsList
<1>2. \A n \in Nat : n + 1 .. Len(<<>>) = {}
  BY <1>1
<1>3. 1 .. Len(<<>>) = {}
  BY <1>1
<1>4. ASSUME NEW p, NEW a, NEW c, p.used = 0
      PROVE  \E off : Packed(p, <<>>, off, 1, a, c) /\ off[0] = 0
  <2>. DEFINE off == [k \in {0} |-> 0]
  <2>1. off \in [0 .. 0 -> Nat] /\ off[0] = 0
    OBVIOUS
  <2>. HIDE DEF off
  <2>2. Packed(p, <<>>, off, 1, a, c)
    BY <1>1, <1>3, <1>4, <2>1 DEF Packed
  <2>. QED  BY <2>1, <2>2
<1>. QED  BY <1>1, <1>2, <1>3, <1>4 DEF Contents, NoArray

LEMMA InitInv ==
  ASSUME Init PROVE Inv
<1>. USE DEF Init
<1>1. Readable(NewPacket) /\ Sized(NewPacket) /\ NewPacket.pos = 0 /\ NewPacket.used = 0
  <2>1. InitialSize \in Nat /\ Pow2[0] = 1 /\ 0 \in Byte
    BY EncodingAssumption, Pow2Def, Widths
  <2>. DEFINE mem == [k \in 1 .. InitialSize |-> 0]
  <2>2. mem \in Seq(Byte) /\ Len(mem) = InitialSize
    <3>1. mem \in [1 .. InitialSize -> Byte]
      BY <2>1
    <3>. HIDE DEF mem
    <3>. QED  BY <2>1, <3>1
  <2>3. NewPacket = [mem |-> mem, pos |-> 0, used |-> 0]
    BY DEF NewPacket
  <2>. HIDE DEF mem
  <2>4. InitialSize = InitialSize * Pow2[0]
    BY <2>1
  <2>5. Len(NewPacket.mem) = InitialSize * Pow2[0] /\ 0 \in Nat
    BY <2>2, <2>3, <2>4
  <2>. QED  BY <2>1, <2>2, <2>3, <2>5 DEF Readable, Sized
<1>2. InvTypes
  <2>1. array \in ArrayType
    BY Sizes DEF ArrayType
  <2>2. copy \in [Index -> Byte]
    <3>1. 1 \in Byte
      BY Widths
    <3>. QED  BY <3>1
  <2>3. MaxItems \in Nat /\ MaxPackets \in Nat /\ 0 <= MaxItems /\ 0 \in 0 .. MaxPackets /\ 0 <= 0
    BY EncodingAssumption
  <2>. QED  BY <1>1, <2>1, <2>2, <2>3, EmptyList DEF InvTypes
<1>3. InvCopy
  BY DEF InvCopy, Agrees
<1>4. InvOut
  BY <1>1, EmptyList DEF InvOut
<1>5. InvIn
  <2>1. PICK off : Packed(in, <<>>, off, 1, array, copy) /\ off[0] = 0
    BY <1>1, EmptyList
  <2>2. Len(read) = 0 /\ Len(read) + 1 = 1 /\ in.pos = 0 /\ ~JoinRead
    BY <1>1, EmptyList DEF JoinRead
  <2>. QED  BY <2>1, <2>2 DEF InvIn
<1>6. InvRead
  BY EmptyList DEF InvRead
<1>. QED  BY <1>2, <1>3, <1>4, <1>5, <1>6 DEF Inv

LEMMA EncodedOther ==
  ASSUME NEW item, item.kind # "array", NEW bytes, NEW a, NEW c, NEW b, NEW d, Encoded(item, bytes, a, c)
  PROVE  Encoded(item, bytes, b, d)
BY DEF Encoded

\* The packet has grown by an item.
LEMMA PackedPut ==
  ASSUME NEW p, Readable(p), Sized(p), p.pos = p.used, NEW its, Contents(its), NEW off,
         NEW a, NEW b \in ArrayType, NEW c, Packed(p, its, off, 1, a, c),
         NEW item, NEW bytes, Encoded(item, bytes, b, c), a = b \/ NoArray(its, 1)
  PROVE  /\ Readable(Put(p, bytes)) /\ Sized(Put(p, bytes)) /\ Put(p, bytes).pos = Put(p, bytes).used
         /\ \E o : Packed(Put(p, bytes), Append(its, item), o, 1, b, c)
<1>. DEFINE q == Put(p, bytes)
            n == Len(bytes)
            m == Len(its)
            new == Append(its, item)
            o == [k \in 0 .. m + 1 |-> IF k <= m THEN off[k] ELSE p.used + n]
<1>1. bytes \in Seq(Byte) /\ n \in Nat /\ n > 0 /\ p.used \in Nat
  BY EncodedBytes DEF Readable
<1>2. /\ Readable(q) /\ Sized(q) /\ q.pos = p.used + n /\ q.used = p.used + n
      /\ \A j \in 1 .. p.used : q.mem[j] = p.mem[j]
      /\ \A j \in 1 .. n : q.mem[p.used + j] = bytes[j]
  <2>1. /\ Readable(q) /\ Sized(q) /\ q.pos = p.pos + n
        /\ q.used = IF p.used <= q.pos THEN q.pos ELSE p.used
        /\ \A j \in 1 .. p.pos : q.mem[j] = p.mem[j]
        /\ \A j \in 1 .. n : q.mem[p.pos + j] = bytes[j]
    BY <1>1, PutExact
  <2>2. p.used <= p.used + n
    BY <1>1
  <2>. QED  BY <2>1, <2>2
<1>3. /\ m \in Nat /\ Len(new) = m + 1 /\ new[m + 1] = item
      /\ \A k \in 1 .. m : new[k] = its[k]
  BY AppendExact DEF Contents
<1>4. /\ off \in [0 .. m -> Nat] /\ off[0] = 0 /\ off[m] = p.used
      /\ \A k \in 1 .. m : \E e \in Seq(Byte) : /\ Encoded(its[k], e, a, c)
                                                /\ off[k] = off[k - 1] + Len(e)
                                                /\ At(Pointed(p, off[k - 1]), e)
  BY DEF Packed
<1>. HIDE DEF q, n, m, new
<1>5. /\ o \in [0 .. m + 1 -> Nat] /\ o[m + 1] = p.used + n /\ \A k \in 0 .. m : o[k] = off[k]
  <2>1. \A k \in 0 .. m + 1 : (IF k <= m THEN off[k] ELSE p.used + n) \in Nat
    BY <1>1, <1>3, <1>4
  <2>2. \A k \in 0 .. m : k \in 0 .. m + 1 /\ k <= m
    BY <1>3
  <2>3. m + 1 \in 0 .. m + 1 /\ ~(m + 1 <= m)
    BY <1>3
  <2>. QED  BY <2>1, <2>2, <2>3
<1>. HIDE DEF o
<1>6. ASSUME NEW k \in 1 .. m + 1
      PROVE  \E e \in Seq(Byte) : /\ Encoded(new[k], e, b, c) /\ o[k] = o[k - 1] + Len(e)
                                  /\ At(Pointed(q, o[k - 1]), e)
  <2>1. CASE k \in 1 .. m
    <3>1. PICK e \in Seq(Byte) : /\ Encoded(its[k], e, a, c) /\ off[k] = off[k - 1] + Len(e)
                                 /\ At(Pointed(p, off[k - 1]), e)
      BY <1>4, <2>1
    <3>2. Encoded(its[k], e, b, c)
      BY <2>1, <3>1, EncodedOther DEF NoArray, m
    <3>3. k \in 0 .. m /\ k - 1 \in 0 .. m
      BY <1>3, <2>1
    <3>4. o[k] = off[k] /\ o[k - 1] = off[k - 1] /\ off[k - 1] \in Nat
      BY <1>4, <1>5, <3>3
    <3>5. p.used <= q.used
      BY <1>1, <1>2
    <3>6. At(Pointed(q, off[k - 1]), e)
      BY <1>2, <3>1, <3>4, <3>5, AtKept
    <3>. QED  BY <1>3, <2>1, <3>1, <3>2, <3>4, <3>6
  <2>2. CASE k = m + 1
    <3>1. k - 1 = m /\ m \in 0 .. m
      BY <1>3, <2>2
    <3>2. new[k] = item /\ o[k] = p.used + n /\ o[k - 1] = p.used
      BY <1>3, <1>4, <1>5, <2>2, <3>1
    <3>3. At(Pointed(q, p.used), bytes)
      <4>1. p.used \in 0 .. q.used
        BY <1>1, <1>2
      <4>2. /\ Pointed(q, p.used).pos = p.used /\ Pointed(q, p.used).used = q.used
            /\ Pointed(q, p.used).mem = q.mem
        BY <1>2, <4>1, PointedExact
      <4>3. p.used + n <= q.used
        BY <1>1, <1>2
      <4>. QED  BY <1>2, <4>2, <4>3 DEF At, n
    <3>. QED  BY <1>1, <3>2, <3>3 DEF n
  <2>. QED  BY <1>3, <2>1, <2>2
<1>7. o[0] = 0
  <2>1. 0 \in 0 .. m
    BY <1>3
  <2>. QED  BY <1>4, <1>5, <2>1
<1>8. Packed(q, new, o, 1, b, c)
  BY <1>2, <1>3, <1>5, <1>6, <1>7 DEF Packed
<1>. QED  BY <1>2, <1>8 DEF q, new

\* An item is written, of which the array takes its part.
LEMMA WriteInv ==
  ASSUME Inv, NEW item, NEW bytes, Write(item, bytes), array' \in ArrayType,
         Encoded(item, bytes, array', copy),
         \/ array' = array /\ item.kind # "array"
         \/ item.kind = "array" /\ NoArray(items, 1),
         item.kind = "join" => items = <<>>
  PROVE  Inv'
<1>. USE DEF Inv, Write
<1>0. /\ UNCHANGED <<in, copy, sent, read, packets>> /\ items' = Append(items, item)
      /\ out' = Put(out, bytes) /\ Len(read) = Len(sent) /\ Len(items) < MaxItems
  BY DEF WritersTurn
<1>1. /\ IsList(items) /\ Len(items) \in Nat /\ Len(items') = Len(items) + 1
      /\ items'[Len(items) + 1] = item /\ IsList(items')
      /\ \A k \in 1 .. Len(items) : items'[k] = items[k]
  BY <1>0, AppendExact, ListExact DEF InvTypes, Contents
<1>2. IsList(sent) /\ IsList(read) /\ Len(sent) \in Nat /\ Len(read) \in Nat
  BY ListExact DEF InvTypes, Contents
<1>3. PICK off : Packed(out, items, off, 1, array, copy)
  BY DEF InvOut
<1>4. /\ Readable(out') /\ Sized(out') /\ out'.pos = out'.used
      /\ \E o : Packed(out', items', o, 1, array', copy)
  BY <1>0, <1>3, PackedPut DEF InvTypes
<1>5. Contents(items')
  <2>. DEFINE m == Len(items)
              new == items'
  <2>1. \A k \in 1 .. m + 1 : new[k] = IF k = m + 1 THEN item ELSE items[k]
    BY <1>1
  <2>2. \A k \in 1 .. m : items[k].kind # "join"
    <3>1. ASSUME NEW k \in 1 .. m, items[k].kind = "join" PROVE FALSE
      <4>1. m = 1 /\ k = 1
        BY <3>1 DEF InvTypes, Contents
      <4>2. items # <<>> /\ items[1].kind = "join"
        BY <1>1, <3>1, <4>1, ListExact
      <4>. QED  BY <4>2 DEF HasJoin
    <3>. QED  BY <3>1
  <2>3. item.kind = "join" => m = 0
    BY <1>1, ListExact
  <2>4. item.kind = "array" => \A k \in 1 .. m : items[k].kind # "array"
    BY DEF NoArray
  <2>5. \A k, l \in 1 .. m : items[k].kind = "array" /\ items[l].kind = "array" => k = l
    BY DEF InvTypes, Contents
  <2>6. Len(new) = m + 1 /\ m \in Nat
    BY <1>1
  <2>. HIDE DEF m, new
  <2>7. \A k \in 1 .. m + 1 : new[k].kind = "join" => m + 1 = 1
    BY <2>1, <2>2, <2>3, <2>6
  <2>8. \A k, l \in 1 .. m + 1 : new[k].kind = "array" /\ new[l].kind = "array" => k = l
    BY <2>1, <2>4, <2>5, <2>6
  <2>. QED  BY <1>1, <2>6, <2>7, <2>8 DEF Contents, new
<1>6. InvTypes'
  <2>1. Len(items') <= MaxItems
    BY <1>0, <1>1, EncodingAssumption
  <2>. QED  BY <1>0, <1>4, <1>5, <2>1 DEF InvTypes
<1>7. InvOut'
  BY <1>0, <1>4 DEF InvOut
<1>8. InvIn'
  <2>1. PICK o : Packed(in, sent, o, Len(read) + 1, array, copy) /\ (~JoinRead => in.pos = o[Len(read)])
    BY DEF InvIn
  <2>2. Len(read) + 1 .. Len(sent) = {}
    BY <1>0, <1>2
  <2>3. Packed(in, sent, o, Len(read) + 1, array', copy)
    BY <2>1, <2>2 DEF Packed
  <2>. QED  BY <1>0, <2>1, <2>3 DEF InvIn, JoinRead, HasJoin, Remaining
<1>9. InvRead'
  BY <1>0 DEF InvRead
<1>10. InvCopy'
  <2>1. CASE array' = array /\ item.kind # "array"
    <3>1. ASSUME NoArray(items', 1) PROVE NoArray(items, 1)
      <4>1. \A k \in 1 .. Len(items) : k \in 1 .. Len(items')
        BY <1>1
      <4>. QED  BY <1>1, <3>1, <4>1 DEF NoArray
    <3>. QED  BY <1>0, <2>1, <3>1 DEF InvCopy
  <2>2. CASE item.kind = "array"
    <3>1. Len(items) + 1 \in 1 .. Len(items')
      BY <1>1
    <3>2. ~NoArray(items', 1)
      BY <1>1, <2>2, <3>1 DEF NoArray
    <3>. QED  BY <3>2 DEF InvCopy
  <2>. QED  BY <2>1, <2>2
<1>. QED  BY <1>6, <1>7, <1>8, <1>9, <1>10

LEMMA WriteValueInv ==
  ASSUME Inv, WriteValue PROVE Inv'
<1>. USE DEF WriteValue
<1>1. array' = array /\ array' \in ArrayType
  BY DEF Inv, InvTypes
<1>2. \A kind, v : Item(kind, v).kind = kind /\ Item(kind, v).v = v
  BY DEF Item
<1>3. ASSUME NEW v \in UValue, Write(Item("unsigned", v), Varint(v)) PROVE Inv'
  <2>1. Encoded(Item("unsigned", v), Varint(v), array', copy)
    BY <1>2 DEF Encoded
  <2>. QED  BY <1>1, <1>2, <1>3, <2>1, WriteInv
<1>4. ASSUME NEW v \in SValue, Write(Item("signed", v), Varint(Zigzag(v))) PROVE Inv'
  <2>1. Encoded(Item("signed", v), Varint(Zigzag(v)), array', copy)
    BY <1>2 DEF Encoded
  <2>. QED  BY <1>1, <1>2, <1>4, <2>1, WriteInv
<1>5. ASSUME NEW v \in MessageValue, Write(Item("message", v), Message(MessageTypes, v)) PROVE Inv'
  <2>1. Encoded(Item("message", v), Message(MessageTypes, v), array', copy)
    BY <1>2 DEF Encoded
  <2>. QED  BY <1>1, <1>2, <1>5, <2>1, WriteInv
<1>6. ASSUME NEW v \in InputValue, Write(Item("input", v), Input(v)) PROVE Inv'
  <2>1. Encoded(Item("input", v), Input(v), array', copy)
    BY <1>2 DEF Encoded
  <2>. QED  BY <1>1, <1>2, <1>6, <2>1, WriteInv
<1>7. ASSUME NEW v \in UpdateValue, Write(Item("update", v), Update(v, NumFields)) PROVE Inv'
  <2>1. Encoded(Item("update", v), Update(v, NumFields), array', copy)
    BY <1>2 DEF Encoded
  <2>. QED  BY <1>1, <1>2, <1>7, <2>1, WriteInv
<1>. QED  BY <1>3, <1>4, <1>5, <1>6, <1>7

LEMMA WriteJoinRequestInv ==
  ASSUME Inv, WriteJoinRequest PROVE Inv'
<1>1. PICK j \in JoinValue : Write(Item("join", j), JoinRequest(j))
  BY DEF WriteJoinRequest
<1>2. array' = array /\ array' \in ArrayType /\ items = <<>>
  BY DEF WriteJoinRequest, Inv, InvTypes
<1>3. Item("join", j).kind = "join" /\ Item("join", j).v = j
  BY DEF Item
<1>4. Encoded(Item("join", j), JoinRequest(j), array', copy)
  BY <1>3 DEF Encoded
<1>. QED  BY <1>1, <1>2, <1>3, <1>4, WriteInv

LEMMA WriteArrayInv ==
  ASSUME Inv, WriteArray PROVE Inv'
<1>0. PICK changed \in SUBSET Index :
        \E x \in [changed -> Element] :
          /\ SetElements(x).updated # {}
          /\ Write(Item("array", SetElements(x).data),
                   ArrayUpdate(SetElements(x).data, SetElements(x).updated))
          /\ array' = [SetElements(x) EXCEPT !.updated = {}]
  BY DEF WriteArray
<1>1. PICK x \in [changed -> Element] :
        /\ SetElements(x).updated # {}
        /\ Write(Item("array", SetElements(x).data),
                 ArrayUpdate(SetElements(x).data, SetElements(x).updated))
        /\ array' = [SetElements(x) EXCEPT !.updated = {}]
  BY <1>0
<1>. DEFINE data == [i \in Index |-> IF i \in DOMAIN x THEN x[i] ELSE array.data[i]]
            U == array.updated \cup DOMAIN x
            item == Item("array", data)
<1>2. /\ U # {} /\ Write(item, ArrayUpdate(data, U)) /\ array' = [data |-> data, updated |-> {}]
  BY <1>1 DEF SetElements
<1>3. array.data \in [Index -> Element] /\ array.updated \in SUBSET Index
  BY DEF Inv, InvTypes, ArrayType
<1>4. data \in [Index -> Element] /\ U \in SUBSET Index
  BY <1>3
<1>5. \A i \in Index \ U : data[i] = array.data[i] /\ i \in Index \ array.updated
  OBVIOUS
<1>6. NoArray(items, 1)
  <2>1. DOMAIN items = 1 .. Len(items)
    BY ListExact DEF Inv, InvTypes, Contents
  <2>. QED  BY <2>1 DEF WriteArray, NoArray
<1>7. NoArray(sent, Len(read) + 1)
  <2>1. Len(read) = Len(sent)
    BY <1>2 DEF Write, WritersTurn
  <2>2. Len(sent) \in Nat
    BY ListExact DEF Inv, InvTypes, Contents
  <2>3. Len(read) + 1 .. Len(sent) = {}
    BY <2>1, <2>2
  <2>. QED  BY <2>3 DEF NoArray
<1>8. Agrees(copy, array.data, array.updated)
  BY <1>6, <1>7 DEF Inv, InvCopy
<1>. HIDE DEF data, U
<1>9. Agrees(copy, data, U)
  BY <1>5, <1>8 DEF Agrees
<1>10. item.kind = "array" /\ item.v = data /\ item = Item(item.kind, item.v)
  BY DEF Item
<1>. HIDE DEF item
<1>11. array' \in ArrayType /\ array'.data = data /\ array'.updated = {}
  BY <1>2, <1>4 DEF ArrayType
<1>12. Encoded(item, ArrayUpdate(data, U), array', copy)
  BY <1>2, <1>4, <1>9, <1>10, <1>11 DEF Encoded
<1>. QED  BY <1>2, <1>6, <1>10, <1>11, <1>12, WriteInv DEF item

LEMMA SendInv ==
  ASSUME Inv, Send PROVE Inv'
<1>. USE DEF Inv
<1>. DEFINE w == SubSeq(out.mem, 1, out.used)
            r == Reset(in)
            q == Put(r, w)
<1>0. /\ in' = Seek(q, 0, "SET") /\ out' = Reset(out) /\ sent' = items /\ items' = <<>> /\ read' = <<>>
      /\ packets' = packets + 1 /\ array' = array /\ copy' = copy
      /\ Len(read) = Len(sent) /\ packets < MaxPackets
  BY DEF Send, WritersTurn
<1>1. IsList(items) /\ Len(items) \in Nat /\ Len(sent) \in Nat
  BY ListExact DEF InvTypes, Contents
<1>2. ASSUME NEW p, Readable(p), Sized(p)
      PROVE  Readable(Reset(p)) /\ Sized(Reset(p)) /\ Reset(p).pos = 0 /\ Reset(p).used = 0
             /\ Reset(p).mem = p.mem
  <2>1. p.mem \in Seq(Byte) /\ Len(p.mem) \in Nat
    BY <1>2, SizedExact DEF Readable
  <2>2. Reset(p) = [mem |-> p.mem, pos |-> 0, used |-> 0]
    <3>1. p \in [mem : Seq(Byte), pos : Nat, used : Nat]
      BY <1>2 DEF Readable
    <3>2. Reset(p) \in [mem : Seq(Byte), pos : Nat, used : Nat]
      BY <3>1 DEF Reset
    <3>3. Reset(p).mem = p.mem /\ Reset(p).pos = 0 /\ Reset(p).used = 0
      BY <3>1 DEF Reset
    <3>. QED  BY <3>2, <3>3
  <2>. QED  BY <1>2, <2>1, <2>2 DEF Readable, Sized
<1>3. w \in Seq(Byte) /\ Len(w) = out.used /\ out.used \in Nat /\ \A j \in 1 .. out.used : w[j] = out.mem[j]
  <2>. DEFINE m == out.mem
              n == out.used
  <2>1. m \in Seq(Byte) /\ n \in Nat /\ n <= Len(m)
    BY DEF InvTypes, Readable
  <2>. HIDE DEF m, n
  <2>2. SubSeq(m, 1, n) \in Seq(Byte) /\ Len(SubSeq(m, 1, n)) = n
        /\ \A j \in 1 .. n : SubSeq(m, 1, n)[j] = m[j]
    BY <2>1
  <2>. QED  BY <2>1, <2>2 DEF m, n
<1>4. Readable(r) /\ Sized(r) /\ r.pos = 0 /\ r.used = 0
  BY <1>2 DEF InvTypes
<1>. HIDE DEF w, r
<1>5. /\ Readable(q) /\ Sized(q) /\ q.used = out.used
      /\ \A j \in 1 .. out.used : q.mem[j] = out.mem[j]
  <2>1. /\ Readable(q) /\ Sized(q) /\ q.pos = 0 + Len(w)
        /\ q.used = IF 0 <= q.pos THEN q.pos ELSE 0
        /\ \A j \in 1 .. Len(w) : q.mem[0 + j] = w[j]
    BY <1>3, <1>4, PutExact
  <2>2. 0 + out.used = out.used /\ 0 <= out.used /\ \A j \in 1 .. out.used : 0 + j = j
    BY <1>3
  <2>. QED  BY <1>3, <2>1, <2>2
<1>. HIDE DEF q
<1>6. /\ Readable(in') /\ Sized(in') /\ in'.used = out.used /\ in'.pos = 0
      /\ \A j \in 1 .. out.used : in'.mem[j] = out.mem[j]
  <2>1. 0 \in 0 .. q.used
    BY <1>3, <1>5
  <2>2. in' = [q EXCEPT !.pos = 0] /\ Readable(in')
    BY <1>0, <1>5, <2>1, SeekExact
  <2>3. in'.mem = q.mem /\ in'.used = q.used /\ in'.pos = 0
    BY <1>5, <2>2 DEF Readable
  <2>. QED  BY <1>5, <2>2, <2>3 DEF Sized
<1>7. Readable(out') /\ Sized(out') /\ out'.pos = 0 /\ out'.used = 0
  BY <1>0, <1>2 DEF InvTypes
<1>8. InvTypes'
  <2>1. packets' \in 0 .. MaxPackets
    BY <1>0, EncodingAssumption DEF InvTypes
  <2>2. Len(items') <= MaxItems /\ Len(read') <= Len(sent') /\ Contents(items') /\ IsList(read')
    BY <1>0, <1>1, EmptyList, EncodingAssumption
  <2>. QED  BY <1>0, <1>6, <1>7, <2>1, <2>2 DEF InvTypes
<1>9. InvOut'
  BY <1>0, <1>7, EmptyList DEF InvOut
<1>10. InvIn'
  <2>1. PICK off : Packed(out, items, off, 1, array, copy)
    BY DEF InvOut
  <2>2. /\ off \in [0 .. Len(items) -> Nat] /\ off[0] = 0 /\ off[Len(items)] = out.used
        /\ \A k \in 1 .. Len(items) :
             \E bytes \in Seq(Byte) : /\ Encoded(items[k], bytes, array, copy)
                                      /\ off[k] = off[k - 1] + Len(bytes)
                                      /\ At(Pointed(out, off[k - 1]), bytes)
    BY <2>1 DEF Packed
  <2>3. ASSUME NEW k \in 1 .. Len(items)
        PROVE  \E bytes \in Seq(Byte) : /\ Encoded(items[k], bytes, array, copy)
                                        /\ off[k] = off[k - 1] + Len(bytes)
                                        /\ At(Pointed(in', off[k - 1]), bytes)
    <3>1. PICK bytes \in Seq(Byte) : /\ Encoded(items[k], bytes, array, copy)
                                     /\ off[k] = off[k - 1] + Len(bytes)
                                     /\ At(Pointed(out, off[k - 1]), bytes)
      BY <2>2
    <3>2. k - 1 \in 0 .. Len(items)
      BY <1>1
    <3>3. off[k - 1] \in Nat
      BY <2>2, <3>2
    <3>4. out.used <= in'.used
      BY <1>3, <1>6
    <3>5. Readable(out)
      BY DEF InvTypes
    <3>6. At(Pointed(in', off[k - 1]), bytes)
      BY <1>6, <3>1, <3>3, <3>4, <3>5, AtKept
    <3>. QED  BY <3>1, <3>6
  <2>4. Packed(in', items, off, 1, array, copy)
    BY <1>6, <2>2, <2>3 DEF Packed
  <2>5. Len(read') = 0 /\ Len(read') + 1 = 1 /\ ~JoinRead'
    BY <1>0, EmptyList DEF JoinRead
  <2>. QED  BY <1>0, <1>6, <2>2, <2>4, <2>5 DEF InvIn
<1>11. InvRead'
  BY <1>0, EmptyList DEF InvRead
<1>12. InvCopy'
  <2>1. Len(read') + 1 = 1 /\ Len(read) + 1 .. Len(sent) = {}
    BY <1>0, <1>1, EmptyList
  <2>2. NoArray(sent, Len(read) + 1)
    BY <2>1 DEF NoArray
  <2>. QED  BY <1>0, <2>1, <2>2 DEF InvCopy
<1>. QED  BY <1>8, <1>9, <1>10, <1>11, <1>12

LEMMA ReadInv ==
  ASSUME Inv, Read PROVE Inv'
<1>. USE DEF Inv
<1>. DEFINE k == Len(read) + 1
            item == sent[k]
            d == Decoded(item.kind)
            result == IF d.n = 0 THEN Item("failed", 0) ELSE Item(item.kind, d.v)
<1>0. /\ in' = d.p /\ read' = Append(read, result)
      /\ copy' = IF item.kind = "array" THEN d.v ELSE copy
      /\ UNCHANGED <<out, array, items, sent, packets>>
      /\ Len(read) < Len(sent) /\ ~HasJoin(sent)
  BY DEF Read
<1>1. /\ IsList(sent) /\ IsList(read) /\ IsList(items)
      /\ Len(sent) \in Nat /\ Len(read) \in Nat /\ Len(items) \in Nat
  BY ListExact DEF InvTypes, Contents
<1>2. k \in 1 .. Len(sent) /\ k - 1 = Len(read) /\ k \in Nat /\ k > 0 /\ k \in 0 .. Len(sent)
      /\ k - 1 \in 0 .. Len(sent) /\ Len(read) + 1 = k
  BY <1>0, <1>1
<1>3. items = <<>> /\ Len(items) = 0
  <2>1. Len(read) # Len(sent)
    BY <1>0, <1>1
  <2>. QED  BY <2>1, EmptyList DEF InvTypes
<1>4. ~JoinRead
  BY <1>0 DEF JoinRead
<1>5. PICK off : Packed(in, sent, off, k, array, copy) /\ in.pos = off[k - 1]
  BY <1>2, <1>4 DEF InvIn
<1>6. /\ off \in [0 .. Len(sent) -> Nat] /\ off[0] = 0 /\ off[Len(sent)] = in.used
      /\ \A l \in k .. Len(sent) :
           \E bytes \in Seq(Byte) : /\ Encoded(sent[l], bytes, array, copy)
                                    /\ off[l] = off[l - 1] + Len(bytes)
                                    /\ At(Pointed(in, off[l - 1]), bytes)
  BY <1>5 DEF Packed
<1>7. PICK bytes \in Seq(Byte) : /\ Encoded(item, bytes, array, copy)
                                 /\ off[k] = off[k - 1] + Len(bytes)
                                 /\ At(Pointed(in, off[k - 1]), bytes)
  <2>1. k \in k .. Len(sent)
    BY <1>2
  <2>. QED  BY <1>6, <2>1
<1>8. /\ array \in ArrayType /\ copy \in [Index -> Byte] /\ Readable(in) /\ Sized(in)
      /\ Contents(sent)
  BY DEF InvTypes
<1>9. At(in, bytes)
  BY <1>5, <1>7, <1>8, PointedExact
<1>10. item.kind # "join"
  <2>1. ASSUME item.kind = "join" PROVE FALSE
    <3>1. Len(sent) = 1
      BY <1>2, <1>8, <2>1 DEF Contents
    <3>2. k = 1
      BY <1>1, <1>2, <3>1
    <3>. QED  BY <1>0, <1>1, <2>1, <3>1, <3>2, ListExact DEF HasJoin
  <2>. QED  BY <2>1
<1>. HIDE DEF k, item
<1>11. /\ ReadBy(d, in, bytes) /\ d.n > 0
       /\ Fits(item) => Item(item.kind, d.v) = item
       /\ item.kind = "array" => d.v = array.data
  BY <1>7, <1>8, <1>9, <1>10, DecodedExact
<1>12. item = Item(item.kind, item.v) /\ (item.kind = "array" => item.v = array.data /\ array.updated = {})
  BY <1>7 DEF Encoded
<1>13. Len(bytes) \in Nat /\ d.p = Advanced(in, Len(bytes)) /\ d.n # 0
  <2>1. Len(bytes) \in Nat /\ Len(bytes) > 0
    BY <1>7, <1>8, EncodedBytes
  <2>. HIDE DEF d
  <2>. QED  BY <1>11, <2>1 DEF ReadBy
<1>. HIDE DEF d
<1>14. result = Item(item.kind, d.v)
  BY <1>13
<1>. HIDE DEF result
<1>15. /\ Readable(in') /\ Sized(in') /\ in'.mem = in.mem /\ in'.used = in.used /\ in'.pos = off[k]
  <2>1. in.pos + Len(bytes) <= in.used
    BY <1>9 DEF At
  <2>2. /\ Readable(in') /\ in'.mem = in.mem /\ in'.used = in.used
        /\ in'.pos = in.pos + Len(bytes)
    BY <1>0, <1>8, <1>13, <2>1, AdvancedExact
  <2>. QED  BY <1>5, <1>7, <1>8, <2>2 DEF Sized
<1>16. /\ IsList(read') /\ Len(read') = k /\ read'[k] = result
       /\ \A l \in 1 .. k - 1 : read'[l] = read[l]
  BY <1>0, <1>1, <1>2, AppendExact DEF k
<1>17. copy' \in [Index -> Byte]
  <2>1. array.data \in [Index -> Byte]
    BY <1>8, DataIsBytes DEF ArrayType
  <2>. QED  BY <1>0, <1>8, <1>11, <2>1
<1>18. InvTypes'
  <2>1. Len(read') <= Len(sent')
    BY <1>0, <1>1, <1>2, <1>16
  <2>2. items' = <<>>
    BY <1>0, <1>3
  <2>. QED  BY <1>0, <1>15, <1>16, <1>17, <2>1, <2>2 DEF InvTypes
<1>19. InvOut'
  <2>1. PICK o : Packed(out, items, o, 1, array, copy)
    BY DEF InvOut
  <2>2. 1 .. Len(items) = {}
    BY <1>3
  <2>3. Packed(out, items, o, 1, array, copy')
    BY <2>1, <2>2 DEF Packed
  <2>. QED  BY <1>0, <2>3 DEF InvOut
<1>20. InvIn'
  <2>1. ASSUME NEW l \in k + 1 .. Len(sent)
        PROVE  \E e \in Seq(Byte) : /\ Encoded(sent[l], e, array, copy')
                                    /\ off[l] = off[l - 1] + Len(e)
                                    /\ At(Pointed(in', off[l - 1]), e)
    <3>1. l \in k .. Len(sent) /\ l \in 1 .. Len(sent) /\ l - 1 \in 0 .. Len(sent) /\ l # k
      BY <1>1, <1>2
    <3>2. PICK e \in Seq(Byte) : /\ Encoded(sent[l], e, array, copy)
                                 /\ off[l] = off[l - 1] + Len(e)
                                 /\ At(Pointed(in, off[l - 1]), e)
      BY <1>6, <3>1
    <3>3. Encoded(sent[l], e, array, copy')
      <4>1. CASE item.kind # "array"
        BY <1>0, <3>2, <4>1
      <4>2. CASE item.kind = "array"
        <5>1. sent[l].kind # "array"
          BY <1>2, <1>8, <3>1, <4>2 DEF Contents, item
        <5>. QED  BY <3>2, <5>1, EncodedOther
      <4>. QED  BY <4>1, <4>2
    <3>4. off[l - 1] \in Nat
      BY <1>6, <3>1
    <3>5. in.used <= in'.used /\ \A j \in 1 .. in.used : in'.mem[j] = in.mem[j]
      <4>1. in.used \in Nat
        BY <1>8 DEF Readable
      <4>. QED  BY <1>15, <4>1
    <3>6. At(Pointed(in', off[l - 1]), e)
      BY <1>8, <1>15, <3>2, <3>4, <3>5, AtKept
    <3>. QED  BY <3>2, <3>3, <3>6
  <2>2. Packed(in', sent, off, k + 1, array, copy')
    BY <1>6, <1>15, <2>1 DEF Packed
  <2>3. ~JoinRead'
    BY <1>0 DEF JoinRead, HasJoin
  <2>. QED  BY <1>0, <1>15, <1>16, <2>2, <2>3 DEF InvIn
<1>21. InvRead'
  <2>1. ASSUME NEW l \in 1 .. k PROVE RightlyRead(sent[l], read'[l])
    <3>1. CASE l = k
      <4>1. Item(item.kind, d.v).kind = item.kind
        BY DEF Item
      <4>2. item.kind # "failed"
        BY <1>7 DEF Encoded
      <4>3. item.kind = "array" => Item(item.kind, d.v) = item
        BY <1>11, <1>12
      <4>. QED  BY <1>10, <1>11, <1>14, <1>16, <3>1, <4>1, <4>2, <4>3 DEF RightlyRead, item
    <3>2. CASE l # k
      <4>1. l \in 1 .. k - 1 /\ l \in 1 .. Len(read)
        BY <1>2, <3>2
      <4>. QED  BY <1>16, <4>1 DEF InvRead
    <3>. QED  BY <3>1, <3>2
  <2>. QED  BY <1>0, <1>16, <2>1 DEF InvRead
<1>22. InvCopy'
  <2>1. CASE item.kind = "array"
    <3>1. copy' = array.data
      BY <1>0, <1>11, <2>1
    <3>. QED  BY <1>0, <3>1 DEF InvCopy, Agrees
  <2>2. CASE item.kind # "array"
    <3>1. ASSUME NoArray(sent, k + 1) PROVE NoArray(sent, k)
      <4>1. ASSUME NEW l \in k .. Len(sent) PROVE l = k \/ l \in k + 1 .. Len(sent)
        BY <1>1, <1>2
      <4>. QED  BY <2>2, <3>1, <4>1 DEF NoArray, item
    <3>2. copy' = copy /\ Len(read) + 1 = k
      BY <1>0, <1>2, <2>2
    <3>. QED  BY <1>0, <1>16, <3>1, <3>2 DEF InvCopy
  <2>. QED  BY <2>1, <2>2
<1>. QED  BY <1>18, <1>19, <1>20, <1>21, <1>22

LEMMA ReadJoinRequestInv ==
  ASSUME Inv, ReadJoinRequest PROVE Inv'
<1>. USE DEF Inv
<1>. DEFINE item == sent[1]
            j == item.v
            a == Answer(in)
<1>0. /\ in' = a.p /\ read' = <<Item("join", a.v)>>
      /\ UNCHANGED <<out, array, copy, items, sent, packets>>
      /\ Len(read) < Len(sent) /\ HasJoin(sent)
  BY DEF ReadJoinRequest
<1>1. /\ IsList(sent) /\ IsList(read) /\ Len(sent) \in Nat /\ Len(read) \in Nat /\ Contents(sent)
      /\ Readable(in) /\ Sized(in) /\ array \in ArrayType
  BY ListExact DEF InvTypes, Contents
<1>2. sent # <<>> /\ item.kind = "join"
  BY <1>0 DEF HasJoin
<1>3. Len(sent) = 1 /\ Len(read) = 0 /\ read = <<>>
  <2>1. Len(sent) > 0
    BY <1>0, <1>1
  <2>2. 1 \in 1 .. Len(sent)
    BY <1>1, <2>1
  <2>3. Len(sent) = 1
    BY <1>1, <1>2, <2>2 DEF Contents
  <2>. QED  BY <1>0, <1>1, <2>3, ListExact
<1>4. PICK off : Packed(in, sent, off, 1, array, copy) /\ in.pos = off[0]
  <2>1. ~JoinRead /\ Len(read) + 1 = 1
    BY <1>3 DEF JoinRead
  <2>. QED  BY <1>3, <2>1 DEF InvIn
<1>5. /\ off[0] = 0 /\ off[1] = in.used
      /\ \E bytes \in Seq(Byte) : /\ Encoded(item, bytes, array, copy) /\ off[1] = off[0] + Len(bytes)
                                  /\ At(Pointed(in, off[0]), bytes)
  <2>1. 1 \in 1 .. Len(sent) /\ 1 - 1 = 0
    BY <1>3
  <2>. QED  BY <1>3, <1>4, <2>1 DEF Packed
<1>6. PICK bytes \in Seq(Byte) : /\ Encoded(item, bytes, array, copy) /\ off[1] = off[0] + Len(bytes)
                                 /\ At(Pointed(in, off[0]), bytes)
  BY <1>5
<1>7. item = Item(item.kind, j) /\ j \in JoinValue /\ bytes = JoinRequest(j)
  BY <1>2, <1>6 DEF Encoded
<1>. HIDE DEF item, j
<1>8. IsJoinRequest(j)
  BY <1>7, ValuesAre
<1>9. in.pos = 0 /\ At(in, JoinRequest(j)) /\ in.used = Len(JoinRequest(j))
  <2>1. Len(bytes) \in Nat
    OBVIOUS
  <2>. QED  BY <1>1, <1>4, <1>5, <1>6, <1>7, <2>1, PointedExact
<1>10. /\ a.v = RightAnswer(j) /\ Readable(a.p) /\ a.p.mem = in.mem /\ a.p.used = in.used
       /\ Remaining(a.p) = 0 \/ a.v \in {"IGNORED", "WRONG_LIB_VERSION"}
  BY <1>1, <1>8, <1>9, JoinAnswer
<1>. HIDE DEF a
<1>11. /\ Len(read') = 1 /\ IsList(read') /\ read'[1] = Item("join", a.v) /\ read' # <<>>
  <2>1. <<Item("join", a.v)>> \in Seq({Item("join", a.v)})
    OBVIOUS
  <2>. QED  BY <1>0, <2>1 DEF IsList
<1>12. InvTypes'
  <2>1. items = <<>>
    BY <1>3 DEF InvTypes
  <2>2. Sized(in')
    BY <1>0, <1>1, <1>10 DEF Sized
  <2>3. Len(read') <= Len(sent')
    BY <1>0, <1>3, <1>11
  <2>. QED  BY <1>0, <1>10, <1>11, <2>1, <2>2, <2>3 DEF InvTypes
<1>13. InvOut'
  BY <1>0 DEF InvOut
<1>14. InvIn'
  <2>1. 2 .. Len(sent) = {}
    BY <1>3
  <2>2. Packed(in', sent, off, 2, array, copy)
    BY <1>0, <1>4, <1>10, <2>1 DEF Packed
  <2>3. JoinRead' /\ Len(read') + 1 = 2
    BY <1>0, <1>11 DEF JoinRead, HasJoin
  <2>4. Remaining(in') = 0 \/ read'[1].v \in {"IGNORED", "WRONG_LIB_VERSION"}
    BY <1>0, <1>10, <1>11 DEF Item
  <2>5. \E o : Packed(in', sent', o, Len(read') + 1, array', copy')
    BY <1>0, <2>2, <2>3
  <2>. QED  BY <2>3, <2>4, <2>5 DEF InvIn, Remaining
<1>15. InvRead'
  <2>1. RightlyRead(sent[1], Item("join", a.v))
    BY <1>2, <1>10 DEF RightlyRead, Item, item, j
  <2>2. \A l \in 1 .. 1 : l = 1
    OBVIOUS
  <2>. QED  BY <1>0, <1>11, <2>1, <2>2 DEF InvRead
<1>16. InvCopy'
  <2>1. ASSUME NEW l \in 1 .. Len(sent) PROVE sent[l].kind # "array"
    <3>1. l = 1
      BY <1>3
    <3>. QED  BY <1>2, <3>1 DEF item
  <2>2. Len(read) + 1 = 1
    BY <1>3
  <2>3. NoArray(sent, Len(read) + 1)
    BY <2>1, <2>2 DEF NoArray
  <2>. QED  BY <1>0, <2>3 DEF InvCopy
<1>. QED  BY <1>12, <1>13, <1>14, <1>15, <1>16

LEMMA NextInv ==
  ASSUME Inv, [Next]_vars PROVE Inv'
<1>1. CASE UNCHANGED vars
  BY <1>1 DEF vars, Inv, InvTypes, InvCopy, InvOut, InvIn, InvRead, JoinRead, HasJoin, Remaining
<1>. QED  BY <1>1, WriteValueInv, WriteJoinRequestInv, WriteArrayInv, SendInv, ReadInv,
             ReadJoinRequestInv DEF Next

\* The inductive invariant: what is in either packet is what was written and
\* is still to be read, piece by piece, and what was read is right.
THEOREM Invariance == Spec => []Inv
BY InitInv, NextInv, PTL DEF Spec

-----------------------------------------------------------------------------
(* The theorems *)

\* Both packets keep their shape, and the reader's array is one of bytes.
THEOREM TypeCorrect == Spec => []TypeOK
<1>1. Inv => TypeOK
  <2>. SUFFICES ASSUME Inv PROVE TypeOK
    OBVIOUS
  <2>1. IsPacket(out) /\ IsPacket(in)
    BY SizedExact DEF Inv, InvTypes
  <2>. QED  BY <2>1 DEF Inv, InvTypes, TypeOK, ArrayType
<1>. QED  BY <1>1, Invariance, PTL

\* Each decoder takes what its encoder has written, for every value, and none
\* runs into the end of the packet.
THEOREM ReadsToTheEnd == Spec => []ReadToTheEnd
<1>1. Inv => ReadToTheEnd
  <2>. SUFFICES ASSUME Inv PROVE ReadToTheEnd
    OBVIOUS
  <2>1. IsList(read) /\ DOMAIN read = 1 .. Len(read)
    BY ListExact DEF Inv, InvTypes
  <2>2. \A k \in DOMAIN read : read[k].kind # "failed"
    BY <2>1 DEF Inv, InvRead, RightlyRead
  <2>3. ASSUME Len(read) = Len(sent)
        PROVE  \/ Remaining(in) = 0
               \/ HasJoin(sent) /\ read[1].v \in {"IGNORED", "WRONG_LIB_VERSION"}
    <3>1. CASE JoinRead
      BY <3>1 DEF Inv, InvIn, JoinRead
    <3>2. CASE ~JoinRead
      <4>1. PICK off : off[Len(sent)] = in.used /\ in.pos = off[Len(read)]
        BY <3>2 DEF Inv, InvIn, Packed
      <4>2. in.used \in Nat
        BY DEF Inv, InvTypes, Readable
      <4>. QED  BY <2>3, <4>1, <4>2 DEF Remaining
    <3>. QED  BY <3>1, <3>2
  <2>. QED  BY <2>2, <2>3 DEF ReadToTheEnd
<1>. QED  BY <1>1, Invariance, PTL

\* What fits is read as it was written.
THEOREM RoundTrips == Spec => []RoundTrip
<1>1. Inv => RoundTrip
  <2>. SUFFICES ASSUME Inv PROVE RoundTrip
    OBVIOUS
  <2>1. DOMAIN read = 1 .. Len(read)
    BY ListExact DEF Inv, InvTypes
  <2>. QED  BY <2>1 DEF Inv, InvRead, RightlyRead, RoundTrip
<1>. QED  BY <1>1, Invariance, PTL

\* The reader's array is the writer's after each update.
THEOREM ArraysFollow == Spec => []ArrayFollows
<1>1. Inv => ArrayFollows
  <2>. SUFFICES ASSUME Inv PROVE ArrayFollows
    OBVIOUS
  <2>1. DOMAIN read = 1 .. Len(read)
    BY ListExact DEF Inv, InvTypes
  <2>. QED  BY <2>1 DEF Inv, InvRead, RightlyRead, ArrayFollows
<1>. QED  BY <1>1, Invariance, PTL

\* Every join request is given the answer that is right for it.
THEOREM JoinsAnswered == Spec => []JoinAnswered
<1>1. Inv => JoinAnswered
  <2>. SUFFICES ASSUME Inv PROVE JoinAnswered
    OBVIOUS
  <2>1. DOMAIN read = 1 .. Len(read)
    BY ListExact DEF Inv, InvTypes
  <2>2. \A k \in DOMAIN read : sent[k].kind = "join" => read[k].v = RightAnswer(sent[k].v)
    BY <2>1 DEF Inv, InvRead, RightlyRead
  <2>. QED  BY <2>2 DEF JoinAnswered, RightAnswer
<1>. QED  BY <1>1, Invariance, PTL

=============================================================================

----------------------------- MODULE ListProofs -----------------------------
(***************************************************************************)
(* Lemmas about the sequences that the modules share: numbers in ascending *)
(* order (Lists), sequences put one after the other (FlattenSeq), and the  *)
(* ids in use after acquire and release (IDAssigner), of players and of    *)
(* entities.                                                               *)
(*                                                                         *)
(* Where an induction is needed, a set of counterexamples is shown to have *)
(* no smallest element.                                                    *)
(***************************************************************************)
EXTENDS Lists, IDAssigner, SequenceTheorems, FiniteSetTheorems, WellFoundedInduction, TLAPS

\* A set of numbers that is not empty has a smallest one.
LEMMA Smallest ==
  ASSUME NEW T \in SUBSET Nat, T # {}
  PROVE  \E m \in T : \A n \in T : ~(n < m)
<1>1. PICK m \in T : \A n \in T : <<n, m>> \notin OpToRel(<, Nat)
  BY NatLessThanWellFounded, WFMin
<1>. QED  BY <1>1 DEF OpToRel

-----------------------------------------------------------------------------
(* Ascending *)

IsAscending(s, S) ==
  s \in [1 .. Cardinality(S) -> S] /\ \A i, j \in DOMAIN s : i < j => s[i] < s[j]

\* A finite set of numbers can be put in order, least number first.
LEMMA AscendingExists ==
  ASSUME NEW S \in SUBSET Nat, IsFiniteSet(S)
  PROVE  \E s : IsAscending(s, S)
<1>. DEFINE Bad == {k \in Nat : \E T \in SUBSET Nat :
                      IsFiniteSet(T) /\ Cardinality(T) = k /\ ~ \E s : IsAscending(s, T)}
<1>. SUFFICES ASSUME Bad # {} PROVE FALSE
  BY FS_CardinalityType
<1>1. PICK m \in Bad : \A k \in Bad : ~(k < m)
  BY Smallest
<1>2. PICK T \in SUBSET Nat : /\ IsFiniteSet(T) /\ Cardinality(T) = m
                              /\ ~ \E s : IsAscending(s, T)
  BY <1>1
<1>3. CASE T = {}
  <2>1. Cardinality(T) = 0
    BY <1>3, FS_EmptySet
  <2>2. IsAscending([i \in 1 .. 0 |-> 0], T)
    BY <2>1 DEF IsAscending
  <2>. QED  BY <1>2, <2>2
<1>4. CASE T # {}
  <2>1. PICK x \in T : \A y \in T : ~(y < x)
    BY <1>4, Smallest
  <2>. DEFINE U == T \ {x}
  <2>2. IsFiniteSet(U) /\ Cardinality(U) = m - 1
    BY <1>2, FS_RemoveElement
  <2>3. m \in Nat /\ m - 1 \in Nat /\ U \in SUBSET Nat
    BY <1>1, <2>2, FS_CardinalityType
  <2>4. m - 1 \notin Bad
    BY <1>1, <2>3
  <2>5. PICK s : IsAscending(s, U)
    BY <2>2, <2>3, <2>4
  <2>6. s \in [1 .. m - 1 -> U] /\ \A i, j \in 1 .. m - 1 : i < j => s[i] < s[j]
    BY <2>2, <2>5 DEF IsAscending
  <2>. DEFINE t == [i \in 1 .. m |-> IF i = 1 THEN x ELSE s[i - 1]]
  <2>7. t \in [1 .. m -> T]
    <3>1. \A i \in 1 .. m : i # 1 => i - 1 \in 1 .. m - 1
      BY <2>3
    <3>. QED  BY <2>6, <3>1
  <2>8. ASSUME NEW i \in 1 .. m, NEW j \in 1 .. m, i < j
        PROVE  t[i] < t[j]
    <3>1. j - 1 \in 1 .. m - 1 /\ j # 1
      BY <2>3, <2>8
    <3>2. CASE i = 1
      <4>1. t[j] = s[j - 1] /\ t[i] = x
        BY <3>1, <3>2
      <4>2. s[j - 1] \in U
        BY <2>6, <3>1
      <4>3. x < s[j - 1]
        <5>1. s[j - 1] \in T /\ s[j - 1] # x /\ s[j - 1] \in Nat /\ x \in Nat
          BY <4>2
        <5>2. ~(s[j - 1] < x)
          BY <2>1, <5>1
        <5>. QED  BY <5>1, <5>2
      <4>. QED  BY <4>1, <4>3
    <3>3. CASE i # 1
      <4>1. i - 1 \in 1 .. m - 1 /\ i - 1 < j - 1
        BY <2>3, <2>8, <3>3
      <4>2. s[i - 1] < s[j - 1]
        BY <2>6, <3>1, <4>1
      <4>3. t[i] = s[i - 1] /\ t[j] = s[j - 1]
        BY <3>1, <3>3
      <4>. QED  BY <4>2, <4>3
    <3>. QED  BY <3>2, <3>3
  <2>9. IsAscending(t, T)
    BY <1>2, <2>7, <2>8 DEF IsAscending
  <2>. QED  BY <1>2, <2>9
<1>. QED  BY <1>3, <1>4

\* The ascending sequence of a finite set of numbers has each of them, once.
LEMMA AscendingExact ==
  ASSUME NEW S \in SUBSET Nat, IsFiniteSet(S)
  PROVE  LET s == Ascending(S) IN
         /\ s \in Seq(S) /\ DOMAIN s = 1 .. Len(s) /\ Len(s) = Cardinality(S)
         /\ \A i, j \in DOMAIN s : (i < j => s[i] < s[j]) /\ (s[i] = s[j] => i = j)
         /\ \A x \in S : \E i \in DOMAIN s : s[i] = x
<1>. DEFINE n == Cardinality(S)
            s == Ascending(S)
<1>1. n \in Nat
  BY FS_CardinalityType
<1>2. IsAscending(s, S)
  BY AscendingExists DEF IsAscending, Ascending
<1>. HIDE DEF s
<1>3. /\ s \in [1 .. n -> S]
      /\ \A i, j \in 1 .. n : i < j => s[i] < s[j]
  BY <1>2 DEF IsAscending
<1>4. \A i, j \in 1 .. n : s[i] = s[j] => i = j
  <2>. TAKE i, j \in 1 .. n
  <2>. HAVE s[i] = s[j]
  <2>1. ~(i < j) /\ ~(j < i)
    <3>1. s[i] \in Nat /\ s[j] \in Nat
      BY <1>3
    <3>. QED  BY <1>3, <3>1
  <2>. QED  BY <1>1, <2>1
<1>5. s \in Injection(1 .. n, S)
  BY <1>3, <1>4 DEF Injection, IsInjective
<1>6. IsFiniteSet(1 .. n) /\ Cardinality(1 .. n) = n
  BY <1>1, FS_Interval
<1>7. s \in Surjection(1 .. n, S)
  BY <1>5, <1>6, FS_Injection
<1>8. \A x \in S : \E i \in 1 .. n : s[i] = x
  BY <1>7 DEF Surjection
<1>9. s \in Seq(S) /\ Len(s) = n
  BY <1>1, <1>3
<1>. QED  BY <1>3, <1>4, <1>8, <1>9 DEF s

-----------------------------------------------------------------------------
(* FlattenSeq *)

Joined(s, t) == s \o t

\* f joins the first sequences of seqs, one after the other.
Joins(f, seqs) ==
  f = [i \in 1 .. Len(seqs) |-> IF i = 1 THEN seqs[i] ELSE Joined(f[i - 1], seqs[i])]

\* The recursion of FlattenSeq defines a function.
LEMMA JoinsExists ==
  ASSUME NEW S, NEW seqs \in Seq(S)
  PROVE  \E f : Joins(f, seqs)
<1>. DEFINE n == Len(seqs)
            Upto(f, k) == f = [i \in 1 .. k |-> IF i = 1 THEN seqs[i] ELSE Joined(f[i - 1], seqs[i])]
            Bad == {k \in Nat : ~ \E f : Upto(f, k)}
<1>1. n \in Nat
  OBVIOUS
<1>2. Bad = {}
  <2>. SUFFICES ASSUME Bad # {} PROVE FALSE
    OBVIOUS
  <2>1. PICK m \in Bad : \A k \in Bad : ~(k < m)
    BY Smallest
  <2>2. m # 0
    <3>. DEFINE g == [i \in 1 .. 0 |-> 0]
    <3>1. g = [i \in 1 .. 0 |-> IF i = 1 THEN seqs[i] ELSE Joined(g[i - 1], seqs[i])]
      OBVIOUS
    <3>2. Upto(g, 0)
      BY <3>1
    <3>. QED  BY <2>1, <3>2
  <2>3. m \in Nat /\ m - 1 \in Nat /\ m - 1 < m
    BY <2>1, <2>2
  <2>4. PICK f : Upto(f, m - 1)
    BY <2>1, <2>3
  <2>5. \A i \in 1 .. m - 1 : f[i] = IF i = 1 THEN seqs[i] ELSE Joined(f[i - 1], seqs[i])
    BY <2>4
  <2>. DEFINE last == IF m = 1 THEN seqs[m] ELSE Joined(f[m - 1], seqs[m])
              g == [i \in 1 .. m |-> IF i = m THEN last ELSE f[i]]
  <2>6. g[m] = last /\ \A i \in 1 .. m - 1 : g[i] = f[i]
    BY <2>3
  <2>7. DOMAIN g = 1 .. m /\ g = [i \in 1 .. m |-> g[i]]
    OBVIOUS
  <2>8. ASSUME NEW i \in 1 .. m
        PROVE  g[i] = IF i = 1 THEN seqs[i] ELSE Joined(g[i - 1], seqs[i])
    <3>. HIDE DEF g
    <3>1. i # 1 => i - 1 \in 1 .. m - 1
      BY <2>3
    <3>2. CASE i = m
      BY <2>6, <3>1, <3>2
    <3>3. CASE i # m
      <4>1. i \in 1 .. m - 1
        BY <2>3, <3>3
      <4>. QED  BY <2>5, <2>6, <3>1, <4>1
    <3>. QED  BY <3>2, <3>3
  <2>9. Upto(g, m)
    <3>. HIDE DEF g
    <3>. QED  BY <2>7, <2>8
  <2>. QED  BY <2>1, <2>9
<1>. QED  BY <1>1, <1>2 DEF Joins

\* FlattenSeq by its last sequence.
LEMMA FlattenStep ==
  ASSUME NEW S, NEW seqs \in Seq(Seq(S)), NEW t \in Seq(Seq(S)),
         Len(seqs) = Len(t) + 1, \A i \in 1 .. Len(t) : t[i] = seqs[i]
  PROVE  FlattenSeq(seqs) = FlattenSeq(t) \o seqs[Len(seqs)]
<1>. DEFINE n == Len(seqs)
            f == CHOOSE f : Joins(f, seqs)
            g == CHOOSE g : Joins(g, t)
<1>1. Joins(f, seqs) /\ Joins(g, t)
  BY JoinsExists
<1>2. n \in Nat \ {0} /\ Len(t) \in Nat /\ Len(t) = n - 1
  OBVIOUS
<1>3. FlattenSeq(seqs) = f[n] /\ FlattenSeq(t) = IF n = 1 THEN t ELSE g[n - 1]
  BY <1>2 DEF FlattenSeq, Joins, Joined
<1>. HIDE DEF f, g
<1>4. \A i \in 1 .. n : f[i] = IF i = 1 THEN seqs[i] ELSE Joined(f[i - 1], seqs[i])
  BY <1>1 DEF Joins
<1>5. CASE n = 1
  <2>1. f[1] = seqs[1]
    BY <1>4, <1>5
  <2>2. t = <<>> /\ seqs[1] \in Seq(S)
    <3>1. Len(t) = 0
      BY ONLY <1>2, <1>5
    <3>2. 1 \in 1 .. Len(seqs)
      BY <1>5
    <3>3. seqs[1] \in Seq(S)
      BY <3>2, ElementOfSeq
    <3>. QED  BY <3>1, <3>3
  <2>3. <<>> \o seqs[1] = seqs[1]
    BY <2>2, ConcatEmptySeq
  <2>. QED  BY <1>3, <1>5, <2>1, <2>2, <2>3
<1>6. CASE n # 1
  <2>1. f[n - 1] = g[n - 1]
    <3>1. \A i \in 1 .. n - 1 : seqs[i] = t[i]
      BY <1>2
    <3>2. n - 1 \in Nat /\ n - 1 <= Len(seqs) /\ n - 1 <= Len(t) /\ n - 1 \in 1 .. n - 1
          /\ Len(seqs) \in Nat
      BY <1>2, <1>6
    <3>. DEFINE Bad == {i \in 1 .. n - 1 : f[i] # g[i]}
    <3>3. Bad = {}
      <4>. SUFFICES ASSUME Bad # {} PROVE FALSE
        OBVIOUS
      <4>1. PICK m \in Bad : \A k \in Bad : ~(k < m)
        <5>1. Bad \in SUBSET Nat
          BY <1>2
        <5>. QED  BY <5>1, Smallest
      <4>2. m \in 1 .. n - 1 /\ m \in 1 .. n /\ f[m] # g[m]
        BY <1>2, <4>1
      <4>3. g[m] = IF m = 1 THEN seqs[m] ELSE Joined(g[m - 1], seqs[m])
        <5>1. g[m] = IF m = 1 THEN t[m] ELSE Joined(g[m - 1], t[m])
          BY <1>1, <1>2, <4>2 DEF Joins
        <5>. QED  BY <3>1, <4>2, <5>1
      <4>4. m # 1
        BY <1>4, <4>2, <4>3
      <4>5. m - 1 \in 1 .. n - 1 /\ m - 1 < m
        BY <1>2, <4>2, <4>4
      <4>6. f[m - 1] = g[m - 1]
        BY <4>1, <4>5
      <4>. QED  BY <1>4, <4>2, <4>3, <4>4, <4>6
    <3>. QED  BY <3>2, <3>3
  <2>2. f[n] = Joined(f[n - 1], seqs[n])
    <3>1. n \in 1 .. n
      BY ONLY <1>2
    <3>. HIDE DEF n
    <3>2. f[n] = IF n = 1 THEN seqs[n] ELSE Joined(f[n - 1], seqs[n])
      BY <1>4, <3>1, Zenon
    <3>. QED  BY <1>6, <3>2, Zenon
  <2>. QED  BY <1>3, <1>6, <2>1, <2>2 DEF Joined
<1>. QED  BY <1>5, <1>6

\* Element p of flat is element j[p] of sequence w[p]: each in its order, none
\* twice, none left out.
Places(flat, seqs, w, j) ==
  LET places == 1 .. Len(flat) IN
  /\ \A p \in places : /\ w[p] \in 1 .. Len(seqs) /\ j[p] \in 1 .. Len(seqs[w[p]])
                       /\ flat[p] = seqs[w[p]][j[p]]
  /\ \A p, q \in places : p < q => w[p] < w[q] \/ (w[p] = w[q] /\ j[p] < j[q])
  /\ \A k \in 1 .. Len(seqs) : \A m \in 1 .. Len(seqs[k]) :
       \E p \in places : w[p] = k /\ j[p] = m

\* FlattenSeq puts the elements of its sequences one after the other.
LEMMA FlattenPlaces ==
  ASSUME NEW S, NEW seqs \in Seq(Seq(S))
  PROVE  /\ FlattenSeq(seqs) \in Seq(S)
         /\ \E w, j : Places(FlattenSeq(seqs), seqs, w, j)
<1>. DEFINE Right(s) == /\ FlattenSeq(s) \in Seq(S)
                        /\ \E w, j : Places(FlattenSeq(s), s, w, j)
            Bad == {n \in Nat : \E s \in Seq(Seq(S)) : Len(s) = n /\ ~Right(s)}
<1>. SUFFICES ASSUME Bad # {} PROVE FALSE
  <2>. SUFFICES ASSUME ~Right(seqs) PROVE Bad # {}
    OBVIOUS
  <2>1. Len(seqs) \in Nat
    OBVIOUS
  <2>. QED  BY <2>1
<1>1. PICK n \in Bad : \A k \in Bad : ~(k < n)
  BY Smallest
<1>2. PICK s \in Seq(Seq(S)) : Len(s) = n /\ ~Right(s)
  BY <1>1
<1>3. CASE n = 0
  <2>1. s = <<>>
    BY <1>2, <1>3
  <2>2. FlattenSeq(s) = <<>>
    BY <2>1 DEF FlattenSeq
  <2>3. Places(<<>>, s, <<>>, <<>>)
    BY <2>1 DEF Places
  <2>. QED  BY <1>2, <2>2, <2>3
<1>4. CASE n # 0
  <2>. DEFINE t == SubSeq(s, 1, n - 1)
              last == s[n]
  <2>1. /\ n \in Nat /\ n - 1 \in Nat /\ n - 1 < n /\ n \in 1 .. n
        /\ \A k \in 1 .. n : k # n => k \in 1 .. n - 1
    BY <1>1, <1>4
  <2>2. /\ t \in Seq(Seq(S)) /\ Len(t) = n - 1
        /\ \A i \in 1 .. n - 1 : t[i] = s[i]
    BY <1>2, <2>1
  <2>3. last \in Seq(S)
    BY <1>2, <2>1
  <2>. HIDE DEF t, last
  <2>4. Right(t)
    BY <1>1, <2>1, <2>2
  <2>5. FlattenSeq(s) = FlattenSeq(t) \o last
    <3>1. Len(s) = Len(t) + 1 /\ \A i \in 1 .. Len(t) : t[i] = s[i]
      BY <1>2, <2>1, <2>2
    <3>2. FlattenSeq(s) = FlattenSeq(t) \o s[Len(s)]
      BY <2>2, <3>1, FlattenStep
    <3>. QED  BY <1>2, <3>2 DEF last
  <2>. DEFINE G == FlattenSeq(t)
              F == FlattenSeq(s)
              g == Len(G)
  <2>6. PICK w, j : Places(G, t, w, j)
    BY <2>4
  <2>7. /\ F \in Seq(S) /\ g \in Nat /\ Len(last) \in Nat /\ Len(F) = g + Len(last)
        /\ \A p \in 1 .. Len(F) : F[p] = IF p <= g THEN G[p] ELSE last[p - g]
    BY <2>3, <2>4, <2>5
  <2>. DEFINE v == [p \in 1 .. Len(F) |-> IF p <= g THEN w[p] ELSE n]
              i == [p \in 1 .. Len(F) |-> IF p <= g THEN j[p] ELSE p - g]
  <2>. HIDE DEF F, G, g
  <2>8. /\ \A p \in 1 .. g : /\ w[p] \in 1 .. n - 1 /\ j[p] \in 1 .. Len(t[w[p]])
                            /\ G[p] = t[w[p]][j[p]]
        /\ \A p, q \in 1 .. g : p < q => w[p] < w[q] \/ (w[p] = w[q] /\ j[p] < j[q])
        /\ \A k \in 1 .. n - 1 : \A m \in 1 .. Len(t[k]) :
             \E p \in 1 .. g : w[p] = k /\ j[p] = m
    BY <2>2, <2>6 DEF Places, g
  <2>9. /\ \A p \in 1 .. Len(F) : p <= g => p \in 1 .. g /\ v[p] = w[p] /\ i[p] = j[p]
        /\ \A p \in 1 .. Len(F) : ~(p <= g) => v[p] = n /\ i[p] = p - g
                                               /\ p - g \in 1 .. Len(last)
    BY <2>7
  <2>. HIDE DEF v, i
  <2>10. ASSUME NEW p \in 1 .. Len(F)
         PROVE  /\ v[p] \in 1 .. n /\ i[p] \in 1 .. Len(s[v[p]])
                /\ F[p] = s[v[p]][i[p]]
    <3>1. CASE p <= g
      <4>1. w[p] \in 1 .. n - 1 /\ t[w[p]] = s[w[p]]
        BY <2>2, <2>8, <2>9, <3>1
      <4>2. w[p] \in 1 .. n
        <5>. DEFINE x == w[p]
        <5>1. x \in 1 .. n - 1 /\ n \in Nat
          BY <1>2, <2>1, <4>1
        <5>. HIDE DEF x
        <5>2. x \in 1 .. n
          BY <5>1
        <5>. QED  BY <5>2 DEF x
      <4>3. v[p] = w[p] /\ i[p] = j[p] /\ p \in 1 .. g
        BY <2>9, <3>1
      <4>4. j[p] \in 1 .. Len(t[w[p]]) /\ G[p] = t[w[p]][j[p]]
        BY <2>8, <4>3
      <4>5. F[p] = G[p]
        BY <2>7, <3>1
      <4>. QED  BY <4>1, <4>2, <4>3, <4>4, <4>5
    <3>2. CASE ~(p <= g)
      BY <2>1, <2>7, <2>9, <3>2 DEF last
    <3>. QED  BY <3>1, <3>2
  <2>11. ASSUME NEW p \in 1 .. Len(F), NEW q \in 1 .. Len(F), p < q
         PROVE  v[p] < v[q] \/ (v[p] = v[q] /\ i[p] < i[q])
    <3>1. CASE q <= g
      <4>1. p <= g
        BY <2>7, <2>11, <3>1
      <4>2. /\ p \in 1 .. g /\ v[p] = w[p] /\ i[p] = j[p]
            /\ q \in 1 .. g /\ v[q] = w[q] /\ i[q] = j[q]
        BY <2>9, <3>1, <4>1
      <4>3. w[p] < w[q] \/ (w[p] = w[q] /\ j[p] < j[q])
        BY <2>8, <2>11, <4>2
      <4>. QED  BY <4>2, <4>3
    <3>2. CASE ~(q <= g) /\ p <= g
      <4>1. w[p] < n
        BY <2>1, <2>8, <2>9, <3>2
      <4>. QED  BY <2>9, <3>2, <4>1
    <3>3. CASE ~(q <= g) /\ ~(p <= g)
      <4>1. p - g < q - g
        BY <2>7, <2>11
      <4>. QED  BY <2>9, <3>3, <4>1
    <3>. QED  BY <3>1, <3>2, <3>3
  <2>12. ASSUME NEW k \in 1 .. n, NEW m \in 1 .. Len(s[k])
         PROVE  \E p \in 1 .. Len(F) : v[p] = k /\ i[p] = m
    <3>1. CASE k = n
      <4>1. m \in 1 .. Len(last)
        BY <3>1 DEF last
      <4>2. g + m \in 1 .. Len(F) /\ ~(g + m <= g) /\ (g + m) - g = m
        BY <2>7, <4>1
      <4>. QED  BY <2>9, <3>1, <4>2
    <3>2. CASE k # n
      <4>1. k \in 1 .. n - 1 /\ t[k] = s[k]
        BY <2>1, <2>2, <3>2
      <4>2. PICK p \in 1 .. g : w[p] = k /\ j[p] = m
        BY <2>8, <4>1
      <4>3. p \in 1 .. Len(F) /\ p <= g
        BY <2>7
      <4>. QED  BY <2>9, <4>2, <4>3
    <3>. QED  BY <3>1, <3>2
  <2>13. Places(F, s, v, i)
    BY <1>2, <2>10, <2>11, <2>12 DEF Places
  <2>. QED  BY <1>2, <2>7, <2>13 DEF F
<1>. QED  BY <1>3, <1>4

\* Sequence k of seqs takes the places of flat after off[k].
Offsets(flat, seqs, off) ==
  /\ off[1] = 0 /\ Len(flat) = off[Len(seqs) + 1]
  /\ \A k \in 1 .. Len(seqs) + 1 : off[k] \in Nat
  /\ \A k \in 1 .. Len(seqs) :
       /\ off[k + 1] = off[k] + Len(seqs[k])
       /\ \A m \in 1 .. Len(seqs[k]) :
            off[k] + m \in DOMAIN flat /\ flat[off[k] + m] = seqs[k][m]

\* Where FlattenSeq puts the elements of its sequences.
LEMMA FlattenOffsets ==
  ASSUME NEW S, NEW seqs \in Seq(Seq(S))
  PROVE  /\ FlattenSeq(seqs) \in Seq(S)
         /\ \E off : Offsets(FlattenSeq(seqs), seqs, off)
<1>. DEFINE Right(s) == \E off : Offsets(FlattenSeq(s), s, off)
            Bad == {n \in Nat : \E s \in Seq(Seq(S)) : Len(s) = n /\ ~Right(s)}
<1>. SUFFICES ASSUME Bad # {} PROVE FALSE
  <2>. SUFFICES ASSUME ~Right(seqs) PROVE Bad # {}
    BY FlattenPlaces
  <2>1. Len(seqs) \in Nat
    OBVIOUS
  <2>. QED  BY <2>1
<1>1. PICK n \in Bad : \A k \in Bad : ~(k < n)
  BY Smallest
<1>2. PICK s \in Seq(Seq(S)) : Len(s) = n /\ ~Right(s)
  BY <1>1
<1>3. CASE n = 0
  <2>1. s = <<>> /\ Len(s) = 0
    BY <1>2, <1>3
  <2>2. FlattenSeq(s) = <<>>
    BY <2>1 DEF FlattenSeq
  <2>. DEFINE off == [k \in 1 .. 1 |-> 0]
  <2>3. off[1] = 0 /\ off[0 + 1] = 0 /\ Len(<<>>) = 0
    OBVIOUS
  <2>. HIDE DEF off
  <2>4. Offsets(<<>>, s, off)
    BY <2>1, <2>3 DEF Offsets
  <2>. QED  BY <1>2, <2>2, <2>4
<1>4. CASE n # 0
  <2>. DEFINE t == SubSeq(s, 1, n - 1)
              last == s[n]
  <2>1. /\ n \in Nat /\ n - 1 \in Nat /\ n - 1 < n /\ n \in 1 .. n /\ (n - 1) + 1 = n
        /\ \A k \in 1 .. n : k # n => k \in 1 .. n - 1
        /\ \A k \in 1 .. n - 1 : k + 1 \in 1 .. n
    BY <1>1, <1>4
  <2>2. /\ t \in Seq(Seq(S)) /\ Len(t) = n - 1
        /\ \A i \in 1 .. n - 1 : t[i] = s[i]
    BY <1>2, <2>1
  <2>3. last \in Seq(S)
    BY <1>2, <2>1
  <2>. HIDE DEF t, last
  <2>4. Right(t) /\ FlattenSeq(t) \in Seq(S)
    BY <1>1, <2>1, <2>2, FlattenPlaces
  <2>5. FlattenSeq(s) = FlattenSeq(t) \o last
    <3>1. Len(s) = Len(t) + 1 /\ \A i \in 1 .. Len(t) : t[i] = s[i]
      BY <1>2, <2>1, <2>2
    <3>2. FlattenSeq(s) = FlattenSeq(t) \o s[Len(s)]
      BY <2>2, <3>1, FlattenStep
    <3>. QED  BY <1>2, <3>2 DEF last
  <2>. DEFINE G == FlattenSeq(t)
              F == FlattenSeq(s)
              g == Len(G)
  <2>6. PICK old : Offsets(G, t, old)
    BY <2>4
  <2>7. /\ F \in Seq(S) /\ g \in Nat /\ Len(last) \in Nat /\ Len(F) = g + Len(last)
        /\ \A p \in 1 .. g : F[p] = G[p]
        /\ \A m \in 1 .. Len(last) : F[g + m] = last[m]
    BY <2>3, <2>4, <2>5
  <2>8. /\ old[1] = 0 /\ g = old[n]
        /\ \A k \in 1 .. n : old[k] \in Nat
        /\ \A k \in 1 .. n - 1 :
             /\ old[k + 1] = old[k] + Len(t[k])
             /\ \A m \in 1 .. Len(t[k]) : G[old[k] + m] = t[k][m]
    BY <2>1, <2>2, <2>6 DEF Offsets, g
  <2>. DEFINE off == [k \in 1 .. n + 1 |-> IF k = n + 1 THEN g + Len(last) ELSE old[k]]
  <2>. HIDE DEF F, G, g
  <2>9. off[n + 1] = g + Len(last) /\ \A k \in 1 .. n : off[k] = old[k]
    BY <2>1
  <2>. HIDE DEF off
  <2>10. \A k \in 1 .. n + 1 : off[k] \in Nat
    <3>. TAKE k \in 1 .. n + 1
    <3>1. k = n + 1 \/ k \in 1 .. n
      BY <2>1
    <3>2. g + Len(last) \in Nat
      BY <2>7
    <3>. QED  BY <2>8, <2>9, <3>1, <3>2
  <2>11. ASSUME NEW k \in 1 .. n
         PROVE  /\ off[k + 1] = off[k] + Len(s[k])
                /\ \A m \in 1 .. Len(s[k]) : off[k] + m \in DOMAIN F /\ F[off[k] + m] = s[k][m]
    <3>1. CASE k = n
      <4>1. \A m \in 1 .. Len(last) : g + m \in DOMAIN F
        <5>1. DOMAIN F = 1 .. Len(F)
          BY <2>7
        <5>. QED  BY <2>7, <5>1
      <4>. QED  BY <2>7, <2>8, <2>9, <3>1, <4>1 DEF last
    <3>2. CASE k # n
      <4>1. k \in 1 .. n - 1 /\ k + 1 \in 1 .. n /\ t[k] = s[k]
        BY <2>1, <2>2, <3>2
      <4>2. /\ off[k + 1] = off[k] + Len(t[k])
            /\ \A m \in 1 .. Len(t[k]) : G[off[k] + m] = t[k][m]
        BY <2>8, <2>9, <4>1
      <4>3. off[k + 1] <= g
        <5>. DEFINE Beyond == {i \in Nat : i <= n - (k + 1) /\ ~(old[n - i] <= g)}
        <5>1. Beyond = {}
          <6>. SUFFICES ASSUME Beyond # {} PROVE FALSE
            OBVIOUS
          <6>1. PICK i \in Beyond : \A h \in Beyond : ~(h < i)
            BY Smallest
          <6>2. i # 0
            BY <2>1, <2>7, <2>8, <6>1, SMTT(60)
          <6>3. i - 1 \in Nat /\ i - 1 < i /\ i - 1 <= n - (k + 1) /\ n - (i - 1) = (n - i) + 1
            BY <2>1, <6>1, <6>2
          <6>4. old[(n - i) + 1] <= g
            BY <6>1, <6>3
          <6>5. n - i \in 1 .. n - 1 /\ n - i \in 1 .. n
            BY <2>1, <4>1, <6>1, <6>2
          <6>6. old[(n - i) + 1] = old[n - i] + Len(t[n - i]) /\ old[n - i] \in Nat
            BY <2>8, <6>5
          <6>7. Len(t[n - i]) \in Nat
            <7>1. t[n - i] \in Seq(S)
              BY <2>2, <6>5
            <7>. QED  BY <7>1
          <6>8. ~(old[n - i] <= g) /\ g \in Nat
            BY <2>7, <6>1
          <6>. QED  BY ONLY <6>4, <6>6, <6>7, <6>8
        <5>2. n - (k + 1) \in Nat /\ n - (n - (k + 1)) = k + 1
          BY <2>1, <4>1
        <5>3. n - (k + 1) <= n - (k + 1)
          BY ONLY <5>2
        <5>4. old[k + 1] <= g
          BY <5>1, <5>2, <5>3
        <5>. QED  BY <2>9, <4>1, <5>4
      <4>4. ASSUME NEW m \in 1 .. Len(t[k])
            PROVE  off[k] + m \in DOMAIN F /\ F[off[k] + m] = t[k][m]
        <5>1. Len(t[k]) \in Nat /\ off[k] \in Nat
          <6>1. t[k] \in Seq(S)
            BY <2>2, <4>1, SMTT(60)
          <6>2. Len(t[k]) \in Nat
            BY ONLY <6>1
          <6>. QED  BY <2>8, <2>9, <6>2
        <5>2. off[k] + m \in 1 .. g
          <6>1. m \in 1 .. Len(t[k])
            BY <4>4
          <6>2. off[k] + Len(t[k]) <= g /\ g \in Nat
            BY <2>7, <4>2, <4>3
          <6>. QED  BY ONLY <5>1, <6>1, <6>2, SMTT(60)
        <5>3. off[k] + m \in DOMAIN F
          <6>1. DOMAIN F = 1 .. Len(F)
            BY <2>7
          <6>. QED  BY <2>7, <5>2, <6>1, SMTT(60)
        <5>. QED  BY <2>7, <4>2, <5>2, <5>3
      <4>. QED  BY <4>1, <4>2, <4>4
    <3>. QED  BY <3>1, <3>2
  <2>12. Offsets(F, s, off)
    <3>1. off[1] = 0 /\ Len(F) = off[n + 1]
      BY <2>1, <2>7, <2>8, <2>9
    <3>. QED  BY <1>2, <2>10, <2>11, <3>1 DEF Offsets
  <2>. QED  BY <1>2, <2>12 DEF F
<1>. QED  BY <1>3, <1>4
-----------------------------------------------------------------------------
(* IDAssigner *)

\* A fresh assigner has handed out nothing.
LEMMA NewIdsExact == IsIdAssigner(NewIds) /\ HoldsExactly(NewIds, {})
<1>1. NewIds.reusable = <<>> /\ NewIds.max = 0 /\ NewIds \in [reusable : Seq(Nat), max : Nat]
  BY DEF NewIds
<1>2. Range(NewIds.reusable) = {} /\ IsInjective(NewIds.reusable)
  BY <1>1 DEF Range, IsInjective
<1>. QED  BY <1>1, <1>2 DEF IsIdAssigner, HoldsExactly

\* acquire returns an id that is not in use, and takes that one only.
LEMMA AcquireExact ==
  ASSUME NEW ids, IsIdAssigner(ids), NEW held, HoldsExactly(ids, held)
  PROVE  /\ NextId(ids) \in Nat /\ NextId(ids) \notin held
         /\ IsIdAssigner(Acquire(ids))
         /\ HoldsExactly(Acquire(ids), held \cup {NextId(ids)})
<1>. DEFINE r == ids.reusable
<1>1. /\ ids \in [reusable : Seq(Nat), max : Nat] /\ r \in Seq(Nat) /\ ids.max \in Nat
      /\ held \cap Range(r) = {} /\ held \cup Range(r) = 0 .. ids.max - 1
      /\ IsInjective(r)
  BY DEF IsIdAssigner, HoldsExactly
<1>2. CASE r = <<>>
  <2>1. Range(r) = {} /\ NextId(ids) = ids.max /\ Acquire(ids) = [ids EXCEPT !.max = @ + 1]
    BY <1>2 DEF Range, NextId, Acquire
  <2>2. Acquire(ids) \in [reusable : Seq(Nat), max : Nat]
    BY <1>1, <2>1
  <2>3. Acquire(ids).reusable = r /\ Acquire(ids).max = ids.max + 1
    BY <1>1, <2>1
  <2>4. held = 0 .. ids.max - 1 /\ held \cup {ids.max} = 0 .. (ids.max + 1) - 1
    BY <1>1, <2>1
  <2>. QED  BY <1>1, <2>1, <2>2, <2>3, <2>4 DEF IsIdAssigner, HoldsExactly
<1>3. CASE r # <<>>
  <2>. DEFINE n == Len(r)
              rest == [i \in 1 .. n - 1 |-> r[i]]
  <2>1. n \in Nat \ {0} /\ DOMAIN r = 1 .. n /\ \A i \in 1 .. n : r[i] \in Nat
    BY <1>1, <1>3
  <2>2. Front(r) = rest /\ rest \in Seq(Nat) /\ DOMAIN rest = 1 .. n - 1
    BY <1>1, <2>1 DEF Front
  <2>3. NextId(ids) = r[n] /\ Acquire(ids) = [ids EXCEPT !.reusable = rest]
    BY <1>1, <1>3, <2>2 DEF NextId, Acquire, Last
  <2>4. Acquire(ids).reusable = rest /\ Acquire(ids).max = ids.max
        /\ Acquire(ids) \in [reusable : Seq(Nat), max : Nat]
    BY <1>1, <2>2, <2>3
  <2>5. Range(r) = {r[i] : i \in 1 .. n} /\ Range(rest) = {r[i] : i \in 1 .. n - 1}
    BY <2>1, <2>2 DEF Range
  <2>6. \A i, j \in 1 .. n : r[i] = r[j] => i = j
    BY <1>1, <2>1 DEF IsInjective
  <2>7. Range(r) = Range(rest) \cup {r[n]} /\ r[n] \notin Range(rest)
    <3>1. \A i \in 1 .. n : i = n \/ i \in 1 .. n - 1
      BY <2>1
    <3>2. \A i \in 1 .. n - 1 : i \in 1 .. n /\ i # n
      BY <2>1
    <3>3. n \in 1 .. n
      BY <2>1
    <3>. HIDE DEF n, rest
    <3>. QED  BY <2>5, <2>6, <3>1, <3>2, <3>3
  <2>8. IsInjective(rest)
    BY <2>1, <2>2, <2>6 DEF IsInjective
  <2>9. r[n] \in Nat
    BY <2>1
  <2>. HIDE DEF rest, n, r
  <2>. QED  BY <1>1, <2>3, <2>4, <2>7, <2>8, <2>9 DEF IsIdAssigner, HoldsExactly
<1>. QED  BY <1>2, <1>3

\* release gives back the id and no other: it is put among the ids that can be
\* handed out again, which are otherwise the same and still told apart.
LEMMA ReleaseExact ==
  ASSUME NEW ids, IsIdAssigner(ids), NEW held, HoldsExactly(ids, held), NEW id \in held
  PROVE  IsIdAssigner(Release(ids, id)) /\ HoldsExactly(Release(ids, id), held \ {id})
<1>. DEFINE r == ids.reusable
            n == Len(r)
            big == {i \in DOMAIN r : r[i] >= id}
            k == Cardinality(big)
            s == InsertAt(r, k + 1, id)
<1>1. /\ ids \in [reusable : Seq(Nat), max : Nat] /\ r \in Seq(Nat) /\ ids.max \in Nat
      /\ held \cap Range(r) = {} /\ held \cup Range(r) = 0 .. ids.max - 1
      /\ IsInjective(r)
  BY DEF IsIdAssigner, HoldsExactly
<1>2. id \in Nat /\ id \notin Range(r) /\ n \in Nat /\ DOMAIN r = 1 .. n
  BY <1>1
<1>3. k \in 0 .. n
  <2>1. IsFiniteSet(1 .. n) /\ Cardinality(1 .. n) = n
    BY <1>2, FS_Interval
  <2>2. big \subseteq 1 .. n
    BY <1>2
  <2>3. k \in Nat /\ k <= n
    BY <2>1, <2>2, FS_Subset, FS_CardinalityType
  <2>. QED  BY <1>2, <2>3
<1>4. Release(ids, id) = [ids EXCEPT !.reusable = s]
  BY DEF Release
<1>. HIDE DEF k
<1>5. /\ s \in Seq(Nat) /\ Len(s) = n + 1
      /\ \A i \in 1 .. n + 1 :
           s[i] = IF i <= k THEN r[i] ELSE IF i = k + 1 THEN id ELSE r[i - 1]
  <2>. DEFINE low == SubSeq(r, 1, k)
              high == SubSeq(r, k + 1, n)
  <2>1. low \in Seq(Nat) /\ Len(low) = k /\ \A i \in 1 .. k : low[i] = r[i]
    BY <1>1, <1>2, <1>3
  <2>2. high \in Seq(Nat) /\ Len(high) = n - k /\ \A i \in 1 .. n - k : high[i] = r[k + i]
    BY <1>1, <1>2, <1>3
  <2>3. s = low \o <<id>> \o high
    <3>1. s = SubSeq(r, 1, (k + 1) - 1) \o <<id>> \o SubSeq(r, k + 1, Len(r))
      BY DEF InsertAt
    <3>2. (k + 1) - 1 = k
      BY <1>2, <1>3
    <3>. QED  BY <3>1, <3>2
  <2>. HIDE DEF low, high, s, n, r
  <2>4. <<id>> \in Seq(Nat) /\ Len(<<id>>) = 1 /\ <<id>>[1] = id
    BY <1>2
  <2>5. /\ low \o <<id>> \in Seq(Nat) /\ Len(low \o <<id>>) = k + 1
        /\ \A i \in 1 .. k + 1 : (low \o <<id>>)[i] = IF i <= k THEN r[i] ELSE id
    BY <1>2, <1>3, <2>1, <2>4
  <2>6. s \in Seq(Nat) /\ Len(s) = n + 1
    BY <1>2, <1>3, <2>2, <2>3, <2>5
  <2>7. ASSUME NEW i \in 1 .. n + 1
        PROVE  s[i] = IF i <= k THEN r[i] ELSE IF i = k + 1 THEN id ELSE r[i - 1]
    <3>1. CASE i <= k + 1
      BY <1>2, <1>3, <2>2, <2>3, <2>5, <3>1
    <3>2. CASE i > k + 1
      <4>1. s[i] = high[i - (k + 1)]
        BY <1>2, <1>3, <2>2, <2>3, <2>5, <3>2, SMTT(30)
      <4>2. i - (k + 1) \in 1 .. n - k /\ k + (i - (k + 1)) = i - 1
        BY <1>2, <1>3, <3>2
      <4>. QED  BY <1>3, <2>2, <3>2, <4>1, <4>2
    <3>. QED  BY <1>3, <3>1, <3>2
  <2>. QED  BY <2>6, <2>7
<1>. HIDE DEF s
<1>6. /\ Release(ids, id) \in [reusable : Seq(Nat), max : Nat]
      /\ Release(ids, id).reusable = s /\ Release(ids, id).max = ids.max
  BY <1>1, <1>4, <1>5
<1>7. Range(s) = Range(r) \cup {id}
  <2>. HIDE DEF n, r
  <2>1. DOMAIN s = 1 .. n + 1
    BY <1>5
  <2>2. \A x \in Range(s) : x \in Range(r) \cup {id}
    <3>1. SUFFICES ASSUME NEW i \in 1 .. n + 1 PROVE s[i] \in Range(r) \cup {id}
      BY <2>1 DEF Range
    <3>2. s[i] = id \/ \E j \in 1 .. n : s[i] = r[j]
      <4>1. CASE i <= k
        BY <1>2, <1>3, <1>5, <4>1
      <4>2. CASE i > k + 1
        <5>1. i - 1 \in 1 .. n
          BY <1>2, <1>3, <4>2
        <5>. QED  BY <1>3, <1>5, <4>2, <5>1, SMTT(30)
      <4>3. CASE i = k + 1
        BY <1>3, <1>5, <4>3
      <4>. QED  BY <1>3, <4>1, <4>2, <4>3
    <3>. QED  BY <1>2, <3>2 DEF Range
  <2>3. id \in Range(s)
    <3>1. k + 1 \in 1 .. n + 1 /\ s[k + 1] = id
      BY <1>2, <1>3, <1>5
    <3>. QED  BY <2>1, <3>1 DEF Range
  <2>4. \A i \in 1 .. n : r[i] \in Range(s)
    <3>1. TAKE i \in 1 .. n
    <3>2. CASE i <= k
      <4>1. i \in 1 .. n + 1 /\ s[i] = r[i]
        BY <1>2, <1>3, <1>5, <3>2
      <4>. QED  BY <2>1, <4>1 DEF Range
    <3>3. CASE i > k
      <4>1. i + 1 \in 1 .. n + 1 /\ s[i + 1] = r[i]
        BY <1>2, <1>3, <1>5, <3>3
      <4>. QED  BY <2>1, <4>1 DEF Range
    <3>. QED  BY <1>3, <3>2, <3>3
  <2>. QED  BY <1>2, <2>2, <2>3, <2>4 DEF Range
<1>8. IsInjective(s)
  <2>. HIDE DEF n, r
  <2>1. \A i, j \in 1 .. n : r[i] = r[j] => i = j
    BY <1>1, <1>2 DEF IsInjective
  <2>2. \A i \in 1 .. n : r[i] # id
    BY <1>2 DEF Range
  <2>3. SUFFICES ASSUME NEW i \in 1 .. n + 1, NEW j \in 1 .. n + 1, s[i] = s[j]
                 PROVE  i = j
    BY <1>5 DEF IsInjective
  <2>. DEFINE at(x) == IF x <= k THEN x ELSE x - 1
  <2>4. \A x \in 1 .. n + 1 : x # k + 1 => at(x) \in 1 .. n /\ s[x] = r[at(x)]
    BY <1>2, <1>3, <1>5
  <2>5. CASE i = k + 1
    BY <1>3, <1>5, <2>2, <2>3, <2>4, <2>5, SMTT(30)
  <2>6. CASE j = k + 1
    BY <1>3, <1>5, <2>2, <2>3, <2>4, <2>6, SMTT(30)
  <2>7. CASE i # k + 1 /\ j # k + 1
    <3>1. at(i) = at(j)
      BY <2>1, <2>3, <2>4, <2>7
    <3>. QED  BY <1>3, <2>7, <3>1
  <2>. QED  BY <2>5, <2>6, <2>7
<1>. HIDE DEF r, n
<1>. QED  BY <1>1, <1>2, <1>6, <1>7, <1>8 DEF IsIdAssigner, HoldsExactly
=============================================================================

--------------------------- MODULE SnapshotsProofs ---------------------------
(***************************************************************************)
(* Lemmas about Snapshots, for any number of fields and any sizes of       *)
(* values: the runs of fields that a merge finds, what merged deltas hold, *)
(* and what the cells of an entity decode to.                              *)
(***************************************************************************)
EXTENDS Snapshots, ListProofs

-----------------------------------------------------------------------------
(* Runs of fields *)

FieldInfo == [e : Nat, n : Field, v : DOMAIN Size]

\* The fields of an entity lie together, in the order of their numbers.
Grouped(fields) ==
  /\ fields \in Seq(FieldInfo)
  /\ \A i, k \in DOMAIN fields : i < k /\ fields[i].e = fields[k].e =>
       fields[i].n < fields[k].n /\ \A j \in i .. k : fields[j].e = fields[i].e

\* run has the fields of set S, in the order of their numbers.
InOrder(run, S) ==
  /\ run \in Seq(FieldInfo) /\ Range(run) = S
  /\ \A i, j \in DOMAIN run : i < j => run[i].n < run[j].n

Of(fields, e) == {f \in Range(fields) : f.e = e}

\* From a place at or before the first field of e, where there is one if there is
\* any, Run takes them all.
LEMMA RunExact ==
  ASSUME NEW fields, Grouped(fields), NEW e \in Nat, NEW from \in 1 .. Len(fields) + 1,
         \A j \in DOMAIN fields : fields[j].e = e => from <= j /\ fields[from].e = e
  PROVE  InOrder(Run(fields, from, e), Of(fields, e))
<1>. DEFINE n == Len(fields)
            IsLast(k) == /\ \A j \in from .. k : fields[j].e = e
                         /\ k < n => fields[k + 1].e # e
            Ends == {k \in Nat : k >= from /\ k <= n /\ fields[k].e # e}
            last == CHOOSE k \in from - 1 .. n : IsLast(k)
<1>1. /\ fields \in Seq(FieldInfo) /\ n \in Nat /\ DOMAIN fields = 1 .. n
      /\ from \in Nat /\ from - 1 \in Nat /\ from - 1 <= n
  BY DEF Grouped
<1>2. \E k \in from - 1 .. n : IsLast(k)
  <2>1. CASE Ends = {}
    <3>1. IsLast(n)
      BY <1>1, <2>1
    <3>2. n \in from - 1 .. n
      BY <1>1
    <3>. QED  BY <3>1, <3>2
  <2>2. CASE Ends # {}
    <3>1. PICK m \in Ends : \A k \in Ends : ~(k < m)
      BY <2>2, Smallest
    <3>2. m \in Nat /\ m >= from /\ m <= n /\ fields[m].e # e
      BY <3>1
    <3>3. m - 1 \in from - 1 .. n /\ (m - 1) + 1 = m
      BY <1>1, <3>2
    <3>4. ASSUME NEW j \in from .. m - 1
          PROVE  fields[j].e = e
      <4>1. j \in Nat /\ j >= from /\ j <= n /\ j < m
        BY <1>1, <3>2
      <4>. QED  BY <3>1, <4>1
    <3>5. IsLast(m - 1)
      BY <3>2, <3>3, <3>4
    <3>. QED  BY <3>3, <3>5
  <2>. QED  BY <2>1, <2>2
<1>3. last \in from - 1 .. n /\ IsLast(last)
  BY <1>2
<1>. DEFINE run == SubSeq(fields, from, last)
<1>4. Run(fields, from, e) = run
  BY DEF Run
<1>. HIDE DEF last
<1>5. last \in Int /\ from - 1 <= last /\ last <= n /\ last \in Nat
  BY <1>1, <1>3
<1>6. /\ run \in Seq(FieldInfo) /\ Len(run) = last - from + 1 /\ Len(run) \in Nat
      /\ \A i \in 1 .. Len(run) : run[i] = fields[from + i - 1] /\ from + i - 1 \in from .. last
  <2>1. \A i \in from .. last : i \in 1 .. n
    BY <1>1, <1>5
  <2>2. run \in Seq(FieldInfo)
    BY <1>1, <1>5, <2>1, SubSeqProperties
  <2>3. Len(run) = IF from <= last THEN last - from + 1 ELSE 0
    BY <1>1, <1>5, <2>1, SubSeqProperties
  <2>4. Len(run) = last - from + 1
    BY <1>1, <1>5, <2>3
  <2>5. \A i \in 1 .. last - from + 1 : run[i] = fields[from + i - 1]
    BY <1>1, <1>5, <2>1, SubSeqProperties
  <2>. HIDE DEF run
  <2>. QED  BY <1>1, <1>5, <2>2, <2>4, <2>5
<1>. HIDE DEF run
<1>7. DOMAIN run = 1 .. Len(run)
  BY <1>6
<1>8. \A j \in from .. last : j \in 1 .. n /\ fields[j].e = e
  BY <1>1, <1>3, <1>5
<1>9. ASSUME NEW j \in 1 .. n, fields[j].e = e
      PROVE  j \in from .. last
  <2>1. from <= j /\ fields[from].e = e
    BY <1>1, <1>9
  <2>2. CASE j <= last
    BY <1>1, <1>5, <2>1, <2>2
  <2>3. CASE ~(j <= last)
    <3>1. last < n /\ last + 1 \in 1 .. n /\ last + 1 <= j /\ from <= last + 1 /\ from \in 1 .. n
      BY <1>1, <1>5, <2>1, <2>3
    <3>2. fields[last + 1].e # e
      BY <1>3, <3>1
    <3>3. last + 1 # from /\ last + 1 # j
      BY <1>9, <2>1, <3>2
    <3>4. from < j /\ last + 1 \in from .. j
      BY <1>1, <1>5, <3>1, <3>3
    <3>5. fields[last + 1].e = fields[from].e
      BY <1>1, <1>9, <2>1, <3>1, <3>4 DEF Grouped
    <3>. QED  BY <2>1, <3>2, <3>5
  <2>. QED  BY <2>2, <2>3
<1>10. Range(run) = Of(fields, e)
  <2>1. ASSUME NEW i \in 1 .. Len(run)
        PROVE  run[i] \in Of(fields, e)
    <3>1. from + i - 1 \in DOMAIN fields /\ fields[from + i - 1].e = e
      BY <1>1, <1>6, <1>8
    <3>. QED  BY <1>6, <3>1 DEF Of, Range
  <2>2. ASSUME NEW j \in 1 .. n, fields[j].e = e
        PROVE  fields[j] \in Range(run)
    <3>1. j - from + 1 \in 1 .. Len(run) /\ from + (j - from + 1) - 1 = j
      BY <1>1, <1>5, <1>6, <1>9, <2>2
    <3>2. run[j - from + 1] = fields[j]
      BY <1>6, <3>1
    <3>. QED  BY <1>7, <3>1, <3>2 DEF Range
  <2>. QED  BY <1>1, <1>7, <2>1, <2>2 DEF Of, Range
<1>11. ASSUME NEW i \in 1 .. Len(run), NEW j \in 1 .. Len(run), i < j
       PROVE  run[i].n < run[j].n
  <2>1. from + i - 1 < from + j - 1
    BY <1>1, <1>6, <1>11
  <2>2. /\ from + i - 1 \in DOMAIN fields /\ fields[from + i - 1].e = e
        /\ from + j - 1 \in DOMAIN fields /\ fields[from + j - 1].e = e
    BY <1>1, <1>6, <1>8
  <2>3. fields[from + i - 1].n < fields[from + j - 1].n
    BY <2>1, <2>2 DEF Grouped
  <2>. QED  BY <1>6, <2>3
<1>. QED  BY <1>4, <1>6, <1>7, <1>10, <1>11 DEF InOrder

\* find.
LEMMA FoundRunExact ==
  ASSUME NEW fields, Grouped(fields), NEW e \in Nat
  PROVE  InOrder(FoundRun(fields, e), Of(fields, e))
<1>. DEFINE n == Len(fields)
            First(k) == /\ k <= n => fields[k].e = e
                        /\ \A j \in 1 .. k - 1 : fields[j].e # e
            Here == {k \in Nat : k >= 1 /\ k <= n /\ fields[k].e = e}
            from == CHOOSE k \in 1 .. n + 1 : First(k)
<1>1. n \in Nat /\ DOMAIN fields = 1 .. n
  BY DEF Grouped
<1>2. \E k \in 1 .. n + 1 : First(k)
  <2>1. CASE Here = {}
    <3>1. First(n + 1) /\ n + 1 \in 1 .. n + 1
      BY <1>1, <2>1
    <3>. QED  BY <3>1
  <2>2. CASE Here # {}
    <3>1. PICK m \in Here : \A k \in Here : ~(k < m)
      BY <2>2, Smallest
    <3>2. m \in 1 .. n + 1 /\ fields[m].e = e /\ m <= n
      BY <1>1, <3>1
    <3>3. ASSUME NEW j \in 1 .. m - 1
          PROVE  fields[j].e # e
      <4>1. j \in Nat /\ j >= 1 /\ j <= n /\ j < m
        BY <1>1, <3>2
      <4>. QED  BY <3>1, <4>1
    <3>. QED  BY <3>2, <3>3
  <2>. QED  BY <2>1, <2>2
<1>3. from \in 1 .. n + 1 /\ First(from)
  BY <1>2
<1>4. FoundRun(fields, e) = Run(fields, from, e)
  BY DEF FoundRun
<1>. HIDE DEF from
<1>5. ASSUME NEW j \in DOMAIN fields, fields[j].e = e
      PROVE  from <= j /\ fields[from].e = e
  <2>1. j \notin 1 .. from - 1
    BY <1>3, <1>5
  <2>2. from <= j /\ from <= n
    BY <1>1, <1>3, <2>1
  <2>. QED  BY <1>3, <2>2
<1>. QED  BY <1>3, <1>4, <1>5, RunExact

-----------------------------------------------------------------------------
(* lower_bound *)

\* s is the search of LowerBound for up to N fields.
Searches(s, N, fields, e) ==
  s = [len \in 0 .. N |->
        [first \in 1 .. Len(fields) + 1 - len |->
           IF len = 0 THEN first
           ELSE IF fields[first + (len \div 2)].e < e
                  THEN s[len - (len \div 2) - 1][first + (len \div 2) + 1]
           ELSE s[len \div 2][first]]]

\* One step of the search.
LEMMA SearchStep ==
  ASSUME NEW s, NEW N \in Nat, NEW fields, NEW e, Searches(s, N, fields, e),
         NEW len \in 0 .. N, NEW first \in 1 .. Len(fields) + 1 - len
  PROVE  s[len][first] = IF len = 0 THEN first
                         ELSE IF fields[first + (len \div 2)].e < e
                                THEN s[len - (len \div 2) - 1][first + (len \div 2) + 1]
                         ELSE s[len \div 2][first]
<1>1. s[len] = [x \in 1 .. Len(fields) + 1 - len |->
                  IF len = 0 THEN x
                  ELSE IF fields[x + (len \div 2)].e < e
                         THEN s[len - (len \div 2) - 1][x + (len \div 2) + 1]
                  ELSE s[len \div 2][x]]
  BY Zenon DEF Searches
<1>. QED  BY <1>1, Zenon

LEMMA Halves ==
  ASSUME NEW len \in Nat, len # 0
  PROVE  /\ len \div 2 \in 0 .. len - 1
         /\ len - (len \div 2) - 1 \in 0 .. len - 1
<1>1. len \div 2 \in Nat /\ 2 * (len \div 2) <= len /\ len < 2 * (len \div 2) + 2
  OBVIOUS
<1>. QED  BY <1>1

\* The recursion of LowerBound defines a function.
LEMMA SearchesExist ==
  ASSUME NEW fields, NEW e, NEW N \in Nat
  PROVE  \E s : Searches(s, N, fields, e)
<1>. DEFINE Step(s, len) ==
              [first \in 1 .. Len(fields) + 1 - len |->
                 IF len = 0 THEN first
                 ELSE IF fields[first + (len \div 2)].e < e
                        THEN s[len - (len \div 2) - 1][first + (len \div 2) + 1]
                 ELSE s[len \div 2][first]]
            Bad == {k \in Nat : ~ \E s : Searches(s, k, fields, e)}
<1>1. \A s, k : Searches(s, k, fields, e) <=> s = [len \in 0 .. k |-> Step(s, len)]
  BY DEF Searches
<1>. SUFFICES ASSUME Bad # {} PROVE FALSE
  OBVIOUS
<1>2. PICK m \in Bad : \A k \in Bad : ~(k < m)
  BY Smallest
<1>3. ASSUME NEW s, NEW t, NEW len \in Nat, \A k \in 0 .. len - 1 : s[k] = t[k]
      PROVE  Step(s, len) = Step(t, len)
  <2>1. CASE len = 0
    BY <2>1
  <2>2. CASE len # 0
    <3>1. s[len \div 2] = t[len \div 2] /\ s[len - (len \div 2) - 1] = t[len - (len \div 2) - 1]
      BY <1>3, <2>2, Halves
    <3>. QED  BY <3>1
  <2>. QED  BY <2>1, <2>2
<1>. HIDE DEF Step
<1>4. PICK s : \A k \in 0 .. m - 1 : s[k] = Step(s, k)
  <2>1. CASE m = 0
    BY <2>1
  <2>2. CASE m # 0
    <3>1. m - 1 \in Nat /\ m - 1 < m
      BY <2>2
    <3>2. PICK s : Searches(s, m - 1, fields, e)
      BY <1>2, <3>1
    <3>3. s = [len \in 0 .. m - 1 |-> Step(s, len)]
      BY <1>1, <3>2
    <3>. QED  BY <3>3
  <2>. QED  BY <2>1, <2>2
<1>. DEFINE t == [len \in 0 .. m |-> IF len = m THEN Step(s, m) ELSE s[len]]
<1>5. /\ t[m] = Step(s, m) /\ \A k \in 0 .. m - 1 : t[k] = s[k]
      /\ t = [len \in 0 .. m |-> t[len]]
  OBVIOUS
<1>. HIDE DEF t
<1>6. ASSUME NEW len \in 0 .. m
      PROVE  t[len] = Step(t, len)
  <2>1. \A k \in 0 .. len - 1 : k \in 0 .. m - 1
    OBVIOUS
  <2>2. Step(s, len) = Step(t, len)
    <3>1. \A k \in 0 .. len - 1 : s[k] = t[k]
      BY <1>5, <2>1
    <3>. QED  BY <1>3, <3>1
  <2>3. CASE len = m
    BY <1>5, <2>2, <2>3
  <2>4. CASE len # m
    <3>1. len \in 0 .. m - 1
      BY <2>4
    <3>. QED  BY <1>4, <1>5, <2>2, <3>1
  <2>. QED  BY <2>3, <2>4
<1>7. t = [len \in 0 .. m |-> Step(t, len)]
  BY <1>5, <1>6
<1>. QED  BY <1>1, <1>2, <1>7

\* Fields in the order of their entities are so over any distance.
LEMMA EntityOrder ==
  ASSUME NEW fields \in Seq(FieldInfo), InEntityOrder(fields),
         NEW i \in DOMAIN fields, NEW j \in DOMAIN fields, i <= j
  PROVE  fields[i].e <= fields[j].e
<1>. DEFINE n == Len(fields)
<1>1. /\ n \in Nat /\ DOMAIN fields = 1 .. n /\ \A k \in 1 .. n : fields[k].e \in Nat
      /\ i \in 1 .. n /\ j \in 1 .. n
  <2>1. \A k \in 1 .. n : fields[k] \in FieldInfo
    OBVIOUS
  <2>. QED  BY <2>1 DEF FieldInfo
<1>. DEFINE Bad == {k \in Nat : k >= i /\ k <= n /\ ~(fields[i].e <= fields[k].e)}
<1>. SUFFICES ASSUME Bad # {} PROVE FALSE
  BY <1>1
<1>2. PICK m \in Bad : \A k \in Bad : ~(k < m)
  BY Smallest
<1>3. m \in 1 .. n /\ m >= i /\ ~(fields[i].e <= fields[m].e)
  BY <1>1, <1>2
<1>4. m # i
  BY <1>1, <1>3
<1>5. m \in 2 .. n /\ m - 1 \in 1 .. n /\ m - 1 >= i /\ m - 1 < m
  BY <1>1, <1>3, <1>4
<1>6. fields[i].e <= fields[m - 1].e
  BY <1>1, <1>2, <1>5
<1>7. fields[m - 1].e <= fields[m].e
  BY <1>5 DEF InEntityOrder
<1>. QED  BY <1>1, <1>3, <1>5, <1>6, <1>7

\* In fields that are in the order of their entities the search finds the place
\* where those of e begin.
THEOREM LowerBoundExact ==
  ASSUME NEW fields \in Seq(FieldInfo), InEntityOrder(fields), NEW e \in Nat
  PROVE  LET first == LowerBound(fields, e) IN
         /\ first \in 1 .. Len(fields) + 1
         /\ \A j \in DOMAIN fields : /\ j < first => fields[j].e < e
                                     /\ j >= first => fields[j].e >= e
<1>. DEFINE n == Len(fields)
<1>1. n \in Nat /\ DOMAIN fields = 1 .. n /\ \A j \in 1 .. n : fields[j].e \in Nat
  <2>1. \A j \in 1 .. n : fields[j] \in FieldInfo
    OBVIOUS
  <2>. QED  BY <2>1 DEF FieldInfo
<1>2. \A i, j \in 1 .. n : i <= j => fields[i].e <= fields[j].e
  BY <1>1, EntityOrder
<1>. DEFINE s == CHOOSE s : Searches(s, n, fields, e)
<1>3. Searches(s, n, fields, e)
  BY <1>1, SearchesExist
<1>4. LowerBound(fields, e) = s[n][1]
  BY DEF LowerBound, Searches
<1>. HIDE DEF s
<1>5. ASSUME NEW len \in 0 .. n, NEW first \in 1 .. n + 1 - len
      PROVE  s[len][first] = IF len = 0 THEN first
                             ELSE IF fields[first + (len \div 2)].e < e
                                    THEN s[len - (len \div 2) - 1][first + (len \div 2) + 1]
                             ELSE s[len \div 2][first]
  BY <1>1, <1>3, SearchStep
<1>. DEFINE Right(r, first, len) ==
              /\ r \in first .. first + len
              /\ \A j \in first .. first + len - 1 : /\ j < r => fields[j].e < e
                                                     /\ j >= r => fields[j].e >= e
            Bad == {len \in Nat : len <= n /\ \E first \in 1 .. n + 1 - len :
                                                ~Right(s[len][first], first, len)}
<1>6. Bad = {}
  <2>. SUFFICES ASSUME Bad # {} PROVE FALSE
    OBVIOUS
  <2>1. PICK len \in Bad : \A k \in Bad : ~(k < len)
    BY Smallest
  <2>2. PICK first \in 1 .. n + 1 - len : ~Right(s[len][first], first, len)
    BY <2>1
  <2>3. len \in 0 .. n /\ first \in Nat /\ first >= 1 /\ first + len <= n + 1
    BY <1>1, <2>1
  <2>4. len # 0
    <3>. SUFFICES ASSUME len = 0 PROVE FALSE
      OBVIOUS
    <3>1. s[len][first] = first
      BY <1>5, <2>3
    <3>2. Right(first, first, len)
      BY <2>3
    <3>. QED  BY <2>2, <3>1, <3>2
  <2>. DEFINE half == len \div 2
  <2>5. half \in Nat /\ half <= len - 1 /\ len - half - 1 \in Nat /\ len - half - 1 <= len - 1
    BY <2>3, <2>4, Halves
  <2>6. s[len][first] = IF fields[first + half].e < e THEN s[len - half - 1][first + half + 1]
                        ELSE s[half][first]
    BY <1>5, <2>3, <2>4
  <2>. HIDE DEF half
  <2>7. first + half \in 1 .. n
    BY <1>1, <2>3, <2>5
  <2>8. CASE fields[first + half].e < e
    <3>. DEFINE rest == len - half - 1
                next == first + half + 1
    <3>1. rest \in Nat /\ rest <= n /\ rest < len /\ next \in 1 .. n + 1 - rest
          /\ next + rest = first + len
      BY ONLY <1>1, <2>3, <2>5
    <3>2. s[len][first] = s[rest][next]
      BY <2>6, <2>8
    <3>3. Right(s[rest][next], next, rest)
      <4>. HIDE DEF rest, next, Right
      <4>. QED  BY <2>1, <3>1
    <3>. DEFINE r == s[rest][next]
    <3>4. r \in next .. next + rest
      BY <3>3
    <3>. HIDE DEF r
    <3>5. r \in first .. first + len
      BY <2>3, <2>5, <3>1, <3>4, SMTT(60)
    <3>6. ASSUME NEW j \in first .. first + len - 1
          PROVE  /\ j < r => fields[j].e < e
                 /\ j >= r => fields[j].e >= e
      <4>1. CASE j >= next
        <5>1. j \in next .. next + rest - 1
          BY ONLY <2>3, <2>5, <3>1, <4>1, j \in first .. first + len - 1
        <5>. QED  BY <3>3, <5>1 DEF r
      <4>2. CASE ~(j >= next)
        <5>1. j \in 1 .. n /\ j <= first + half
          BY <1>1, <2>3, <2>5, <4>2
        <5>2. fields[j].e <= fields[first + half].e
          BY <1>2, <2>7, <5>1
        <5>3. fields[j].e < e
          BY <1>1, <2>7, <2>8, <5>1, <5>2
        <5>4. j < r
          BY <2>3, <2>5, <3>1, <3>4, <4>2
        <5>. QED  BY <2>3, <3>5, <5>3, <5>4
      <4>. QED  BY <4>1, <4>2
    <3>. QED  BY <2>2, <3>2, <3>5, <3>6 DEF r
  <2>9. CASE ~(fields[first + half].e < e)
    <3>1. half <= n /\ half < len /\ first \in 1 .. n + 1 - half
      BY ONLY <1>1, <2>3, <2>5
    <3>2. s[len][first] = s[half][first]
      BY <2>6, <2>9
    <3>3. Right(s[half][first], first, half)
      <4>. HIDE DEF Right
      <4>. QED  BY <2>1, <2>5, <3>1
    <3>. DEFINE r == s[half][first]
    <3>4. r \in first .. first + half
      BY <3>3
    <3>. HIDE DEF r
    <3>5. r \in first .. first + len
      BY <2>3, <2>5, <3>4, SMTT(60)
    <3>6. ASSUME NEW j \in first .. first + len - 1
          PROVE  /\ j < r => fields[j].e < e
                 /\ j >= r => fields[j].e >= e
      <4>1. CASE j < first + half
        <5>1. j \in first .. first + half - 1
          BY ONLY <2>3, <2>5, <4>1, j \in first .. first + len - 1
        <5>. QED  BY <3>3, <5>1 DEF r
      <4>2. CASE ~(j < first + half)
        <5>1. j \in 1 .. n /\ first + half <= j
          BY <1>1, <2>3, <2>5, <4>2
        <5>2. fields[first + half].e <= fields[j].e
          BY <1>2, <2>7, <5>1
        <5>3. fields[j].e >= e
          BY <1>1, <2>7, <2>9, <5>1, <5>2
        <5>4. ~(j < r)
          BY <2>3, <2>5, <3>4, <4>2
        <5>. QED  BY <5>3, <5>4
      <4>. QED  BY <4>1, <4>2
    <3>. QED  BY <2>2, <3>2, <3>5, <3>6 DEF r
  <2>. QED  BY <2>8, <2>9
<1>7. Right(s[n][1], 1, n)
  <2>1. n <= n /\ 1 \in 1 .. n + 1 - n
    BY <1>1
  <2>. HIDE DEF Right
  <2>. QED  BY <1>1, <1>6, <2>1
<1>8. 1 .. 1 + n - 1 = 1 .. n /\ 1 + n = n + 1
  BY <1>1
<1>. QED  BY <1>1, <1>4, <1>7, <1>8

\* lower_bound and the fields from there on.
LEMMA SortedRunExact ==
  ASSUME NEW fields, Grouped(fields), InEntityOrder(fields), NEW e \in Nat
  PROVE  InOrder(SortedRun(fields, e), Of(fields, e))
<1>. DEFINE from == LowerBound(fields, e)
<1>1. fields \in Seq(FieldInfo)
  BY DEF Grouped
<1>2. /\ from \in 1 .. Len(fields) + 1
      /\ \A j \in DOMAIN fields : /\ j < from => fields[j].e < e
                                  /\ j >= from => fields[j].e >= e
  BY <1>1, LowerBoundExact
<1>. HIDE DEF from
<1>3. Len(fields) \in Nat /\ DOMAIN fields = 1 .. Len(fields)
  BY <1>1
<1>4. ASSUME NEW j \in DOMAIN fields, fields[j].e = e
      PROVE  from <= j /\ fields[from].e = e
  <2>1. from <= j
    BY <1>2, <1>3, <1>4
  <2>2. from \in DOMAIN fields
    BY <1>2, <1>3, <2>1
  <2>3. fields[from].e >= e /\ fields[from].e \in Nat
    <3>1. fields[from] \in FieldInfo
      BY <1>1, <1>3, <2>2
    <3>. QED  BY <1>2, <2>2, <3>1 DEF FieldInfo
  <2>4. CASE from = j
    BY <1>4, <2>1, <2>4
  <2>5. CASE from # j
    <3>1. fields[from].e <= fields[j].e
      BY <1>1, <1>2, <1>3, <2>1, <2>2, EntityOrder
    <3>. QED  BY <1>4, <2>1, <2>3, <3>1
  <2>. QED  BY <2>4, <2>5
<1>. QED  BY <1>2, <1>4, RunExact DEF SortedRun, from
-----------------------------------------------------------------------------
(* Merging the runs of an entity *)

LEMMA FieldSets ==
  ASSUME NEW S \in SUBSET Field
  PROVE  S \in SUBSET Nat /\ IsFiniteSet(S)
<1>1. Field \in SUBSET Nat /\ IsFiniteSet(Field)
  BY SnapshotsAssumption, FS_Interval DEF Field
<1>. QED  BY <1>1, FS_Subset

\* In a run each number stands for one field.
LEMMA NamedExact ==
  ASSUME NEW run, NEW S, InOrder(run, S)
  PROVE  /\ S \subseteq FieldInfo /\ Numbers(run) \subseteq Field
         /\ \A f \in S : f.n \in Numbers(run) /\ Named(run, f.n) = f
         /\ \A n \in Numbers(run) : Named(run, n) \in S /\ Named(run, n).n = n
<1>1. /\ run \in Seq(FieldInfo) /\ DOMAIN run = 1 .. Len(run) /\ Len(run) \in Nat
      /\ S = {run[k] : k \in DOMAIN run}
      /\ \A i, j \in DOMAIN run : i < j => run[i].n < run[j].n
  BY DEF InOrder, Range
<1>2. \A k \in DOMAIN run : run[k] \in FieldInfo /\ run[k].n \in Field /\ run[k].n \in Nat
  <2>1. \A k \in DOMAIN run : run[k] \in FieldInfo
    BY <1>1
  <2>2. Field \subseteq Nat
    BY FieldSets
  <2>. QED  BY <2>1, <2>2 DEF FieldInfo
<1>3. \A i, j \in DOMAIN run : run[i].n = run[j].n => i = j
  BY <1>1, <1>2
<1>4. \A k \in DOMAIN run : Named(run, run[k].n) = run[k]
  <2>. TAKE k \in DOMAIN run
  <2>1. (CHOOSE i \in DOMAIN run : run[i].n = run[k].n) = k
    BY <1>3
  <2>. QED  BY <2>1 DEF Named
<1>. QED  BY <1>1, <1>2, <1>4 DEF Numbers

\* Of two versions of an entity's fields, the newer one of each.
Newest(old, new) == new \cup {f \in old : \A g \in new : g.n # f.n}

\* The states of the merging loop, as it begins, and those its rounds go through.
MergeState(old, new) ==
  [old_it : 1 .. Len(old) + 1, new_it : 1 .. Len(new) + 1, run : Seq(FieldInfo),
   overrun : BOOLEAN]
MergeBegins(old, new, e) ==
  [old_it |-> LowerBound(old, e), new_it |-> LowerBound(new, e), run |-> <<>>, overrun |-> FALSE]
Rounds(f, n, old, new, e) ==
  f = [k \in 0 .. n |-> IF k = 0 THEN MergeBegins(old, new, e)
                        ELSE MergeRound(old, new, e, f[k - 1])]

\* The recursion of MergeLoop defines a function.
LEMMA RoundsExist ==
  ASSUME NEW old, NEW new, NEW e, NEW n \in Nat
  PROVE  \E f : Rounds(f, n, old, new, e)
<1>. DEFINE Begin == MergeBegins(old, new, e)
            Next(s) == MergeRound(old, new, e, s)
            Bad == {k \in Nat : ~ \E f : Rounds(f, k, old, new, e)}
<1>. SUFFICES ASSUME Bad # {} PROVE FALSE
  OBVIOUS
<1>1. PICK m \in Bad : \A k \in Bad : ~(k < m)
  BY Smallest
<1>2. m # 0
  <2>. DEFINE g == [k \in 0 .. 0 |-> Begin]
  <2>1. g = [k \in 0 .. 0 |-> IF k = 0 THEN Begin ELSE Next(g[k - 1])]
    OBVIOUS
  <2>2. Rounds(g, 0, old, new, e)
    BY <2>1 DEF Rounds
  <2>. QED  BY <2>2
<1>3. m - 1 \in Nat /\ m - 1 < m
  BY <1>1, <1>2
<1>4. PICK f : Rounds(f, m - 1, old, new, e)
  BY <1>1, <1>3
<1>. DEFINE g == [k \in 0 .. m |-> IF k = m THEN Next(f[m - 1]) ELSE f[k]]
<1>5. \A k \in 0 .. m - 1 : f[k] = IF k = 0 THEN Begin ELSE Next(f[k - 1])
  BY <1>4 DEF Rounds
<1>. HIDE DEF Begin, Next
<1>6. (\A k \in 0 .. m - 1 : g[k] = f[k]) /\ g[m] = Next(f[m - 1])
  BY <1>1, <1>2
<1>7. ASSUME NEW k \in 0 .. m
      PROVE  g[k] = IF k = 0 THEN Begin ELSE Next(g[k - 1])
  <2>. HIDE DEF g
  <2>1. CASE k = m
    BY <1>1, <1>2, <1>6, <2>1
  <2>2. CASE k # m /\ k # 0
    <3>1. k \in 0 .. m - 1 /\ k - 1 \in 0 .. m - 1
      BY <1>1, <2>2
    <3>. QED  BY <1>5, <1>6, <2>2, <3>1
  <2>3. CASE k # m /\ k = 0
    BY <1>1, <1>5, <1>6, <2>3
  <2>. QED  BY <2>1, <2>2, <2>3
<1>8. Rounds(g, m, old, new, e)
  <2>1. g = [k \in 0 .. m |-> g[k]]
    OBVIOUS
  <2>. HIDE DEF g
  <2>. QED  BY <1>7, <2>1 DEF Rounds, Begin, Next
<1>. QED  BY <1>1, <1>8

\* f has the states of the loop, round by round.
LoopStates(f, old, new, e) ==
  /\ f[0] = MergeBegins(old, new, e) /\ MergeLoop(old, new, e) = f[Len(old) + Len(new)]
  /\ \A k \in 1 .. Len(old) + Len(new) : f[k] = MergeRound(old, new, e, f[k - 1])

\* What the loop comes to, from its beginning and its rounds.
LEMMA LoopRounds ==
  ASSUME NEW old, NEW new, NEW e, Len(old) + Len(new) \in Nat
  PROVE  \E f : LoopStates(f, old, new, e)
<1>. DEFINE N == Len(old) + Len(new)
            f == CHOOSE f : Rounds(f, N, old, new, e)
<1>1. Rounds(f, N, old, new, e)
  BY RoundsExist
<1>2. MergeLoop(old, new, e) = f[N]
  BY DEF MergeLoop, Rounds, MergeBegins
<1>. HIDE DEF f
<1>3. \A k \in 0 .. N : f[k] = IF k = 0 THEN MergeBegins(old, new, e)
                               ELSE MergeRound(old, new, e, f[k - 1])
  BY <1>1 DEF Rounds
<1>4. 0 \in 0 .. N /\ \A k \in 1 .. N : k \in 0 .. N /\ k # 0
  OBVIOUS
<1>. HIDE DEF N
<1>5. f[0] = MergeBegins(old, new, e) /\ \A k \in 1 .. N : f[k] = MergeRound(old, new, e, f[k - 1])
  BY <1>3, <1>4
<1>6. LoopStates(f, old, new, e)
  BY <1>2, <1>5 DEF N, LoopStates
<1>. QED  BY <1>6

\* Both places stay within their fields or at the end, and one of them advances
\* until neither is at a field of e.
LEMMA RoundAdvances ==
  ASSUME NEW old \in Seq(FieldInfo), NEW new \in Seq(FieldInfo), NEW e,
         NEW s \in MergeState(old, new)
  PROVE  LET t == MergeRound(old, new, e, s) IN
         /\ t \in MergeState(old, new)
         /\ \/ t.old_it + t.new_it >= s.old_it + s.new_it + 1
            \/ t = s /\ ~At(old, s.old_it, e) /\ ~At(new, s.new_it, e)
<1>. DEFINE ob == At(old, s.old_it, e)
            nb == At(new, s.new_it, e)
            steps == s.old_it <= Len(old) /\ new[s.new_it].n = old[s.old_it].n
            t == MergeRound(old, new, e, s)
<1>1. /\ Len(old) \in Nat /\ Len(new) \in Nat /\ s.run \in Seq(FieldInfo)
      /\ s.old_it \in 1 .. Len(old) + 1 /\ s.new_it \in 1 .. Len(new) + 1
      /\ s.overrun \in BOOLEAN
      /\ s = [old_it |-> s.old_it, new_it |-> s.new_it, run |-> s.run, overrun |-> s.overrun]
  BY DEF MergeState
<1>2. CASE nb /\ (ob => new[s.new_it].n <= old[s.old_it].n)
  <2>1. t = [old_it |-> IF steps THEN s.old_it + 1 ELSE s.old_it, new_it |-> s.new_it + 1,
             run |-> Append(s.run, new[s.new_it]), overrun |-> s.overrun \/ s.old_it > Len(old)]
    BY <1>2 DEF MergeRound
  <2>2. /\ s.new_it + 1 \in 1 .. Len(new) + 1 /\ Append(s.run, new[s.new_it]) \in Seq(FieldInfo)
        /\ (IF steps THEN s.old_it + 1 ELSE s.old_it) \in {s.old_it, s.old_it + 1} \cap (1 .. Len(old) + 1)
    BY <1>1, <1>2 DEF At
  <2>3. (s.overrun \/ s.old_it > Len(old)) \in BOOLEAN
    OBVIOUS
  <2>. HIDE DEF t
  <2>4. t \in MergeState(old, new)
    BY <2>1, <2>2, <2>3 DEF MergeState
  <2>5. t.old_it \in {s.old_it, s.old_it + 1} /\ t.new_it = s.new_it + 1
    BY <2>1, <2>2
  <2>6. t.old_it + t.new_it >= s.old_it + s.new_it + 1
    BY <1>1, <2>5
  <2>. QED  BY <2>4, <2>6 DEF t
<1>3. CASE ob /\ ~(nb /\ new[s.new_it].n <= old[s.old_it].n)
  <2>1. t = [s EXCEPT !.old_it = @ + 1, !.run = Append(@, old[s.old_it])]
    BY <1>3 DEF MergeRound
  <2>2. s.old_it + 1 \in 1 .. Len(old) + 1 /\ Append(s.run, old[s.old_it]) \in Seq(FieldInfo)
    BY <1>1, <1>3 DEF At
  <2>3. t = [old_it |-> s.old_it + 1, new_it |-> s.new_it, run |-> Append(s.run, old[s.old_it]),
             overrun |-> s.overrun]
    BY <1>1, <2>1
  <2>. HIDE DEF t
  <2>4. t \in MergeState(old, new)
    BY <1>1, <2>2, <2>3 DEF MergeState
  <2>5. t.old_it = s.old_it + 1 /\ t.new_it = s.new_it
    BY <2>3
  <2>6. t.old_it + t.new_it >= s.old_it + s.new_it + 1
    BY <1>1, <2>5
  <2>. QED  BY <2>4, <2>6 DEF t
<1>4. CASE ~ob /\ ~nb
  BY <1>4 DEF MergeRound
<1>. QED  BY <1>2, <1>3, <1>4

\* The loop's last state: neither place is at a field of e any more.
LEMMA LoopEnds ==
  ASSUME NEW old \in Seq(FieldInfo), NEW new \in Seq(FieldInfo), NEW e, NEW f,
         f[0] \in MergeState(old, new),
         \A k \in 1 .. Len(old) + Len(new) : f[k] = MergeRound(old, new, e, f[k - 1])
  PROVE  LET last == f[Len(old) + Len(new)] IN
         /\ \A k \in 0 .. Len(old) + Len(new) : f[k] \in MergeState(old, new)
         /\ ~At(old, last.old_it, e) /\ ~At(new, last.new_it, e)
<1>. DEFINE N == Len(old) + Len(new)
            Ended(s) == ~At(old, s.old_it, e) /\ ~At(new, s.new_it, e)
            Good(k) == /\ f[k] \in MergeState(old, new)
                       /\ Ended(f[k]) \/ f[k].old_it + f[k].new_it >= k + 2
            Bad == {k \in 0 .. N : ~Good(k)}
<1>1. N \in Nat /\ Len(old) \in Nat /\ Len(new) \in Nat
  OBVIOUS
<1>2. \A s \in MergeState(old, new) : s.old_it \in 1 .. Len(old) + 1 /\ s.new_it \in 1 .. Len(new) + 1
  BY DEF MergeState
<1>3. Bad = {}
  <2>. SUFFICES ASSUME Bad # {} PROVE FALSE
    OBVIOUS
  <2>. HIDE DEF Ended, Good
  <2>1. PICK m \in Bad : \A k \in Bad : ~(k < m)
    <3>1. Bad \in SUBSET Nat
      BY <1>1
    <3>. QED  BY <3>1, Smallest
  <2>2. Good(0)
    BY <1>1, <1>2 DEF Good
  <2>3. m \in 1 .. N /\ m - 1 \in 0 .. N /\ m - 1 < m
    BY <1>1, <2>1, <2>2
  <2>4. Good(m - 1)
    BY <2>1, <2>3
  <2>. DEFINE s == f[m - 1]
              t == f[m]
  <2>5. s \in MergeState(old, new) /\ (Ended(s) \/ s.old_it + s.new_it >= (m - 1) + 2)
    BY <2>4 DEF Good
  <2>6. t = MergeRound(old, new, e, s)
    BY <2>3
  <2>. HIDE DEF s, t
  <2>7. /\ t \in MergeState(old, new)
        /\ t.old_it + t.new_it >= s.old_it + s.new_it + 1 \/ (t = s /\ Ended(s))
    BY <2>5, <2>6, RoundAdvances DEF Ended
  <2>8. Ended(t) \/ t.old_it + t.new_it >= m + 2
    <3>1. CASE Ended(s)
      <4>1. t = s
        BY <2>6, <3>1 DEF Ended, MergeRound
      <4>. QED  BY <3>1, <4>1
    <3>2. CASE ~Ended(s)
      <4>1. /\ s.old_it \in Int /\ s.new_it \in Int /\ t.old_it \in Int /\ t.new_it \in Int
            /\ m \in Int
        BY <1>1, <1>2, <2>3, <2>5, <2>7
      <4>2. s.old_it + s.new_it >= (m - 1) + 2 /\ t.old_it + t.new_it >= s.old_it + s.new_it + 1
        BY <2>5, <2>7, <3>2
      <4>. QED  BY <4>1, <4>2
    <3>. QED  BY <3>1, <3>2
  <2>9. Good(m)
    BY <2>7, <2>8 DEF Good, t
  <2>. QED  BY <2>1, <2>9
<1>4. \A k \in 0 .. N : Good(k)
  BY <1>3
<1>5. Ended(f[N])
  <2>1. Good(N)
    BY <1>1, <1>4
  <2>2. f[N].old_it \in 1 .. Len(old) + 1 /\ f[N].new_it \in 1 .. Len(new) + 1
    BY <1>2, <2>1
  <2>3. CASE f[N].old_it + f[N].new_it >= N + 2
    BY <1>1, <2>2, <2>3 DEF At
  <2>. QED  BY <2>1, <2>3
<1>. QED  BY <1>4, <1>5

\* The fields of e before a place, and from it on.
Passed(fields, it, e) == {fields[j] : j \in {i \in DOMAIN fields : i < it /\ fields[i].e = e}}
Left(fields, it, e) == {fields[j] : j \in {i \in DOMAIN fields : i >= it /\ fields[i].e = e}}

\* A place in fields that are in order by entity, at or behind the lower bound of e.
Beyond(fields, it, e) ==
  it \in 1 .. Len(fields) + 1 /\ \A j \in DOMAIN fields : j >= it => fields[j].e >= e

\* What a place passes by when it is at a field of e, and when it is not.
LEMMA PlacePasses ==
  ASSUME NEW fields, Grouped(fields), InEntityOrder(fields), NEW e \in Nat, NEW it,
         Beyond(fields, it, e)
  PROVE  /\ Passed(fields, it, e) \cup Left(fields, it, e) = Of(fields, e)
         /\ At(fields, it, e) =>
              /\ Beyond(fields, it + 1, e)
              /\ fields[it] \in Left(fields, it, e)
              /\ Left(fields, it + 1, e) \subseteq Left(fields, it, e)
              /\ Passed(fields, it + 1, e) = Passed(fields, it, e) \cup {fields[it]}
              /\ \A g \in Left(fields, it, e) : g = fields[it] \/ fields[it].n < g.n
              /\ \A g \in Left(fields, it + 1, e) : fields[it].n < g.n
         /\ ~At(fields, it, e) => Left(fields, it, e) = {}
         /\ ~At(fields, it, e) /\ it <= Len(fields) =>
              /\ Beyond(fields, it + 1, e)
              /\ Passed(fields, it + 1, e) = Passed(fields, it, e)
              /\ Left(fields, it + 1, e) = {}
<1>1. /\ fields \in Seq(FieldInfo) /\ Len(fields) \in Nat /\ DOMAIN fields = 1 .. Len(fields)
      /\ it \in 1 .. Len(fields) + 1
      /\ \A j \in DOMAIN fields : j >= it => fields[j].e >= e
      /\ \A i, k \in DOMAIN fields :
           i < k /\ fields[i].e = fields[k].e => fields[i].n < fields[k].n
  BY DEF Grouped, Beyond
<1>2. Passed(fields, it, e) \cup Left(fields, it, e) = Of(fields, e)
  BY <1>1 DEF Passed, Left, Of, Range
<1>3. ASSUME At(fields, it, e)
      PROVE  /\ Beyond(fields, it + 1, e)
             /\ fields[it] \in Left(fields, it, e)
             /\ Left(fields, it + 1, e) \subseteq Left(fields, it, e)
             /\ Passed(fields, it + 1, e) = Passed(fields, it, e) \cup {fields[it]}
             /\ \A g \in Left(fields, it, e) : g = fields[it] \/ fields[it].n < g.n
             /\ \A g \in Left(fields, it + 1, e) : fields[it].n < g.n
  <2>1. it \in DOMAIN fields /\ fields[it].e = e /\ it \in Nat
    BY <1>1, <1>3 DEF At
  <2>2. Beyond(fields, it + 1, e)
    BY <1>1, <2>1 DEF Beyond
  <2>3. fields[it] \in Left(fields, it, e) /\ Left(fields, it + 1, e) \subseteq Left(fields, it, e)
    BY <1>1, <2>1 DEF Left
  <2>4. Passed(fields, it + 1, e) = Passed(fields, it, e) \cup {fields[it]}
    <3>1. \A j \in DOMAIN fields : j < it + 1 <=> j < it \/ j = it
      BY <1>1, <2>1
    <3>. QED  BY <2>1, <3>1 DEF Passed
  <2>5. \A j \in DOMAIN fields : j >= it /\ fields[j].e = e => j = it \/ fields[it].n < fields[j].n
    BY <1>1, <2>1
  <2>6. \A j \in DOMAIN fields : j >= it + 1 /\ fields[j].e = e => fields[it].n < fields[j].n
    BY <1>1, <2>1
  <2>. QED  BY <2>2, <2>3, <2>4, <2>5, <2>6 DEF Left
<1>4. ASSUME ~At(fields, it, e)
      PROVE  /\ Left(fields, it, e) = {}
             /\ it <= Len(fields) =>
                  /\ Beyond(fields, it + 1, e)
                  /\ Passed(fields, it + 1, e) = Passed(fields, it, e)
                  /\ Left(fields, it + 1, e) = {}
  <2>1. ASSUME NEW j \in DOMAIN fields, j >= it PROVE fields[j].e # e
    <3>1. it \in DOMAIN fields /\ it <= j
      BY <1>1, <2>1
    <3>2. fields[it].e <= fields[j].e
      BY <1>1, <2>1, <3>1, EntityOrder
    <3>3. fields[it].e >= e /\ fields[it].e # e
      BY <1>1, <1>4, <3>1 DEF At
    <3>4. fields[it].e \in Nat /\ fields[j].e \in Nat
      <4>1. fields[it] \in FieldInfo /\ fields[j] \in FieldInfo
        BY <1>1, <3>1
      <4>. QED  BY <4>1 DEF FieldInfo
    <3>. QED  BY <3>2, <3>3, <3>4
  <2>2. Left(fields, it, e) = {}
    BY <2>1 DEF Left
  <2>3. ASSUME it <= Len(fields)
        PROVE  /\ Beyond(fields, it + 1, e)
               /\ Passed(fields, it + 1, e) = Passed(fields, it, e)
               /\ Left(fields, it + 1, e) = {}
    <3>1. it \in DOMAIN fields
      BY <1>1, <2>3
    <3>2. Beyond(fields, it + 1, e)
      BY <1>1, <3>1 DEF Beyond
    <3>3. \A j \in DOMAIN fields : fields[j].e = e => (j < it + 1 <=> j < it) /\ ~(j >= it + 1)
      BY <1>1, <2>1, <3>1
    <3>4. Passed(fields, it + 1, e) = Passed(fields, it, e)
      BY <3>3 DEF Passed
    <3>. QED  BY <3>2, <3>3, <3>4 DEF Left
  <2>. QED  BY <2>2, <2>3
<1>. QED  BY <1>2, <1>3, <1>4

\* A field behind all others.
LEMMA OrderExtends ==
  ASSUME NEW run, NEW S, InOrder(run, S), NEW x \in FieldInfo, \A g \in S : g.n < x.n
  PROVE  InOrder(Append(run, x), S \cup {x})
<1>. DEFINE ext == Append(run, x)
<1>1. /\ run \in Seq(FieldInfo) /\ Len(run) \in Nat /\ DOMAIN run = 1 .. Len(run)
      /\ \A k \in DOMAIN run : run[k] \in S
      /\ \A g \in S : \E k \in DOMAIN run : run[k] = g
      /\ \A i, j \in DOMAIN run : i < j => run[i].n < run[j].n
  BY DEF InOrder, Range
<1>2. /\ ext \in Seq(FieldInfo) /\ DOMAIN ext = 1 .. Len(run) + 1
      /\ \A k \in 1 .. Len(run) : ext[k] = run[k]
      /\ ext[Len(run) + 1] = x
  BY <1>1
<1>. HIDE DEF ext
<1>3. Range(ext) = S \cup {x}
  <2>1. \A k \in DOMAIN ext : ext[k] \in S \cup {x}
    BY <1>1, <1>2
  <2>2. \A g \in S \cup {x} : \E k \in DOMAIN ext : ext[k] = g
    BY <1>1, <1>2
  <2>. QED  BY <2>1, <2>2 DEF Range
<1>4. ASSUME NEW i \in DOMAIN ext, NEW j \in DOMAIN ext, i < j PROVE ext[i].n < ext[j].n
  <2>1. CASE j = Len(run) + 1
    BY <1>1, <1>2, <1>4, <2>1
  <2>2. CASE j # Len(run) + 1
    BY <1>1, <1>2, <1>4, <2>2
  <2>. QED  BY <2>1, <2>2
<1>. QED  BY <1>2, <1>3, <1>4 DEF InOrder, ext

\* What of the fields passed by the loop has written, or is to be left out.
Written(old, new, e, s) ==
  Passed(new, s.new_it, e)
    \cup {f \in Passed(old, s.old_it, e) : \A g \in Of(new, e) : g.n # f.n}

\* So far the run has the newest of the fields that were passed, and all that are
\* left come behind them.
MergesSoFar(old, new, e, s) ==
  /\ s \in MergeState(old, new)
  /\ Beyond(old, s.old_it, e) /\ Beyond(new, s.new_it, e)
  /\ InOrder(s.run, Written(old, new, e, s))
  /\ \A f \in Written(old, new, e, s) :
       \A g \in Left(old, s.old_it, e) \cup Left(new, s.new_it, e) : f.n < g.n

LEMMA RoundMerges ==
  ASSUME NEW old, NEW new, Grouped(old), Grouped(new), InEntityOrder(old), InEntityOrder(new),
         NEW e \in Nat, NEW s, MergesSoFar(old, new, e, s)
  PROVE  MergesSoFar(old, new, e, MergeRound(old, new, e, s))
<1>. DEFINE i == s.old_it
            j == s.new_it
            ob == At(old, i, e)
            nb == At(new, j, e)
            steps == i <= Len(old) /\ new[j].n = old[i].n
            t == MergeRound(old, new, e, s)
            W == Written(old, new, e, s)
            Fits(f) == \A g \in Of(new, e) : g.n # f.n
<1>1. /\ s \in MergeState(old, new) /\ Beyond(old, i, e) /\ Beyond(new, j, e)
      /\ InOrder(s.run, W)
      /\ \A f \in W : \A g \in Left(old, i, e) \cup Left(new, j, e) : f.n < g.n
  BY DEF MergesSoFar
<1>2. /\ old \in Seq(FieldInfo) /\ new \in Seq(FieldInfo)
      /\ Len(old) \in Nat /\ Len(new) \in Nat
  BY DEF Grouped
<1>3. t \in MergeState(old, new)
  BY <1>1, <1>2, RoundAdvances
<1>4. /\ i \in 1 .. Len(old) + 1 /\ j \in 1 .. Len(new) + 1
      /\ W = Passed(new, j, e) \cup {f \in Passed(old, i, e) : Fits(f)}
  BY <1>1 DEF Beyond, Written
<1>5. \A fields, it : Passed(fields, it, e) \subseteq Range(fields) /\ Left(fields, it, e) \subseteq Range(fields)
  BY DEF Passed, Left, Range
<1>6. \A f \in Range(old) \cup Range(new) : f \in FieldInfo /\ f.n \in Nat
  <2>1. \A f \in Range(old) \cup Range(new) : f \in FieldInfo
    BY <1>2 DEF Range
  <2>2. Field \subseteq Nat
    BY FieldSets
  <2>. QED  BY <2>1, <2>2 DEF FieldInfo
<1>7. CASE nb /\ (ob => new[j].n <= old[i].n)
  <2>. DEFINE x == new[j]
              to == IF steps THEN i + 1 ELSE i
  <2>1. t.old_it = to /\ t.new_it = j + 1 /\ t.run = Append(s.run, x)
    BY <1>7 DEF MergeRound
  <2>2. /\ Beyond(new, j + 1, e) /\ x \in Left(new, j, e) /\ x \in Range(new) /\ x \in Of(new, e)
        /\ Passed(new, j + 1, e) = Passed(new, j, e) \cup {x}
        /\ Left(new, j + 1, e) \subseteq Left(new, j, e)
        /\ \A g \in Left(new, j + 1, e) : x.n < g.n
    BY <1>1, <1>5, <1>7, PlacePasses
  <2>3. /\ Beyond(old, to, e)
        /\ {f \in Passed(old, to, e) : Fits(f)} = {f \in Passed(old, i, e) : Fits(f)}
        /\ Left(old, to, e) \subseteq Left(old, i, e)
        /\ \A g \in Left(old, to, e) : x.n < g.n
    <3>1. CASE ob /\ steps
      <4>1. /\ Beyond(old, i + 1, e)
            /\ Passed(old, i + 1, e) = Passed(old, i, e) \cup {old[i]}
            /\ Left(old, i + 1, e) \subseteq Left(old, i, e)
            /\ \A g \in Left(old, i + 1, e) : old[i].n < g.n
        BY <1>1, <3>1, PlacePasses
      <4>2. ~Fits(old[i]) /\ x.n = old[i].n /\ to = i + 1
        BY <2>2, <3>1
      <4>. HIDE DEF Fits, to, x
      <4>. QED  BY <4>1, <4>2
    <3>2. CASE ob /\ ~steps
      <4>1. \A g \in Left(old, i, e) : g = old[i] \/ old[i].n < g.n
        BY <1>1, <3>2, PlacePasses
      <4>2. i <= Len(old) /\ x.n # old[i].n /\ x.n <= old[i].n /\ to = i
        BY <1>7, <3>2 DEF At
      <4>3. x.n \in Nat /\ old[i].n \in Nat
        <5>1. old[i] \in Range(old)
          BY <1>2, <1>4, <4>2 DEF Range
        <5>. QED  BY <1>6, <2>2, <5>1
      <4>4. \A g \in Left(old, i, e) : g.n \in Nat
        BY <1>5, <1>6
      <4>. HIDE DEF Fits, to, x
      <4>5. \A g \in Left(old, i, e) : x.n < g.n
        BY <4>1, <4>2, <4>3, <4>4
      <4>. QED  BY <1>1, <4>2, <4>5
    <3>3. CASE ~ob
      <4>1. Left(old, i, e) = {}
        BY <1>1, <3>3, PlacePasses
      <4>2. steps => /\ Beyond(old, i + 1, e) /\ Left(old, i + 1, e) = {}
                     /\ Passed(old, i + 1, e) = Passed(old, i, e)
        BY <1>1, <3>3, PlacePasses
      <4>3. to = i \/ (steps /\ to = i + 1)
        OBVIOUS
      <4>. HIDE DEF Fits, to, x, steps
      <4>. QED  BY <1>1, <4>1, <4>2, <4>3
    <3>. QED  BY <3>1, <3>2, <3>3
  <2>4. Written(old, new, e, t) = W \cup {x}
    <3>1. Written(old, new, e, t) =
            Passed(new, j + 1, e) \cup {f \in Passed(old, to, e) : Fits(f)}
      BY <2>1 DEF Written
    <3>. HIDE DEF Fits, to, x, W
    <3>. QED  BY <1>4, <2>2, <2>3, <3>1
  <2>5. x \in FieldInfo /\ \A g \in W : g.n < x.n
    BY <1>1, <1>6, <2>2
  <2>. HIDE DEF W, x, to, t, Fits
  <2>6. InOrder(t.run, W \cup {x})
    BY <1>1, <2>1, <2>5, OrderExtends
  <2>7. \A f \in W \cup {x} : \A g \in Left(old, to, e) \cup Left(new, j + 1, e) : f.n < g.n
    BY <1>1, <2>2, <2>3
  <2>. QED  BY <1>3, <2>1, <2>2, <2>3, <2>4, <2>6, <2>7 DEF MergesSoFar, t
<1>8. CASE ob /\ ~(nb /\ new[j].n <= old[i].n)
  <2>. DEFINE y == old[i]
  <2>1. t.old_it = i + 1 /\ t.new_it = j /\ t.run = Append(s.run, y)
    <3>1. t = [s EXCEPT !.old_it = @ + 1, !.run = Append(@, y)]
      BY <1>8 DEF MergeRound
    <3>. QED  BY <1>1, <3>1 DEF MergeState
  <2>2. /\ Beyond(old, i + 1, e) /\ y \in Left(old, i, e) /\ y \in Range(old)
        /\ Passed(old, i + 1, e) = Passed(old, i, e) \cup {y}
        /\ Left(old, i + 1, e) \subseteq Left(old, i, e)
        /\ \A g \in Left(old, i + 1, e) : y.n < g.n
    BY <1>1, <1>5, <1>8, PlacePasses
  <2>3. \A g \in Left(new, j, e) : y.n < g.n
    <3>1. CASE nb
      <4>1. \A g \in Left(new, j, e) : g = new[j] \/ new[j].n < g.n
        BY <1>1, <3>1, PlacePasses
      <4>2. new[j] \in Range(new)
        BY <1>2, <1>4, <3>1 DEF At, Range
      <4>3. \A g \in Left(new, j, e) : g.n \in Nat
        BY <1>5, <1>6
      <4>4. y.n \in Nat /\ new[j].n \in Nat
        BY <1>6, <2>2, <4>2
      <4>5. ~(new[j].n <= y.n)
        BY <1>8, <3>1
      <4>. HIDE DEF y
      <4>. QED  BY <4>1, <4>3, <4>4, <4>5
    <3>2. CASE ~nb
      <4>1. Left(new, j, e) = {}
        BY <1>1, <3>2, PlacePasses
      <4>. QED  BY <4>1
    <3>. QED  BY <3>1, <3>2
  <2>4. Fits(y)
    <3>1. Of(new, e) = Passed(new, j, e) \cup Left(new, j, e)
      BY <1>1, PlacePasses
    <3>2. \A g \in Passed(new, j, e) : g.n < y.n
      BY <1>1, <1>4, <2>2
    <3>3. y.n \in Nat /\ \A g \in Of(new, e) : g.n \in Nat
      BY <1>5, <1>6, <2>2, <3>1
    <3>. HIDE DEF y
    <3>. QED  BY <2>3, <3>1, <3>2, <3>3
  <2>5. Written(old, new, e, t) = W \cup {y}
    <3>1. Written(old, new, e, t) =
            Passed(new, j, e) \cup {f \in Passed(old, i + 1, e) : Fits(f)}
      BY <2>1 DEF Written
    <3>. HIDE DEF Fits, y, W
    <3>. QED  BY <1>4, <2>2, <2>4, <3>1
  <2>6. y \in FieldInfo /\ \A g \in W : g.n < y.n
    BY <1>1, <1>6, <2>2
  <2>. HIDE DEF W, y, t, Fits
  <2>7. InOrder(t.run, W \cup {y})
    BY <1>1, <2>1, <2>6, OrderExtends
  <2>8. \A f \in W \cup {y} : \A g \in Left(old, i + 1, e) \cup Left(new, j, e) : f.n < g.n
    BY <1>1, <2>2, <2>3
  <2>. QED  BY <1>1, <1>3, <2>1, <2>2, <2>5, <2>7, <2>8 DEF MergesSoFar, t
<1>9. CASE ~ob /\ ~nb
  <2>1. t = s
    BY <1>9 DEF MergeRound
  <2>. QED  BY <2>1
<1>. QED  BY <1>7, <1>8, <1>9

\* mergeWithNext's loop, in fields that are in order: although it steps over
\* fields of other entities it writes the newest of each field of e, by number.
THEOREM MergeLoopExact ==
  ASSUME NEW old, NEW new, Grouped(old), Grouped(new), InEntityOrder(old), InEntityOrder(new),
         NEW e \in Nat
  PROVE  InOrder(MergeLoop(old, new, e).run, Newest(Of(old, e), Of(new, e)))
<1>. DEFINE N == Len(old) + Len(new)
            begin == MergeBegins(old, new, e)
<1>1. /\ old \in Seq(FieldInfo) /\ new \in Seq(FieldInfo)
      /\ Len(old) \in Nat /\ Len(new) \in Nat /\ N \in Nat
  BY DEF Grouped
<1>0. PICK f : LoopStates(f, old, new, e)
  BY <1>1, LoopRounds
<1>2. /\ f[0] = begin /\ MergeLoop(old, new, e) = f[N]
      /\ \A k \in 1 .. N : f[k] = MergeRound(old, new, e, f[k - 1])
  BY <1>0 DEF LoopStates
<1>3. MergesSoFar(old, new, e, f[0])
  <2>1. \A fields \in {old, new} :
          /\ LowerBound(fields, e) \in 1 .. Len(fields) + 1
          /\ \A j \in DOMAIN fields : /\ j < LowerBound(fields, e) => fields[j].e < e
                                      /\ j >= LowerBound(fields, e) => fields[j].e >= e
    BY <1>1, LowerBoundExact
  <2>2. ASSUME NEW fields \in {old, new}
        PROVE  /\ Beyond(fields, LowerBound(fields, e), e)
               /\ Passed(fields, LowerBound(fields, e), e) = {}
    <3>1. \A j \in DOMAIN fields : j < LowerBound(fields, e) => fields[j].e # e
      BY <2>1
    <3>. QED  BY <2>1, <3>1 DEF Beyond, Passed
  <2>3. /\ begin.old_it = LowerBound(old, e) /\ begin.new_it = LowerBound(new, e)
        /\ begin.run = <<>> /\ begin \in MergeState(old, new)
    BY <2>1 DEF MergeBegins, MergeState
  <2>. HIDE DEF begin
  <2>4. Written(old, new, e, begin) = {}
    BY <2>2, <2>3 DEF Written
  <2>5. InOrder(<<>>, {})
    BY DEF InOrder, Range
  <2>. QED  BY <1>2, <2>2, <2>3, <2>4, <2>5 DEF MergesSoFar
<1>4. ASSUME NEW k \in 0 .. N PROVE MergesSoFar(old, new, e, f[k])
  <2>. DEFINE Bad == {m \in 0 .. N : ~MergesSoFar(old, new, e, f[m])}
  <2>. SUFFICES ASSUME Bad # {} PROVE FALSE
    BY <1>4
  <2>1. PICK m \in Bad : \A n \in Bad : ~(n < m)
    <3>1. Bad \in SUBSET Nat
      BY <1>1
    <3>. QED  BY <3>1, Smallest
  <2>2. m \in 1 .. N /\ m - 1 \in 0 .. N /\ m - 1 < m
    BY <1>1, <1>3, <2>1
  <2>3. MergesSoFar(old, new, e, f[m - 1])
    BY <2>1, <2>2
  <2>4. MergesSoFar(old, new, e, f[m])
    BY <1>2, <2>2, <2>3, RoundMerges
  <2>. QED  BY <2>1, <2>4
<1>5. MergesSoFar(old, new, e, f[N])
  BY <1>1, <1>4
<1>6. ~At(old, f[N].old_it, e) /\ ~At(new, f[N].new_it, e)
  <2>1. f[0] \in MergeState(old, new)
    BY <1>3 DEF MergesSoFar
  <2>. QED  BY <1>1, <1>2, <2>1, LoopEnds
<1>7. Passed(old, f[N].old_it, e) = Of(old, e) /\ Passed(new, f[N].new_it, e) = Of(new, e)
  <2>. DEFINE i == f[N].old_it
              j == f[N].new_it
  <2>1. Beyond(old, i, e) /\ Beyond(new, j, e)
    BY <1>5 DEF MergesSoFar
  <2>. HIDE DEF i, j
  <2>2. Left(old, i, e) = {} /\ Passed(old, i, e) \cup Left(old, i, e) = Of(old, e)
    BY <1>6, <2>1, PlacePasses DEF i
  <2>3. Left(new, j, e) = {} /\ Passed(new, j, e) \cup Left(new, j, e) = Of(new, e)
    BY <1>6, <2>1, PlacePasses DEF j
  <2>. QED  BY <2>2, <2>3 DEF i, j
<1>8. Written(old, new, e, f[N]) = Newest(Of(old, e), Of(new, e))
  BY <1>7 DEF Written, Newest
<1>. QED  BY <1>2, <1>5, <1>8 DEF MergesSoFar

-----------------------------------------------------------------------------
(* Grouped fields *)

\* The runs of different entities, one after the other.
LEMMA FlattenGrouped ==
  ASSUME NEW seqs \in Seq(Seq(FieldInfo)), NEW order,
         \A k \in DOMAIN seqs : \A i \in DOMAIN seqs[k] : seqs[k][i].e = order[k],
         \A k \in DOMAIN seqs : \A i, j \in DOMAIN seqs[k] : i < j => seqs[k][i].n < seqs[k][j].n,
         \A k, m \in DOMAIN seqs : order[k] = order[m] => k = m
  PROVE  LET flat == FlattenSeq(seqs) IN
         /\ Grouped(flat)
         /\ \A f : f \in Range(flat) <=> \E k \in DOMAIN seqs : f \in Range(seqs[k])
         /\ (\A k, m \in DOMAIN seqs : k < m => order[k] < order[m])
            /\ (\A k \in DOMAIN seqs : order[k] \in Nat)
            => InEntityOrder(flat)
<1>. DEFINE flat == FlattenSeq(seqs)
<1>1. flat \in Seq(FieldInfo) /\ \E w, j : Places(flat, seqs, w, j)
  BY FlattenPlaces
<1>2. PICK w, j : Places(flat, seqs, w, j)
  BY <1>1
<1>. HIDE DEF flat
<1>3. /\ Len(flat) \in Nat /\ DOMAIN flat = 1 .. Len(flat)
      /\ DOMAIN seqs = 1 .. Len(seqs) /\ Len(seqs) \in Nat
      /\ \A k \in DOMAIN seqs : DOMAIN seqs[k] = 1 .. Len(seqs[k])
  <2>1. \A k \in DOMAIN seqs : seqs[k] \in Seq(FieldInfo)
    OBVIOUS
  <2>. QED  BY <1>1, <2>1
<1>4. \A p \in DOMAIN flat : /\ w[p] \in DOMAIN seqs /\ j[p] \in DOMAIN seqs[w[p]]
                             /\ flat[p] = seqs[w[p]][j[p]] /\ flat[p].e = order[w[p]]
  <2>. TAKE p \in DOMAIN flat
  <2>1. /\ w[p] \in 1 .. Len(seqs) /\ j[p] \in 1 .. Len(seqs[w[p]])
        /\ flat[p] = seqs[w[p]][j[p]]
    BY <1>2, <1>3 DEF Places
  <2>2. w[p] \in DOMAIN seqs /\ j[p] \in DOMAIN seqs[w[p]]
    BY <1>3, <2>1
  <2>. QED  BY <2>1, <2>2
<1>5. \A p, q \in DOMAIN flat : p < q => w[p] < w[q] \/ (w[p] = w[q] /\ j[p] < j[q])
  BY <1>2, <1>3 DEF Places
<1>6. \A p \in DOMAIN flat : w[p] \in Nat /\ j[p] \in Nat
  <2>. TAKE p \in DOMAIN flat
  <2>1. w[p] \in 1 .. Len(seqs) /\ j[p] \in 1 .. Len(seqs[w[p]])
    BY <1>3, <1>4
  <2>. QED  BY <2>1
<1>7. ASSUME NEW k \in DOMAIN seqs, NEW m \in DOMAIN seqs[k]
      PROVE  \E p \in DOMAIN flat : w[p] = k /\ j[p] = m
  <2>1. k \in 1 .. Len(seqs) /\ m \in 1 .. Len(seqs[k])
    BY <1>3
  <2>2. \A x \in 1 .. Len(seqs) : \A y \in 1 .. Len(seqs[x]) :
          \E p \in 1 .. Len(flat) : w[p] = x /\ j[p] = y
    BY <1>2 DEF Places
  <2>3. PICK p \in 1 .. Len(flat) : w[p] = k /\ j[p] = m
    BY <2>1, <2>2
  <2>. QED  BY <1>3, <2>3
<1>8. ASSUME NEW p \in DOMAIN flat, NEW q \in DOMAIN flat, p < q, flat[p].e = flat[q].e
      PROVE  flat[p].n < flat[q].n /\ \A x \in p .. q : flat[x].e = flat[p].e
  <2>1. w[p] = w[q]
    BY <1>4, <1>8, SMTT(60)
  <2>2. j[p] < j[q]
    BY <1>5, <1>6, <1>8, <2>1
  <2>3. flat[p].n < flat[q].n
    BY <1>4, <2>1, <2>2
  <2>4. ASSUME NEW x \in p .. q
        PROVE  flat[x].e = flat[p].e
    <3>1. x \in DOMAIN flat /\ p \in Nat /\ q \in Nat /\ x \in Nat
      BY <1>3
    <3>2. p = x \/ p < x
      BY <3>1
    <3>3. x = q \/ x < q
      BY <3>1
    <3>4. w[p] = w[x] \/ w[p] < w[x]
      BY <1>5, <3>1, <3>2
    <3>5. w[x] = w[q] \/ w[x] < w[q]
      BY <1>5, <3>1, <3>3
    <3>6. w[p] \in Nat /\ w[x] \in Nat /\ w[q] \in Nat
      BY <1>6, <3>1
    <3>7. w[x] = w[p]
      BY ONLY <2>1, <3>4, <3>5, <3>6
    <3>8. flat[x].e = order[w[x]]
      BY <1>4, <3>1
    <3>9. flat[p].e = order[w[p]]
      BY <1>4
    <3>. QED  BY <3>7, <3>8, <3>9
  <2>. QED  BY <2>3, <2>4
<1>9. Grouped(flat)
  BY <1>1, <1>8 DEF Grouped, flat
<1>10. ASSUME NEW f
       PROVE  f \in Range(flat) <=> \E k \in DOMAIN seqs : f \in Range(seqs[k])
  <2>1. ASSUME NEW p \in DOMAIN flat
        PROVE  \E k \in DOMAIN seqs : flat[p] \in Range(seqs[k])
    BY <1>4, SMTT(60) DEF Range
  <2>2. ASSUME NEW k \in DOMAIN seqs, NEW m \in DOMAIN seqs[k]
        PROVE  seqs[k][m] \in Range(flat)
    <3>1. PICK p \in DOMAIN flat : w[p] = k /\ j[p] = m
      BY <1>7
    <3>2. flat[p] = seqs[k][m]
      BY <1>4, <3>1
    <3>. QED  BY <3>2 DEF Range
  <2>. QED  BY <2>1, <2>2 DEF Range
<1>11. ASSUME \A k, m \in DOMAIN seqs : k < m => order[k] < order[m],
              \A k \in DOMAIN seqs : order[k] \in Nat,
              NEW p \in 2 .. Len(flat)
       PROVE  flat[p - 1].e <= flat[p].e
  <2>1. p - 1 \in DOMAIN flat /\ p \in DOMAIN flat /\ p - 1 < p
    BY <1>3
  <2>2. w[p - 1] < w[p] \/ w[p - 1] = w[p]
    BY <1>5, <2>1
  <2>3. /\ w[p - 1] \in DOMAIN seqs /\ flat[p - 1].e = order[w[p - 1]]
        /\ w[p] \in DOMAIN seqs /\ flat[p].e = order[w[p]]
    BY <1>4, <2>1
  <2>4. order[w[p - 1]] < order[w[p]] \/ order[w[p - 1]] = order[w[p]]
    BY <1>11, <2>2, <2>3
  <2>5. order[w[p - 1]] \in Nat /\ order[w[p]] \in Nat
    BY <1>11, <2>3
  <2>. QED  BY ONLY <2>3, <2>4, <2>5, SMTT(60)
<1>. QED  BY <1>9, <1>10, <1>11 DEF InEntityOrder, flat

\* Fields of some entities after those of others.
LEMMA JoinGrouped ==
  ASSUME NEW a, NEW b, Grouped(a), Grouped(b),
         \A f \in Range(a), g \in Range(b) : f.e # g.e
  PROVE  Grouped(a \o b) /\ Range(a \o b) = Range(a) \cup Range(b)
<1>. DEFINE s == a \o b
            m == Len(a)
            n == Len(b)
<1>1. a \in Seq(FieldInfo) /\ b \in Seq(FieldInfo)
  BY DEF Grouped
<1>2. /\ m \in Nat /\ n \in Nat /\ DOMAIN a = 1 .. m /\ DOMAIN b = 1 .. n
      /\ s \in Seq(FieldInfo) /\ Len(s) = m + n /\ DOMAIN s = 1 .. m + n
      /\ \A i \in 1 .. m + n : s[i] = IF i <= m THEN a[i] ELSE b[i - m]
  BY <1>1
<1>. HIDE DEF s, m, n
<1>3. \A i \in 1 .. m + n : /\ i <= m => i \in DOMAIN a /\ s[i] = a[i]
                            /\ ~(i <= m) => i - m \in DOMAIN b /\ s[i] = b[i - m]
  BY <1>2
<1>4. \A i \in 1 .. m : i \in 1 .. m + n
  BY <1>2
<1>5. \A i \in 1 .. n : m + i \in 1 .. m + n /\ ~(m + i <= m) /\ (m + i) - m = i
  BY <1>2
<1>6. Range(s) = Range(a) \cup Range(b)
  <2>1. \A i \in DOMAIN s : s[i] \in Range(a) \cup Range(b)
    BY <1>2, <1>3 DEF Range
  <2>2. \A i \in DOMAIN a : a[i] \in Range(s)
    <3>. TAKE i \in DOMAIN a
    <3>1. i \in DOMAIN s /\ s[i] = a[i]
      BY <1>2, <1>3, <1>4
    <3>. QED  BY <3>1 DEF Range
  <2>3. \A i \in DOMAIN b : b[i] \in Range(s)
    <3>. TAKE i \in DOMAIN b
    <3>1. m + i \in DOMAIN s /\ s[m + i] = b[i]
      BY <1>2, <1>3, <1>5
    <3>. QED  BY <3>1 DEF Range
  <2>. QED  BY <2>1, <2>2, <2>3 DEF Range
<1>7. ASSUME NEW i \in DOMAIN s, NEW k \in DOMAIN s, i < k, s[i].e = s[k].e
      PROVE  s[i].n < s[k].n /\ \A j \in i .. k : s[j].e = s[i].e
  <2>0. i \in 1 .. m + n /\ k \in 1 .. m + n
    BY <1>2
  <2>1. CASE k <= m
    <3>1. i \in DOMAIN a /\ k \in DOMAIN a /\ s[i] = a[i] /\ s[k] = a[k]
      BY <1>2, <1>3, <1>7, <2>0, <2>1
    <3>2. a[i].n < a[k].n /\ \A j \in i .. k : a[j].e = a[i].e
      BY <1>7, <3>1 DEF Grouped
    <3>3. \A j \in i .. k : j \in 1 .. m + n /\ j <= m
      BY <1>2, <2>0, <2>1
    <3>. QED  BY <1>3, <3>1, <3>2, <3>3
  <2>2. CASE ~(i <= m)
    <3>1. /\ ~(k <= m) /\ i - m \in DOMAIN b /\ k - m \in DOMAIN b /\ i - m < k - m
          /\ s[i] = b[i - m] /\ s[k] = b[k - m]
      BY <1>2, <1>3, <1>7, <2>0, <2>2
    <3>2. b[i - m].n < b[k - m].n /\ \A j \in i - m .. k - m : b[j].e = b[i - m].e
      BY <1>7, <3>1 DEF Grouped
    <3>3. \A j \in i .. k : j \in 1 .. m + n /\ ~(j <= m) /\ j - m \in i - m .. k - m
      BY <1>2, <2>0, <2>2
    <3>. QED  BY <1>3, <3>1, <3>2, <3>3
  <2>3. CASE i <= m /\ ~(k <= m)
    <3>1. s[i] \in Range(a) /\ s[k] \in Range(b)
      BY <1>3, <2>0, <2>3 DEF Range
    <3>. QED  BY <1>7, <3>1
  <2>. QED  BY <2>1, <2>2, <2>3
<1>. QED  BY <1>2, <1>6, <1>7 DEF Grouped, s
-----------------------------------------------------------------------------
(* Merging two deltas *)

\* A delta as the code makes them: the fields of each entity lie together, none
\* are of an entity it deletes.
DeltaOK(d) ==
  /\ Grouped(d.fields)
  /\ DOMAIN d.ents \in SUBSET Nat /\ IsFiniteSet(DOMAIN d.ents)
  /\ \A f \in Range(d.fields) : f.e \in DOMAIN d.ents /\ d.ents[f.e].num # 0
  /\ \A i \in DOMAIN d.ents : d.ents[i].full => d.ents[i].num # 0

\* One run for each entity of a set, joined in the order of their ids.
LEMMA RunsJoined ==
  ASSUME NEW E \in SUBSET Nat, IsFiniteSet(E), NEW R, NEW A,
         \A e \in E : InOrder(R[e], A[e]) /\ \A f \in A[e] : f.e = e
  PROVE  LET order == Ascending(E)
             flat == FlattenSeq([k \in DOMAIN order |-> R[order[k]]])
         IN /\ Grouped(flat) /\ InEntityOrder(flat)
            /\ \A f : f \in Range(flat) <=> \E e \in E : f \in A[e]
<1>. DEFINE order == Ascending(E)
            seqs == [k \in DOMAIN order |-> R[order[k]]]
            flat == FlattenSeq(seqs)
<1>1. /\ order \in Seq(E) /\ DOMAIN order = 1 .. Len(order)
      /\ \A i, j \in DOMAIN order : (i < j => order[i] < order[j]) /\ (order[i] = order[j] => i = j)
      /\ \A x \in E : \E i \in DOMAIN order : order[i] = x
  BY AscendingExact
<1>. HIDE DEF order
<1>2. Len(order) \in Nat /\ \A k \in DOMAIN order : order[k] \in E /\ order[k] \in Nat
  <2>1. Len(order) \in Nat /\ \A k \in 1 .. Len(order) : order[k] \in E
    BY ONLY <1>1
  <2>. QED  BY <1>1, <2>1
<1>3. \A k \in DOMAIN order : InOrder(R[order[k]], A[order[k]]) /\ \A f \in A[order[k]] : f.e = order[k]
  BY <1>2
<1>4. DOMAIN seqs = DOMAIN order /\ \A k \in DOMAIN seqs : seqs[k] = R[order[k]]
  OBVIOUS
<1>5. seqs \in Seq(Seq(FieldInfo))
  BY <1>1, <1>2, <1>3 DEF InOrder
<1>. HIDE DEF seqs
<1>6. \A k \in DOMAIN seqs : \A i \in DOMAIN seqs[k] : seqs[k][i].e = order[k]
  BY <1>3, <1>4 DEF InOrder, Range
<1>7. \A k \in DOMAIN seqs : \A i, j \in DOMAIN seqs[k] : i < j => seqs[k][i].n < seqs[k][j].n
  BY <1>3, <1>4 DEF InOrder
<1>8. \A k, m \in DOMAIN seqs : order[k] = order[m] => k = m
  BY <1>1, <1>4
<1>9. /\ \A k, m \in DOMAIN seqs : k < m => order[k] < order[m]
      /\ \A k \in DOMAIN seqs : order[k] \in Nat
  BY <1>1, <1>2, <1>4
<1>10. /\ Grouped(flat)
       /\ \A f : f \in Range(flat) <=> \E k \in DOMAIN seqs : f \in Range(seqs[k])
       /\ InEntityOrder(flat)
  BY <1>5, <1>6, <1>7, <1>8, <1>9, FlattenGrouped
<1>. HIDE DEF flat
<1>11. ASSUME NEW f PROVE f \in Range(flat) <=> \E e \in E : f \in A[e]
  <2>1. \A k \in DOMAIN seqs : Range(seqs[k]) = A[order[k]]
    BY <1>3, <1>4 DEF InOrder
  <2>2. f \in Range(flat) <=> \E k \in DOMAIN order : f \in A[order[k]]
    BY <1>4, <1>10, <2>1
  <2>. QED  BY <1>1, <1>2, <2>2
<1>. QED  BY <1>10, <1>11 DEF order, seqs, flat

\* The fields of the merged delta: those of the newer one, and those of the older
\* one that it does not name and whose entity it does not delete.
LEMMA MergedFieldsExact ==
  ASSUME NEW this, NEW that, DeltaOK(this), DeltaOK(that),
         InEntityOrder(this.fields), InEntityOrder(that.fields)
  PROVE  LET fields == MergedFields(this, that) IN
         /\ Grouped(fields)
         /\ \A f : f \in Range(fields) <=>
              \/ f \in Range(that.fields)
              \/ /\ f \in Range(this.fields)
                 /\ f.e \in DOMAIN that.ents =>
                      that.ents[f.e].num # 0 /\ \A g \in Of(that.fields, f.e) : g.n # f.n
<1>. DEFINE D == DOMAIN this.ents
            C == DOMAIN that.ents
            one == (D \cup C) \ (D \cap C)
            both == ChangedInBoth(this, that)
            A(e) == Of(this.fields, e)
            B(e) == Of(that.fields, e)
            single(e) == FoundRun(IF \E k \in DOMAIN this.fields : this.fields[k].e = e
                                    THEN this.fields ELSE that.fields, e)
            merged(e) == MergeLoop(this.fields, that.fields, e).run
            R1 == [e \in one |-> single(e)]
            A1 == [e \in one |-> A(e) \cup B(e)]
            R2 == [e \in both |-> merged(e)]
            A2 == [e \in both |-> Newest(A(e), B(e))]
            ones == Ascending(one)
            boths == Ascending(both)
            flat1 == FlattenSeq([k \in DOMAIN ones |-> R1[ones[k]]])
            flat2 == FlattenSeq([k \in DOMAIN boths |-> R2[boths[k]]])
<1>1. /\ D \in SUBSET Nat /\ C \in SUBSET Nat /\ IsFiniteSet(D) /\ IsFiniteSet(C)
      /\ Grouped(this.fields) /\ Grouped(that.fields)
      /\ \A f \in Range(this.fields) : f.e \in D /\ this.ents[f.e].num # 0
      /\ \A f \in Range(that.fields) : f.e \in C /\ that.ents[f.e].num # 0
  BY DEF DeltaOK
<1>2. /\ one \in SUBSET Nat /\ IsFiniteSet(one)
      /\ both \in SUBSET Nat /\ IsFiniteSet(both) /\ both \subseteq D \cap C
  <2>1. IsFiniteSet(D \cup C)
    BY <1>1, FS_Union
  <2>. QED  BY <1>1, <2>1, FS_Subset DEF ChangedInBoth
<1>3. \A e \in D \cup C : A(e) \subseteq Range(this.fields) /\ B(e) \subseteq Range(that.fields)
                          /\ \A f \in A(e) \cup B(e) : f.e = e
  BY DEF Of
<1>4. ASSUME NEW e \in one
      PROVE  InOrder(R1[e], A1[e]) /\ \A f \in A1[e] : f.e = e
  <2>1. e \in Nat
    BY <1>2
  <2>2. CASE \E k \in DOMAIN this.fields : this.fields[k].e = e
    <3>1. e \in D
      BY <1>1, <2>2 DEF Range
    <3>2. B(e) = {}
      BY <1>1, <3>1 DEF Of
    <3>3. InOrder(FoundRun(this.fields, e), A(e))
      BY <1>1, <2>1, FoundRunExact
    <3>4. A1[e] = A(e) /\ R1[e] = FoundRun(this.fields, e)
      BY <2>2, <3>2
    <3>. QED  BY <3>3, <3>4 DEF Of
  <2>3. CASE ~ \E k \in DOMAIN this.fields : this.fields[k].e = e
    <3>2. A(e) = {}
      BY <2>3 DEF Of, Range
    <3>3. InOrder(FoundRun(that.fields, e), B(e))
      BY <1>1, <2>1, FoundRunExact
    <3>4. A1[e] = B(e) /\ R1[e] = FoundRun(that.fields, e)
      BY <2>3, <3>2
    <3>. QED  BY <3>3, <3>4 DEF Of
  <2>. QED  BY <2>2, <2>3
<1>5. ASSUME NEW e \in both
      PROVE  InOrder(R2[e], A2[e]) /\ \A f \in A2[e] : f.e = e
  <2>1. e \in Nat
    BY <1>2
  <2>3. InOrder(merged(e), Newest(A(e), B(e)))
    BY <1>1, <2>1, MergeLoopExact
  <2>4. R2[e] = merged(e) /\ A2[e] = Newest(A(e), B(e))
    OBVIOUS
  <2>. QED  BY <2>3, <2>4 DEF Newest, Of
<1>6. /\ Grouped(flat1)
      /\ \A f : f \in Range(flat1) <=> \E e \in one : f \in A1[e]
  <2>. HIDE DEF R1, A1, one
  <2>. QED  BY <1>2, <1>4, RunsJoined
<1>7. /\ Grouped(flat2)
      /\ \A f : f \in Range(flat2) <=> \E e \in both : f \in A2[e]
  <2>. HIDE DEF R2, A2, both
  <2>. QED  BY <1>2, <1>5, RunsJoined
<1>8. MergedFields(this, that) = flat1 \o flat2
  <2>1. [k \in DOMAIN ones |-> R1[ones[k]]] = [k \in DOMAIN ones |-> single(ones[k])]
    <3>1. \A k \in DOMAIN ones : ones[k] \in one
      <4>. HIDE DEF one
      <4>1. ones \in Seq(one)
        BY <1>2, AscendingExact
      <4>. HIDE DEF ones
      <4>. QED  BY <4>1
    <3>. QED  BY <3>1
  <2>2. [k \in DOMAIN boths |-> R2[boths[k]]] = [k \in DOMAIN boths |-> merged(boths[k])]
    <3>1. \A k \in DOMAIN boths : boths[k] \in both
      <4>. HIDE DEF both
      <4>1. boths \in Seq(both)
        BY <1>2, AscendingExact
      <4>. HIDE DEF boths
      <4>. QED  BY <4>1
    <3>. QED  BY <3>1
  <2>. QED  BY <2>1, <2>2 DEF MergedFields
<1>. HIDE DEF flat1, flat2
<1>9. ASSUME NEW f \in Range(flat1), NEW g \in Range(flat2) PROVE f.e # g.e
  <2>. HIDE DEF R1, A1, R2, A2, both
  <2>1. f.e \in one
    BY <1>4, <1>6
  <2>2. g.e \in D \cap C
    BY <1>2, <1>5, <1>7
  <2>. QED  BY <2>1, <2>2
<1>10. Grouped(flat1 \o flat2) /\ Range(flat1 \o flat2) = Range(flat1) \cup Range(flat2)
  BY <1>6, <1>7, <1>9, JoinGrouped
<1>11. ASSUME NEW f
       PROVE  f \in Range(flat1) \cup Range(flat2) <=>
              \/ f \in Range(that.fields)
              \/ /\ f \in Range(this.fields)
                 /\ f.e \in DOMAIN that.ents =>
                      that.ents[f.e].num # 0 /\ \A g \in Of(that.fields, f.e) : g.n # f.n
  <2>1. f \in Range(flat1) <=> f.e \in one /\ (f \in Range(this.fields) \/ f \in Range(that.fields))
    BY <1>6 DEF Of
  <2>2. f \in Range(flat2) <=>
          /\ f.e \in both
          /\ \/ f \in Range(that.fields)
             \/ f \in Range(this.fields) /\ \A g \in Of(that.fields, f.e) : g.n # f.n
    BY <1>7 DEF Of, Newest
  <2>3. f.e \in both <=> f.e \in D /\ f.e \in C /\ that.ents[f.e].num # 0
    BY DEF ChangedInBoth
  <2>. QED  BY <1>1, <2>1, <2>2, <2>3
<1>. QED  BY <1>8, <1>10, <1>11
-----------------------------------------------------------------------------
(* What a delta tells of two worlds (id -> type and values of an entity) *)

\* Delta d leads from world w to world x: of every entity it names it tells whether
\* it is in x, and the fields it names have their values in x; all else of x is as
\* in w.
Leads(d, w, x) ==
  /\ \A i \in DOMAIN d.ents : d.ents[i].num = 0 <=> i \notin DOMAIN x
  /\ \A i \in (DOMAIN w \cup DOMAIN x) \ DOMAIN d.ents :
       i \in DOMAIN w /\ i \in DOMAIN x /\ w[i] = x[i]
  /\ \A i \in DOMAIN x \cap DOMAIN d.ents :
       /\ d.ents[i].type = x[i].type
       /\ \A f \in Of(d.fields, i) : f.v = x[i].f[f.n]
       /\ \A n \in Field :
            \/ \E f \in Of(d.fields, i) : f.n = n
            \/ ~d.ents[i].full /\ i \in DOMAIN w /\ w[i].f[n] = x[i].f[n]

\* A delta that leads somewhere, in the order mergeWithNext and writeToPacket need.
Sound(d, w, x) == DeltaOK(d) /\ InEntityOrder(d.fields) /\ Leads(d, w, x)

\* An empty delta leads from a world to itself.
LEMMA EmptyLeads ==
  ASSUME NEW w PROVE Sound(EmptyDelta, w, w)
<1>1. EmptyDelta.ents = <<>> /\ EmptyDelta.fields = <<>> /\ DOMAIN EmptyDelta.ents = {}
  BY DEF EmptyDelta
<1>2. Grouped(<<>>) /\ Range(<<>>) = {} /\ InEntityOrder(<<>>)
  BY DEF Grouped, Range, InEntityOrder
<1>. QED  BY <1>1, <1>2, FS_EmptySet DEF Sound, DeltaOK, Leads

\* What leads from one world to another leads from the other to itself.
LEMMA LeadsAgain ==
  ASSUME NEW d, NEW w, NEW x, Sound(d, w, x) PROVE Sound(d, x, x)
BY DEF Sound, Leads

\* mergeWithNext: one step after the other, told as one.
\* (Where it compared memory past the end, overrun, this is the case in which the
\* number there was another one; Garbled of Replication has the other cases.)
THEOREM MergedLeads ==
  ASSUME NEW this, NEW that, NEW w, NEW x, NEW y,
         Sound(this, w, x), Sound(that, x, y), MergeWithNext(this, that).sorted
  PROVE  Sound(MergeWithNext(this, that), w, y)
<1>. DEFINE m == MergeWithNext(this, that)
            D == DOMAIN this.ents
            C == DOMAIN that.ents
            Keeps(f) == f.e \in C =>
                          that.ents[f.e].num # 0 /\ \A g \in Of(that.fields, f.e) : g.n # f.n
<1>1. DeltaOK(this) /\ InEntityOrder(this.fields) /\ Leads(this, w, x)
  BY DEF Sound
<1>2. DeltaOK(that) /\ InEntityOrder(that.fields) /\ Leads(that, x, y)
  BY DEF Sound
<1>3. /\ m.ents = [i \in D \cup C |-> IF i \in C THEN that.ents[i] ELSE this.ents[i]]
      /\ m.fields = MergedFields(this, that) /\ InEntityOrder(m.fields)
  BY DEF MergeWithNext, NewerInfos
<1>. HIDE DEF m
<1>4. /\ Grouped(m.fields)
      /\ \A f : f \in Range(m.fields) <=>
           f \in Range(that.fields) \/ (f \in Range(this.fields) /\ Keeps(f))
  BY <1>1, <1>2, <1>3, MergedFieldsExact
<1>5. /\ DOMAIN m.ents = D \cup C
      /\ \A i \in C : m.ents[i] = that.ents[i]
      /\ \A i \in D \ C : m.ents[i] = this.ents[i]
  BY <1>3
<1>6. /\ D \in SUBSET Nat /\ IsFiniteSet(D) /\ C \in SUBSET Nat /\ IsFiniteSet(C)
      /\ \A f \in Range(this.fields) : f.e \in D /\ this.ents[f.e].num # 0
      /\ \A f \in Range(that.fields) : f.e \in C /\ that.ents[f.e].num # 0
      /\ \A i \in D : this.ents[i].full => this.ents[i].num # 0
      /\ \A i \in C : that.ents[i].full => that.ents[i].num # 0
  BY <1>1, <1>2 DEF DeltaOK
<1>7. DeltaOK(m)
  <2>1. D \cup C \in SUBSET Nat /\ IsFiniteSet(D \cup C)
    BY <1>6, FS_Union
  <2>2. ASSUME NEW f \in Range(m.fields) PROVE f.e \in D \cup C /\ m.ents[f.e].num # 0
    <3>1. CASE f \in Range(that.fields)
      BY <1>5, <1>6, <3>1
    <3>2. CASE f \in Range(this.fields) /\ Keeps(f)
      BY <1>5, <1>6, <3>2
    <3>. QED  BY <1>4, <3>1, <3>2
  <2>3. \A i \in D \cup C : m.ents[i].full => m.ents[i].num # 0
    BY <1>5, <1>6
  <2>. QED  BY <1>4, <1>5, <2>1, <2>2, <2>3 DEF DeltaOK
<1>8. ASSUME NEW i
      PROVE  Of(m.fields, i) = Of(that.fields, i) \cup {f \in Of(this.fields, i) : Keeps(f)}
  BY <1>4 DEF Of
<1>9. Leads(m, w, y)
  <2>1. ASSUME NEW i \in D \cup C PROVE m.ents[i].num = 0 <=> i \notin DOMAIN y
    <3>1. CASE i \in C
      BY <1>2, <1>5, <3>1 DEF Leads
    <3>2. CASE i \in D \ C
      <4>1. this.ents[i].num = 0 <=> i \notin DOMAIN x
        BY <1>1, <3>2 DEF Leads
      <4>2. i \in DOMAIN y <=> i \in DOMAIN x
        BY <1>2, <3>2 DEF Leads
      <4>. QED  BY <1>5, <3>2, <4>1, <4>2
    <3>. QED  BY <3>1, <3>2
  <2>2. ASSUME NEW i \in (DOMAIN w \cup DOMAIN y) \ (D \cup C)
        PROVE  i \in DOMAIN w /\ i \in DOMAIN y /\ w[i] = y[i]
    <3>1. i \in DOMAIN w \cup DOMAIN x => i \in DOMAIN w /\ i \in DOMAIN x /\ w[i] = x[i]
      BY <1>1 DEF Leads
    <3>2. i \in DOMAIN x \cup DOMAIN y => i \in DOMAIN x /\ i \in DOMAIN y /\ x[i] = y[i]
      BY <1>2 DEF Leads
    <3>. QED  BY <3>1, <3>2
  <2>3. ASSUME NEW i \in DOMAIN y, i \in C
        PROVE  /\ m.ents[i].type = y[i].type
               /\ \A f \in Of(m.fields, i) : f.v = y[i].f[f.n]
               /\ \A n \in Field :
                    \/ \E f \in Of(m.fields, i) : f.n = n
                    \/ ~m.ents[i].full /\ i \in DOMAIN w /\ w[i].f[n] = y[i].f[n]
    <3>1. /\ that.ents[i].type = y[i].type /\ that.ents[i].num # 0
          /\ \A f \in Of(that.fields, i) : f.v = y[i].f[f.n]
          /\ \A n \in Field :
               \/ \E f \in Of(that.fields, i) : f.n = n
               \/ ~that.ents[i].full /\ i \in DOMAIN x /\ x[i].f[n] = y[i].f[n]
      BY <1>2, <2>3 DEF Leads
    <3>2. Of(m.fields, i) =
            Of(that.fields, i) \cup {f \in Of(this.fields, i) : \A g \in Of(that.fields, i) : g.n # f.n}
      <4>1. \A f \in Of(this.fields, i) : Keeps(f) <=> \A g \in Of(that.fields, i) : g.n # f.n
        <5>1. \A f \in Of(this.fields, i) : f.e = i
          BY DEF Of
        <5>. QED  BY <2>3, <3>1, <5>1
      <4>. HIDE DEF Keeps
      <4>. QED  BY <1>8, <4>1
    <3>3. ASSUME NEW f \in Of(this.fields, i), \A g \in Of(that.fields, i) : g.n # f.n
          PROVE  f.v = y[i].f[f.n]
      <4>1. f.n \in Field /\ i \in D /\ this.ents[i].num # 0
        <5>1. f \in FieldInfo
          BY <1>1 DEF DeltaOK, Grouped, Of, Range
        <5>. QED  BY <1>6, <5>1 DEF Of, FieldInfo
      <4>2. i \in DOMAIN x /\ x[i].f[f.n] = y[i].f[f.n]
        BY <3>1, <3>3, <4>1
      <4>3. f.v = x[i].f[f.n]
        BY <1>1, <4>1, <4>2 DEF Leads
      <4>. QED  BY <4>2, <4>3
    <3>4. ASSUME NEW n \in Field, ~ \E f \in Of(m.fields, i) : f.n = n
          PROVE  ~m.ents[i].full /\ i \in DOMAIN w /\ w[i].f[n] = y[i].f[n]
      <4>1. \A f \in Of(that.fields, i) : f.n # n
        BY <3>2, <3>4
      <4>2. ~that.ents[i].full /\ i \in DOMAIN x /\ x[i].f[n] = y[i].f[n]
        BY <3>1, <4>1
      <4>3. \A f \in Of(this.fields, i) : f.n # n
        BY <3>2, <3>4, <4>1
      <4>4. i \in DOMAIN w /\ w[i].f[n] = x[i].f[n]
        BY <1>1, <4>2, <4>3 DEF Leads
      <4>. QED  BY <1>5, <2>3, <4>2, <4>4
    <3>5. \A f \in Of(m.fields, i) : f.v = y[i].f[f.n]
      BY <3>1, <3>2, <3>3
    <3>. QED  BY <1>5, <2>3, <3>1, <3>4, <3>5
  <2>4. ASSUME NEW i \in DOMAIN y, i \in D \ C
        PROVE  /\ m.ents[i].type = y[i].type
               /\ \A f \in Of(m.fields, i) : f.v = y[i].f[f.n]
               /\ \A n \in Field :
                    \/ \E f \in Of(m.fields, i) : f.n = n
                    \/ ~m.ents[i].full /\ i \in DOMAIN w /\ w[i].f[n] = y[i].f[n]
    <3>1. i \in DOMAIN x /\ x[i] = y[i]
      BY <1>2, <2>4 DEF Leads
    <3>2. Of(m.fields, i) = Of(this.fields, i)
      <4>1. Of(that.fields, i) = {}
        BY <1>6, <2>4 DEF Of
      <4>. QED  BY <1>8, <2>4, <4>1 DEF Of
    <3>. QED  BY <1>1, <1>5, <2>4, <3>1, <3>2 DEF Leads
  <2>. QED  BY <1>5, <2>1, <2>2, <2>3, <2>4 DEF Leads
<1>. QED  BY <1>3, <1>7, <1>9 DEF Sound, m
-----------------------------------------------------------------------------
(* Merging the deltas of several ticks *)

\* f merges the first n of deltas, one after the other.
Merges(f, n, deltas) ==
  f = [k \in 0 .. n |-> IF k = 0 THEN EmptyDelta ELSE MergeWithNext(f[k - 1], deltas[k])]

\* The recursion of Merged defines a function.
LEMMA MergesExists ==
  ASSUME NEW deltas, NEW n \in Nat
  PROVE  \E f : Merges(f, n, deltas)
<1>. DEFINE Bad == {k \in Nat : ~ \E f : Merges(f, k, deltas)}
<1>. SUFFICES ASSUME Bad # {} PROVE FALSE
  OBVIOUS
<1>1. PICK m \in Bad : \A k \in Bad : ~(k < m)
  BY Smallest
<1>2. m # 0
  <2>. DEFINE g == [k \in 0 .. 0 |-> EmptyDelta]
  <2>1. g = [k \in 0 .. 0 |-> IF k = 0 THEN EmptyDelta ELSE MergeWithNext(g[k - 1], deltas[k])]
    OBVIOUS
  <2>2. Merges(g, 0, deltas)
    BY <2>1 DEF Merges
  <2>. QED  BY <2>2
<1>3. m - 1 \in Nat /\ m - 1 < m
  BY <1>1, <1>2
<1>4. PICK f : Merges(f, m - 1, deltas)
  BY <1>1, <1>3
<1>. DEFINE g == [k \in 0 .. m |-> IF k = m THEN MergeWithNext(f[m - 1], deltas[m]) ELSE f[k]]
<1>5. \A k \in 0 .. m - 1 : g[k] = f[k]
  BY <1>1, <1>2
<1>6. g[m] = MergeWithNext(f[m - 1], deltas[m])
  BY <1>1
<1>7. \A k \in 0 .. m - 1 :
        f[k] = IF k = 0 THEN EmptyDelta ELSE MergeWithNext(f[k - 1], deltas[k])
  BY <1>4 DEF Merges
<1>8. ASSUME NEW k \in 0 .. m
      PROVE  g[k] = IF k = 0 THEN EmptyDelta ELSE MergeWithNext(g[k - 1], deltas[k])
  <2>. HIDE DEF g
  <2>1. CASE k = m
    <3>1. g[m - 1] = f[m - 1]
      BY <1>1, <1>2, <1>5
    <3>. QED  BY <1>2, <1>6, <2>1, <3>1
  <2>2. CASE k # m /\ k # 0
    <3>1. k \in 0 .. m - 1 /\ k - 1 \in 0 .. m - 1
      BY <1>1, <2>2
    <3>. QED  BY <1>5, <1>7, <2>2, <3>1
  <2>3. CASE k # m /\ k = 0
    BY <1>1, <1>5, <1>7, <2>3
  <2>. QED  BY <2>1, <2>2, <2>3
<1>9. DOMAIN g = 0 .. m
  OBVIOUS
<1>10. Merges(g, m, deltas)
  <2>1. g = [k \in 0 .. m |-> g[k]]
    OBVIOUS
  <2>. HIDE DEF g
  <2>. QED  BY <1>8, <2>1 DEF Merges
<1>. QED  BY <1>1, <1>10

\* A delta more is merged into what the others give.
LEMMA MergedStep ==
  ASSUME NEW S, NEW ds \in Seq(S), NEW d \in S
  PROVE  Merged(Append(ds, d)) = MergeWithNext(Merged(ds), d)
<1>. DEFINE n == Len(ds)
            ext == Append(ds, d)
            f == CHOOSE f : Merges(f, n + 1, ext)
            g == CHOOSE g : Merges(g, n, ds)
            Bad == {k \in 0 .. n : f[k] # g[k]}
<1>1. /\ n \in Nat /\ Len(ext) = n + 1 /\ ext[n + 1] = d
      /\ \A k \in 1 .. n : ext[k] = ds[k]
  OBVIOUS
<1>2. Merges(f, n + 1, ext) /\ Merges(g, n, ds)
  <2>. HIDE DEF ext
  <2>1. \E h : Merges(h, n + 1, ext)
    <3>1. n + 1 \in Nat
      BY <1>1
    <3>. QED  BY <3>1, MergesExists
  <2>2. \E h : Merges(h, n, ds)
    BY <1>1, MergesExists
  <2>. QED  BY <2>1, <2>2
<1>3. Merged(ext) = f[n + 1] /\ Merged(ds) = g[n]
  BY <1>1 DEF Merged, Merges
<1>. HIDE DEF f, g, ext
<1>4. /\ f[0] = EmptyDelta /\ g[0] = EmptyDelta
      /\ \A k \in 1 .. n + 1 : f[k] = MergeWithNext(f[k - 1], ext[k])
      /\ \A k \in 1 .. n : g[k] = MergeWithNext(g[k - 1], ds[k])
  <2>1. \A k \in 0 .. n + 1 :
          f[k] = IF k = 0 THEN EmptyDelta ELSE MergeWithNext(f[k - 1], ext[k])
    BY <1>2 DEF Merges
  <2>2. \A k \in 0 .. n : g[k] = IF k = 0 THEN EmptyDelta ELSE MergeWithNext(g[k - 1], ds[k])
    BY <1>2 DEF Merges
  <2>3. /\ 0 \in 0 .. n /\ 0 \in 0 .. n + 1
        /\ \A k \in 1 .. n : k \in 0 .. n /\ k # 0
        /\ \A k \in 1 .. n + 1 : k \in 0 .. n + 1 /\ k # 0
    BY <1>1
  <2>. QED  BY <2>1, <2>2, <2>3
<1>5. Bad = {}
  <2>. SUFFICES ASSUME Bad # {} PROVE FALSE
    OBVIOUS
  <2>1. PICK m \in Bad : \A k \in Bad : ~(k < m)
    <3>1. Bad \in SUBSET Nat
      BY <1>1
    <3>. QED  BY <3>1, Smallest
  <2>2. m \in 1 .. n /\ m \in 1 .. n + 1 /\ m - 1 \in 0 .. n /\ m - 1 < m
    BY <1>1, <1>4, <2>1
  <2>3. f[m - 1] = g[m - 1]
    BY <2>1, <2>2
  <2>. QED  BY <1>1, <1>4, <2>1, <2>2, <2>3
<1>6. f[n] = g[n]
  BY <1>1, <1>5
<1>7. f[n + 1] = MergeWithNext(f[n], d)
  <2>1. n + 1 \in 1 .. n + 1 /\ (n + 1) - 1 = n
    BY <1>1
  <2>. QED  BY <1>1, <1>4, <2>1
<1>. QED  BY <1>3, <1>6, <1>7 DEF ext

LEMMA MergedNone == Merged(<<>>) = EmptyDelta
<1>. DEFINE f == CHOOSE f : Merges(f, 0, <<>>)
<1>1. Merges(f, 0, <<>>)
  BY MergesExists
<1>2. Merged(<<>>) = f[0]
  BY DEF Merged, Merges
<1>. HIDE DEF f
<1>. QED  BY <1>1, <1>2 DEF Merges

-----------------------------------------------------------------------------
(* The delta of a tick *)

\* A tick that names all that came, went or changed, with every field that did: its
\* delta leads from the world before it to the world after it.
LEMMA DeltaOfLeads ==
  ASSUME NEW id, NEW entities, NEW ids \in SUBSET Nat, IsFiniteSet(ids), NEW w,
         \A i \in DOMAIN entities :
           entities[i].f \in [Field -> DOMAIN Size] /\ entities[i].upd \in SUBSET Field,
         \A i \in (DOMAIN w \cup DOMAIN entities) \ ids :
           /\ i \in DOMAIN w /\ i \in DOMAIN entities
           /\ w[i] = [type |-> entities[i].type, f |-> entities[i].f],
         \A i \in DOMAIN entities : \A n \in Field \ entities[i].upd :
           i \in DOMAIN w /\ w[i].f[n] = entities[i].f[n]
  PROVE  /\ Sound(DeltaOf(id, entities, ids), w,
                  [i \in DOMAIN entities |-> [type |-> entities[i].type, f |-> entities[i].f]])
         /\ DeltaOf(id, entities, ids).sorted
<1>. DEFINE d == DeltaOf(id, entities, ids)
            x == [i \in DOMAIN entities |-> [type |-> entities[i].type, f |-> entities[i].f]]
            info(i) ==
              IF i \in DOMAIN entities
                THEN [num |-> NumFields, type |-> entities[i].type, full |-> entities[i].upd = Field]
                ELSE [num |-> 0, type |-> 0, full |-> FALSE]
            numbers(i) == Ascending(entities[i].upd)
            field(i, n) == [e |-> i, n |-> n, v |-> entities[i].f[n]]
            written(i) ==
              IF i \in DOMAIN entities
                THEN [k \in DOMAIN numbers(i) |-> field(i, numbers(i)[k])]
                ELSE <<>>
            A(i) == IF i \in DOMAIN entities THEN {field(i, n) : n \in entities[i].upd} ELSE {}
            order == Ascending(ids)
            R1 == [i \in ids |-> written(i)]
            A1 == [i \in ids |-> A(i)]
            flat == FlattenSeq([k \in DOMAIN order |-> R1[order[k]]])
<1>1. /\ d.ents = [i \in ids |-> info(i)] /\ d.sorted
      /\ d.fields = FlattenSeq([k \in DOMAIN order |-> written(order[k])])
  BY DEF DeltaOf
<1>2. ASSUME NEW i \in ids
      PROVE  InOrder(written(i), A(i)) /\ \A f \in A(i) : f.e = i
  <2>1. CASE i \notin DOMAIN entities
    <3>1. InOrder(<<>>, {})
      BY DEF InOrder, Range
    <3>. QED  BY <2>1, <3>1
  <2>2. CASE i \in DOMAIN entities
    <3>. DEFINE U == entities[i].upd
                s == numbers(i)
                run == [k \in DOMAIN s |-> field(i, s[k])]
    <3>1. U \in SUBSET Nat /\ IsFiniteSet(U) /\ U \subseteq Field
      BY <2>2, FieldSets
    <3>2. /\ s \in Seq(U) /\ DOMAIN s = 1 .. Len(s)
          /\ \A k, m \in DOMAIN s : k < m => s[k] < s[m]
          /\ \A n \in U : \E k \in DOMAIN s : s[k] = n
      <4>. HIDE DEF U
      <4>1. s = Ascending(U)
        BY DEF U
      <4>. HIDE DEF s
      <4>. QED  BY <3>1, <4>1, AscendingExact
    <3>3. \A n \in U : field(i, n) \in FieldInfo /\ field(i, n).n = n /\ field(i, n).e = i
      BY <2>2, <3>1 DEF FieldInfo
    <3>. HIDE DEF s, field
    <3>4. Len(s) \in Nat /\ \A k \in DOMAIN s : s[k] \in U
      <4>1. Len(s) \in Nat /\ \A k \in 1 .. Len(s) : s[k] \in U
        BY <3>2
      <4>. QED  BY <3>2, <4>1
    <3>5. DOMAIN run = 1 .. Len(s) /\ \A k \in DOMAIN run : run[k] = field(i, s[k])
      BY <3>2
    <3>6. run \in Seq(FieldInfo)
      BY <3>2, <3>3, <3>4
    <3>. HIDE DEF run
    <3>7. Range(run) = {field(i, n) : n \in U}
      <4>1. \A k \in DOMAIN run : run[k] \in {field(i, n) : n \in U}
        BY <3>2, <3>4, <3>5
      <4>2. \A n \in U : \E k \in DOMAIN run : run[k] = field(i, n)
        BY <3>2, <3>5
      <4>. QED  BY <4>1, <4>2 DEF Range
    <3>8. \A k, m \in DOMAIN run : k < m => run[k].n < run[m].n
      BY <3>2, <3>3, <3>4, <3>5
    <3>9. InOrder(run, {field(i, n) : n \in U})
      BY <3>6, <3>7, <3>8 DEF InOrder
    <3>10. written(i) = run /\ A(i) = {field(i, n) : n \in U}
      BY <2>2 DEF run, s
    <3>. HIDE DEF written, A
    <3>. QED  BY <3>3, <3>9, <3>10
  <2>. QED  BY <2>1, <2>2
<1>3. /\ Grouped(flat) /\ InEntityOrder(flat)
      /\ \A f : f \in Range(flat) <=> \E e \in ids : f \in A1[e]
  <2>1. \A e \in ids : InOrder(R1[e], A1[e]) /\ \A f \in A1[e] : f.e = e
    <3>. HIDE DEF written, A
    <3>. QED  BY <1>2
  <2>. HIDE DEF R1, A1
  <2>. QED  BY <2>1, RunsJoined
<1>4. flat = d.fields
  <2>. HIDE DEF written
  <2>1. \A k \in DOMAIN order : order[k] \in ids
    <3>1. order \in Seq(ids) /\ DOMAIN order = 1 .. Len(order)
      BY AscendingExact
    <3>. HIDE DEF order
    <3>. QED  BY <3>1
  <2>2. [k \in DOMAIN order |-> R1[order[k]]] = [k \in DOMAIN order |-> written(order[k])]
    BY <2>1
  <2>. QED  BY <1>1, <2>2
<1>. HIDE DEF d, flat, written
<1>5. Grouped(d.fields) /\ InEntityOrder(d.fields)
  BY <1>3, <1>4
<1>6. ASSUME NEW f
      PROVE  f \in Range(d.fields) <=> \E i \in ids : f \in A(i)
  <2>. HIDE DEF A
  <2>1. \A i \in ids : A1[i] = A(i)
    OBVIOUS
  <2>. HIDE DEF A1
  <2>. QED  BY <1>3, <1>4, <2>1
<1>7. ASSUME NEW i \in ids
      PROVE  /\ i \in DOMAIN entities =>
                  /\ d.ents[i].num = NumFields /\ d.ents[i].type = entities[i].type
                  /\ d.ents[i].full <=> entities[i].upd = Field
             /\ i \notin DOMAIN entities => d.ents[i].num = 0 /\ ~d.ents[i].full
  <2>1. d.ents[i] = info(i)
    BY <1>1
  <2>2. CASE i \in DOMAIN entities
    <3>. DEFINE e == [num |-> NumFields, type |-> entities[i].type, full |-> entities[i].upd = Field]
    <3>1. d.ents[i] = e
      BY <2>1, <2>2, Zenon
    <3>2. e.num = NumFields /\ e.type = entities[i].type /\ (e.full <=> entities[i].upd = Field)
      OBVIOUS
    <3>. HIDE DEF e
    <3>. QED  BY <2>2, <3>1, <3>2
  <2>3. CASE i \notin DOMAIN entities
    BY <2>1, <2>3
  <2>. QED  BY <2>2, <2>3
<1>8. DOMAIN d.ents = ids
  BY <1>1
<1>9. DeltaOK(d)
  <2>1. \A i \in ids : \A f \in A(i) : f.e = i /\ i \in DOMAIN entities
    OBVIOUS
  <2>2. \A i \in ids : (d.ents[i].num = 0 <=> i \notin DOMAIN entities) /\ (d.ents[i].full => d.ents[i].num # 0)
    <3>1. NumFields # 0
      BY SnapshotsAssumption
    <3>. QED  BY <1>7, <3>1
  <2>. HIDE DEF A
  <2>3. ASSUME NEW f \in Range(d.fields) PROVE f.e \in ids /\ d.ents[f.e].num # 0
    BY <1>6, <2>1, <2>2
  <2>. QED  BY <1>5, <1>8, <2>2, <2>3 DEF DeltaOK
<1>10. \A i \in ids : Of(d.fields, i) = A(i)
  <2>1. \A i \in ids : \A f \in A(i) : f.e = i
    OBVIOUS
  <2>. HIDE DEF A
  <2>. QED  BY <1>6, <2>1 DEF Of
<1>11. Leads(d, w, x)
  <2>1. \A i \in ids : d.ents[i].num = 0 <=> i \notin DOMAIN x
    <3>1. NumFields # 0
      BY SnapshotsAssumption
    <3>. QED  BY <1>7, <3>1
  <2>2. \A i \in (DOMAIN w \cup DOMAIN x) \ ids : i \in DOMAIN w /\ i \in DOMAIN x /\ w[i] = x[i]
    OBVIOUS
  <2>3. ASSUME NEW i \in DOMAIN x, i \in ids
        PROVE  /\ d.ents[i].type = x[i].type
               /\ \A f \in Of(d.fields, i) : f.v = x[i].f[f.n]
               /\ \A n \in Field :
                    \/ \E f \in Of(d.fields, i) : f.n = n
                    \/ ~d.ents[i].full /\ i \in DOMAIN w /\ w[i].f[n] = x[i].f[n]
    <3>0. i \in DOMAIN entities
      OBVIOUS
    <3>1. /\ x[i].type = entities[i].type /\ x[i].f = entities[i].f
          /\ d.ents[i].type = entities[i].type
          /\ d.ents[i].full <=> entities[i].upd = Field
      BY <1>7, <2>3, <3>0
    <3>2. Of(d.fields, i) = {field(i, n) : n \in entities[i].upd}
      BY <1>10, <2>3, <3>0
    <3>. HIDE DEF x
    <3>3. \A f \in Of(d.fields, i) : f.v = x[i].f[f.n]
      <4>1. \A n \in entities[i].upd : field(i, n).v = x[i].f[field(i, n).n]
        BY <3>1
      <4>. HIDE DEF field
      <4>. QED  BY <3>2, <4>1
    <3>4. \A n \in entities[i].upd : \E f \in Of(d.fields, i) : f.n = n
      <4>1. \A n \in entities[i].upd : field(i, n).n = n
        OBVIOUS
      <4>. HIDE DEF field
      <4>. QED  BY <3>2, <4>1
    <3>5. ASSUME NEW n \in Field, n \notin entities[i].upd
          PROVE  ~d.ents[i].full /\ i \in DOMAIN w /\ w[i].f[n] = x[i].f[n]
      BY <3>0, <3>1, <3>5
    <3>. QED  BY <3>1, <3>3, <3>4, <3>5
  <2>. QED  BY <1>8, <2>1, <2>2, <2>3 DEF Leads
<1>. QED  BY <1>1, <1>5, <1>9, <1>11 DEF Sound, d
-----------------------------------------------------------------------------
(* The cells of an entity's fields *)

\* off[n] cells lie before those of field n.
CellsAt(cells, f, off) ==
  /\ cells \in Seq((DOMAIN Size) \X Nat)
  /\ off[1] = 0 /\ Len(cells) = off[NumFields + 1]
  /\ \A k \in 1 .. NumFields + 1 : off[k] \in Nat
  /\ \A n \in Field :
       /\ off[n + 1] = off[n] + Size[f[n]]
       /\ \A m \in 1 .. Size[f[n]] :
            off[n] + m \in DOMAIN cells /\ cells[off[n] + m] = <<f[n], m>>

\* For anything that writes a field's cells the way Cells does, one after the other.
LEMMA CellsJoined ==
  ASSUME NEW f \in [Field -> DOMAIN Size], NEW write,
         \A n \in Field : write[n] = Cells(f[n])
  PROVE  \E off : CellsAt(FlattenSeq([n \in Field |-> write[n]]), f, off)
<1>. DEFINE S == (DOMAIN Size) \X Nat
            seqs == [n \in Field |-> write[n]]
<1>1. NumFields \in Nat /\ Field = 1 .. NumFields
  BY SnapshotsAssumption DEF Field
<1>2. ASSUME NEW n \in Field
      PROVE  /\ seqs[n] \in Seq(S) /\ Len(seqs[n]) = Size[f[n]]
             /\ \A m \in 1 .. Size[f[n]] : seqs[n][m] = <<f[n], m>>
  <2>1. seqs[n] = [k \in 1 .. Size[f[n]] |-> <<f[n], k>>]
    BY DEF Cells
  <2>2. Size[f[n]] \in Nat /\ f[n] \in DOMAIN Size
    BY SnapshotsAssumption
  <2>. HIDE DEF seqs
  <2>. QED  BY <2>1, <2>2
<1>3. DOMAIN seqs = 1 .. NumFields /\ seqs = [n \in 1 .. NumFields |-> seqs[n]]
  BY <1>1
<1>. HIDE DEF seqs
<1>4. seqs \in Seq(Seq(S)) /\ Len(seqs) = NumFields
  <2>. HIDE DEF S
  <2>1. \A n \in 1 .. NumFields : seqs[n] \in Seq(S)
    BY <1>1, <1>2
  <2>. QED  BY <1>1, <1>3, <2>1
<1>5. FlattenSeq(seqs) \in Seq(S) /\ \E off : Offsets(FlattenSeq(seqs), seqs, off)
  <2>. HIDE DEF S
  <2>. QED  BY <1>4, FlattenOffsets
<1>6. PICK off : Offsets(FlattenSeq(seqs), seqs, off)
  BY <1>5
<1>7. CellsAt(FlattenSeq(seqs), f, off)
  <2>. DEFINE flat == FlattenSeq(seqs)
  <2>. HIDE DEF flat
  <2>1. /\ off[1] = 0 /\ Len(flat) = off[NumFields + 1]
        /\ \A k \in 1 .. NumFields + 1 : off[k] \in Nat
        /\ \A k \in 1 .. NumFields :
             /\ off[k + 1] = off[k] + Len(seqs[k])
             /\ \A m \in 1 .. Len(seqs[k]) :
                  off[k] + m \in DOMAIN flat /\ flat[off[k] + m] = seqs[k][m]
    BY <1>4, <1>6 DEF Offsets, flat
  <2>2. ASSUME NEW n \in Field
        PROVE  /\ off[n + 1] = off[n] + Size[f[n]]
               /\ \A m \in 1 .. Size[f[n]] :
                    off[n] + m \in DOMAIN flat /\ flat[off[n] + m] = <<f[n], m>>
    <3>1. n \in 1 .. NumFields
      BY <1>1
    <3>2. /\ off[n + 1] = off[n] + Len(seqs[n])
          /\ \A m \in 1 .. Len(seqs[n]) :
               off[n] + m \in DOMAIN flat /\ flat[off[n] + m] = seqs[n][m]
      BY <2>1, <3>1
    <3>3. /\ Len(seqs[n]) = Size[f[n]]
          /\ \A m \in 1 .. Size[f[n]] : seqs[n][m] = <<f[n], m>>
      BY <1>2
    <3>. QED  BY ONLY <3>2, <3>3
  <2>3. flat \in Seq(S)
    BY <1>5 DEF flat
  <2>. QED  BY <2>1, <2>2, <2>3 DEF CellsAt, flat
<1>. QED  BY <1>7 DEF seqs

LEMMA AllCellsAt ==
  ASSUME NEW f \in [Field -> DOMAIN Size]
  PROVE  \E off : CellsAt(AllCells(f), f, off)
<1>. DEFINE write == [n \in Field |-> Cells(f[n])]
<1>1. \A n \in Field : write[n] = Cells(f[n])
  OBVIOUS
<1>2. [n \in Field |-> write[n]] = [n \in Field |-> Cells(f[n])]
  OBVIOUS
<1>. HIDE DEF write
<1>. QED  BY <1>1, <1>2, CellsJoined DEF AllCells

\* The same cells at the same places: the same fields.
LEMMA CellsTell ==
  ASSUME NEW cells, NEW f \in [Field -> DOMAIN Size], NEW g \in [Field -> DOMAIN Size],
         NEW off, NEW pos, CellsAt(cells, f, off), CellsAt(cells, g, pos)
  PROVE  f = g
<1>1. NumFields \in Nat /\ Field = 1 .. NumFields
  BY SnapshotsAssumption DEF Field
<1>. DEFINE Bad == {n \in Field : ~(f[n] = g[n])}
<1>2. Bad = {}
  <2>. SUFFICES ASSUME Bad # {} PROVE FALSE
    OBVIOUS
  <2>1. PICK n \in Bad : \A k \in Bad : ~(k < n)
    <3>1. Bad \in SUBSET Nat
      BY <1>1
    <3>. QED  BY <3>1, Smallest
  <2>2. n \in Field /\ n \in Nat /\ f[n] # g[n] /\ \A k \in Field : k < n => f[k] = g[k]
    BY <1>1, <2>1
  <2>. DEFINE Apart == {k \in 1 .. n : ~(off[k] = pos[k])}
  <2>3. Apart = {}
    <3>. SUFFICES ASSUME Apart # {} PROVE FALSE
      OBVIOUS
    <3>1. PICK k \in Apart : \A j \in Apart : ~(j < k)
      <4>1. Apart \in SUBSET Nat
        BY <2>2
      <4>. QED  BY <4>1, Smallest
    <3>2. k \in 1 .. n /\ off[k] # pos[k]
      BY <3>1
    <3>3. k # 1
      BY <3>2 DEF CellsAt
    <3>4. k - 1 \in 1 .. n /\ k - 1 \in Field /\ k - 1 < k /\ k - 1 < n /\ (k - 1) + 1 = k
      BY <1>1, <2>2, <3>2, <3>3
    <3>5. off[k - 1] = pos[k - 1] /\ f[k - 1] = g[k - 1]
      BY <2>2, <3>1, <3>4
    <3>6. off[k] = off[k - 1] + Size[f[k - 1]] /\ pos[k] = pos[k - 1] + Size[g[k - 1]]
      BY <3>4 DEF CellsAt
    <3>. QED  BY <3>2, <3>5, <3>6
  <2>4. off[n] = pos[n]
    <3>1. n \in 1 .. n
      BY <1>1, <2>2
    <3>. QED  BY <2>3, <3>1
  <2>5. 1 \in 1 .. Size[f[n]] /\ 1 \in 1 .. Size[g[n]]
    <3>1. Size[f[n]] \in Nat \ {0} /\ Size[g[n]] \in Nat \ {0}
      BY <2>2, SnapshotsAssumption
    <3>. QED  BY <3>1
  <2>6. cells[off[n] + 1] = <<f[n], 1>> /\ cells[pos[n] + 1] = <<g[n], 1>>
    BY <2>2, <2>5 DEF CellsAt
  <2>. QED  BY <2>2, <2>4, <2>6
<1>3. \A n \in Field : f[n] = g[n]
  BY <1>2
<1>. QED  BY <1>3

\* The cells of all fields are decoded to these fields and to nothing else.
THEOREM DecodingsExact ==
  ASSUME NEW f \in [Field -> DOMAIN Size]
  PROVE  Decodings(AllCells(f)) = {f}
<1>1. ASSUME NEW g \in [Field -> DOMAIN Size], AllCells(g) = AllCells(f)
      PROVE  g = f
  <2>1. PICK off : CellsAt(AllCells(f), f, off)
    BY AllCellsAt
  <2>2. PICK pos : CellsAt(AllCells(f), g, pos)
    BY <1>1, AllCellsAt
  <2>. QED  BY <2>1, <2>2, CellsTell
<1>. QED  BY <1>1 DEF Decodings

\* A run with the value of every field is decoded to all of them.
LEMMA WholeRun ==
  ASSUME NEW f \in [Field -> DOMAIN Size], NEW run, NEW i,
         InOrder(run, {[e |-> i, n |-> n, v |-> f[n]] : n \in Field})
  PROVE  FlattenSeq([k \in DOMAIN run |-> Cells(run[k].v)]) = AllCells(f)
<1>. DEFINE A == {[e |-> i, n |-> n, v |-> f[n]] : n \in Field}
            len == Len(run)
<1>1. NumFields \in Nat /\ Field = 1 .. NumFields
  BY SnapshotsAssumption DEF Field
<1>2. /\ run \in Seq(FieldInfo) /\ DOMAIN run = 1 .. len /\ len \in Nat
      /\ \A j, k \in 1 .. len : j < k => run[j].n < run[k].n
  BY DEF InOrder
<1>3. /\ \A k \in 1 .. len : run[k].n \in Field /\ run[k].v = f[run[k].n]
      /\ \A n \in Field : \E k \in 1 .. len : run[k].n = n
  <2>1. {run[k] : k \in 1 .. len} = A
    BY <1>2 DEF InOrder, Range
  <2>2. \A x \in A : x.n \in Field /\ x.v = f[x.n]
    OBVIOUS
  <2>3. ASSUME NEW n \in Field PROVE \E x \in A : x.n = n
    <3>1. [e |-> i, n |-> n, v |-> f[n]] \in A
      OBVIOUS
    <3>. QED  BY <3>1
  <2>. HIDE DEF A
  <2>. QED  BY <2>1, <2>2, <2>3
<1>. HIDE DEF len
<1>4. \A k \in 1 .. len : run[k].n = k
  <2>. DEFINE Bad == {k \in 1 .. len : ~(run[k].n = k)}
  <2>. SUFFICES ASSUME Bad # {} PROVE FALSE
    OBVIOUS
  <2>1. PICK k \in Bad : \A j \in Bad : ~(j < k)
    <3>1. Bad \in SUBSET Nat
      BY <1>2
    <3>. QED  BY <3>1, Smallest
  <2>2. /\ k \in 1 .. len /\ run[k].n # k /\ run[k].n \in 1 .. NumFields
        /\ \A j \in 1 .. len : j < k => run[j].n = j
    BY <1>1, <1>3, <2>1
  <2>3. run[k].n > k
    <3>1. CASE k = 1
      BY <1>1, <2>2, <3>1
    <3>2. CASE k # 1
      <4>1. k - 1 \in 1 .. len /\ k - 1 < k
        BY <1>2, <2>2, <3>2
      <4>2. run[k - 1].n = k - 1 /\ run[k - 1].n < run[k].n
        BY <1>2, <2>2, <4>1
      <4>. QED  BY <1>2, <2>2, <4>2
    <3>. QED  BY <3>1, <3>2
  <2>4. k \in Field
    BY <1>1, <1>2, <2>2, <2>3
  <2>5. PICK j \in 1 .. len : run[j].n = k
    BY <1>3, <2>4
  <2>6. ~(j < k) /\ j # k
    BY <2>2, <2>5
  <2>7. k < j
    BY <1>2, <2>2, <2>6
  <2>8. run[k].n < k
    BY <1>2, <2>2, <2>5, <2>7
  <2>. QED  BY <1>2, <2>2, <2>3, <2>8
<1>5. len = NumFields
  <2>1. CASE len = 0
    <3>1. NumFields \notin Field
      BY <1>2, <1>3, <2>1
    <3>. QED  BY <1>1, <2>1, <3>1, SnapshotsAssumption
  <2>2. CASE len # 0
    <3>1. len \in Field
      BY <1>2, <1>3, <1>4, <2>2
    <3>2. NumFields \in Field
      BY <1>1, SnapshotsAssumption
    <3>3. PICK k \in 1 .. len : run[k].n = NumFields
      BY <1>3, <3>2
    <3>4. k = NumFields
      BY <1>4, <3>3
    <3>. QED  BY <1>1, <1>2, <3>1, <3>4
  <2>. QED  BY <2>1, <2>2
<1>6. DOMAIN run = Field /\ \A k \in Field : run[k].v = f[k]
  BY <1>1, <1>2, <1>3, <1>4, <1>5
<1>7. [k \in DOMAIN run |-> Cells(run[k].v)] = [n \in Field |-> Cells(f[n])]
  BY <1>6
<1>. QED  BY <1>7 DEF AllCells
-----------------------------------------------------------------------------
(* What a packet tells of two worlds *)

\* With what it read of world w, a client that reads a packet has world x: every
\* entity of x is told as a whole, by the fields that differ, or is as it was.
Applies(body, w, x) ==
  \A i \in DOMAIN x :
    /\ i \notin body.del
    /\ i \in DOMAIN body.full =>
         body.full[i].type = x[i].type /\ Decodings(body.full[i].cells) = {x[i].f}
    /\ i \in DOMAIN body.upd \ DOMAIN body.full =>
         \A n \in Field : IF n \in DOMAIN body.upd[i] THEN body.upd[i][n] = x[i].f[n]
                          ELSE i \in DOMAIN w /\ w[i].f[n] = x[i].f[n]
    /\ i \notin DOMAIN body.upd \cup DOMAIN body.full => i \in DOMAIN w /\ w[i] = x[i]

\* writeToPacket: the packet of a delta tells what the delta does.
THEOREM DeltaApplies ==
  ASSUME NEW d, NEW w, NEW x, Sound(d, w, x),
         \A i \in DOMAIN x : x[i].f \in [Field -> DOMAIN Size]
  PROVE  Applies(DeltaPacket(d), w, x)
<1>. DEFINE body == DeltaPacket(d)
            E == DOMAIN d.ents
            del == {e \in E : d.ents[e].num = 0}
            full == {e \in E : d.ents[e].full}
            cells(run) == FlattenSeq([k \in DOMAIN run |-> Cells(run[k].v)])
            values(run) == [n \in Numbers(run) |-> Named(run, n).v]
            run(i) == SortedRun(d.fields, i)
<1>1. DeltaOK(d) /\ InEntityOrder(d.fields) /\ Leads(d, w, x)
  BY DEF Sound
<1>2. Grouped(d.fields) /\ E \in SUBSET Nat
  BY <1>1 DEF DeltaOK
<1>3. /\ body.del = del
      /\ body.full = [e \in full |-> [type |-> d.ents[e].type, cells |-> cells(run(e))]]
      /\ body.upd = [e \in E \ (del \cup full) |-> values(run(e))]
  BY DEF DeltaPacket
<1>. HIDE DEF body, cells, values
<1>4. /\ DOMAIN body.full = full /\ DOMAIN body.upd = E \ (del \cup full)
      /\ \A e \in full : body.full[e].type = d.ents[e].type /\ body.full[e].cells = cells(run(e))
      /\ \A e \in E \ (del \cup full) : body.upd[e] = values(run(e))
  BY <1>3
<1>5. ASSUME NEW i \in DOMAIN x
      PROVE  /\ i \notin body.del
             /\ i \in DOMAIN body.full =>
                  body.full[i].type = x[i].type /\ Decodings(body.full[i].cells) = {x[i].f}
             /\ i \in DOMAIN body.upd \ DOMAIN body.full =>
                  \A n \in Field : IF n \in DOMAIN body.upd[i] THEN body.upd[i][n] = x[i].f[n]
                                   ELSE i \in DOMAIN w /\ w[i].f[n] = x[i].f[n]
             /\ i \notin DOMAIN body.upd \cup DOMAIN body.full => i \in DOMAIN w /\ w[i] = x[i]
  <2>1. CASE i \notin E
    <3>1. i \in DOMAIN w /\ w[i] = x[i]
      BY <1>1, <2>1 DEF Leads
    <3>. QED  BY <1>3, <1>4, <2>1, <3>1
  <2>2. CASE i \in E
    <3>. DEFINE A == Of(d.fields, i)
    <3>1. /\ ~(d.ents[i].num = 0) /\ d.ents[i].type = x[i].type
          /\ \A f \in A : f.v = x[i].f[f.n]
          /\ \A n \in Field :
               \/ \E f \in A : f.n = n
               \/ ~d.ents[i].full /\ i \in DOMAIN w /\ w[i].f[n] = x[i].f[n]
      BY <1>1, <2>2 DEF Leads
    <3>2. i \notin body.del
      BY <1>3, <3>1
    <3>3. InOrder(run(i), A)
      BY <1>1, <1>2, <2>2, SortedRunExact
    <3>4. \A f \in A : f \in FieldInfo /\ f.e = i
      BY <1>2 DEF Grouped, Of, Range
    <3>5. /\ \A f \in A : f.n \in Numbers(run(i)) /\ Named(run(i), f.n) = f
          /\ \A n \in Numbers(run(i)) : Named(run(i), n) \in A /\ Named(run(i), n).n = n
      BY <3>3, NamedExact
    <3>. HIDE DEF A, run
    <3>6. CASE i \in full
      <4>1. A = {[e |-> i, n |-> n, v |-> x[i].f[n]] : n \in Field}
        <5>1. ASSUME NEW f \in A PROVE f.n \in Field /\ f = [e |-> i, n |-> f.n, v |-> x[i].f[f.n]]
          BY <3>1, <3>4 DEF FieldInfo
        <5>2. ASSUME NEW n \in Field PROVE [e |-> i, n |-> n, v |-> x[i].f[n]] \in A
          <6>1. PICK f \in A : f.n = n
            BY <3>1, <3>6
          <6>. QED  BY <5>1, <6>1
        <5>. QED  BY <5>1, <5>2
      <4>2. cells(run(i)) = AllCells(x[i].f)
        BY <3>3, <4>1, WholeRun DEF cells
      <4>3. Decodings(AllCells(x[i].f)) = {x[i].f}
        BY DecodingsExact
      <4>. QED  BY <1>4, <3>1, <3>2, <3>6, <4>2, <4>3
    <3>7. CASE i \notin full
      <4>1. i \in DOMAIN body.upd /\ body.upd[i] = values(run(i)) /\ i \notin DOMAIN body.full
        BY <1>4, <2>2, <3>1, <3>7
      <4>2. /\ DOMAIN values(run(i)) = Numbers(run(i))
            /\ \A n \in Numbers(run(i)) : values(run(i))[n] = Named(run(i), n).v
        BY DEF values
      <4>3. ASSUME NEW n \in Field
            PROVE  IF n \in DOMAIN body.upd[i] THEN body.upd[i][n] = x[i].f[n]
                   ELSE i \in DOMAIN w /\ w[i].f[n] = x[i].f[n]
        <5>1. CASE n \in Numbers(run(i))
          BY <3>1, <3>5, <4>1, <4>2, <5>1
        <5>2. CASE n \notin Numbers(run(i))
          BY <3>1, <3>5, <4>1, <4>2, <5>2
        <5>. QED  BY <5>1, <5>2
      <4>. QED  BY <3>2, <4>1, <4>3
    <3>. QED  BY <3>6, <3>7
  <2>. QED  BY <2>1, <2>2
<1>. QED  BY <1>5 DEF Applies, body

-----------------------------------------------------------------------------
(* The master snapshot *)

\* The snapshot's data of an entity are those of its fields f.
Holds(data, type, f) ==
  /\ data.type = type /\ data.cells = AllCells(f)
  /\ data.sizes = [n \in Field |-> Size[f[n]]]

\* The recursion of Offset defines a function.
LEMMA UpToExists ==
  ASSUME NEW sizes, NEW N \in Nat
  PROVE  \E s : s = [k \in 0 .. N |-> IF k = 0 THEN 0 ELSE s[k - 1] + sizes[k]]
<1>. DEFINE Sums(s, k) == s = [j \in 0 .. k |-> IF j = 0 THEN 0 ELSE s[j - 1] + sizes[j]]
            Bad == {k \in Nat : ~ \E s : Sums(s, k)}
<1>. SUFFICES ASSUME Bad # {} PROVE FALSE
  OBVIOUS
<1>1. PICK m \in Bad : \A k \in Bad : ~(k < m)
  BY Smallest
<1>2. m # 0
  <2>. DEFINE g == [k \in 0 .. 0 |-> 0]
  <2>1. g = [k \in 0 .. 0 |-> IF k = 0 THEN 0 ELSE g[k - 1] + sizes[k]]
    OBVIOUS
  <2>2. Sums(g, 0)
    BY <2>1
  <2>. QED  BY <2>2
<1>3. m - 1 \in Nat /\ m - 1 < m
  BY <1>1, <1>2
<1>4. PICK f : Sums(f, m - 1)
  BY <1>1, <1>3
<1>. DEFINE g == [k \in 0 .. m |-> IF k = m THEN f[m - 1] + sizes[m] ELSE f[k]]
<1>5. \A k \in 0 .. m - 1 : g[k] = f[k]
  BY <1>1, <1>2
<1>6. g[m] = f[m - 1] + sizes[m]
  BY <1>1
<1>7. \A k \in 0 .. m - 1 : f[k] = IF k = 0 THEN 0 ELSE f[k - 1] + sizes[k]
  BY <1>4
<1>8. ASSUME NEW k \in 0 .. m
      PROVE  g[k] = IF k = 0 THEN 0 ELSE g[k - 1] + sizes[k]
  <2>. HIDE DEF g
  <2>1. CASE k = m
    <3>1. g[m - 1] = f[m - 1]
      BY <1>1, <1>2, <1>5
    <3>. QED  BY <1>2, <1>6, <2>1, <3>1
  <2>2. CASE k # m /\ k # 0
    <3>1. k \in 0 .. m - 1 /\ k - 1 \in 0 .. m - 1
      BY <1>1, <2>2
    <3>. QED  BY <1>5, <1>7, <2>2, <3>1
  <2>3. CASE k # m /\ k = 0
    BY <1>1, <1>5, <1>7, <2>3
  <2>. QED  BY <2>1, <2>2, <2>3
<1>9. g = [k \in 0 .. m |-> g[k]]
  OBVIOUS
<1>10. Sums(g, m)
  <2>. HIDE DEF g
  <2>. QED  BY <1>8, <1>9
<1>. QED  BY <1>1, <1>10

\* getFieldOffset finds a field's cells when the sizes are those of the data.
LEMMA OffsetExact ==
  ASSUME NEW sizes, NEW cells, NEW f \in [Field -> DOMAIN Size], NEW off, CellsAt(cells, f, off),
         \A n \in Field : sizes[n] = Size[f[n]]
  PROVE  \A n \in Field : Offset(sizes, n) = off[n]
<1>1. NumFields \in Nat /\ Field = 1 .. NumFields
  BY SnapshotsAssumption DEF Field
<1>. DEFINE upTo == CHOOSE s : s = [k \in 0 .. NumFields |->
                                      IF k = 0 THEN 0 ELSE s[k - 1] + sizes[k]]
<1>2. upTo = [k \in 0 .. NumFields |-> IF k = 0 THEN 0 ELSE upTo[k - 1] + sizes[k]]
  BY <1>1, UpToExists
<1>3. \A n \in Field : Offset(sizes, n) = upTo[n - 1]
  BY DEF Offset
<1>. HIDE DEF upTo
<1>4. /\ upTo[0] = 0
      /\ \A k \in 1 .. NumFields : upTo[k] = upTo[k - 1] + sizes[k]
  <2>1. \A k \in 0 .. NumFields : upTo[k] = IF k = 0 THEN 0 ELSE upTo[k - 1] + sizes[k]
    BY <1>2
  <2>. QED  BY <1>1, <2>1
<1>. DEFINE Bad == {n \in Field : ~(upTo[n - 1] = off[n])}
<1>5. Bad = {}
  <2>. SUFFICES ASSUME Bad # {} PROVE FALSE
    OBVIOUS
  <2>1. PICK n \in Bad : \A k \in Bad : ~(k < n)
    <3>1. Bad \in SUBSET Nat
      BY <1>1
    <3>. QED  BY <3>1, Smallest
  <2>2. n \in Field /\ upTo[n - 1] # off[n]
    BY <2>1
  <2>3. n # 1
    BY <1>4, <2>2 DEF CellsAt
  <2>4. n - 1 \in Field /\ n - 1 < n /\ (n - 1) + 1 = n
    BY <1>1, <2>2, <2>3
  <2>5. upTo[n - 2] = off[n - 1]
    <3>1. (n - 1) - 1 = n - 2
      BY <1>1, <2>2
    <3>. QED  BY <2>1, <2>4, <3>1
  <2>6. upTo[n - 1] = upTo[n - 2] + sizes[n - 1]
    <3>1. (n - 1) - 1 = n - 2
      BY <1>1, <2>2
    <3>. QED  BY <1>1, <1>4, <2>4, <3>1
  <2>7. off[n] = off[n - 1] + Size[f[n - 1]]
    BY <2>4 DEF CellsAt
  <2>. QED  BY <2>2, <2>4, <2>5, <2>6, <2>7
<1>. QED  BY <1>3, <1>5
\* All values are encoded in the same number of cells.
SameSizes == \A v, w \in DOMAIN Size : Size[v] = Size[w]

\* addEntity: the fields that changed are written, the others copied, and the data
\* are those of all fields - if no size has changed since the data were written.
LEMMA AddEntityExact ==
  ASSUME SameSizes, NEW data, NEW e, NEW f,
         e.f \in [Field -> DOMAIN Size], e.upd \in SUBSET Field,
         e.upd # Field =>
           /\ f \in [Field -> DOMAIN Size] /\ Holds(data, data.type, f)
           /\ \A n \in Field \ e.upd : f[n] = e.f[n]
  PROVE  Holds(AddEntity(data, e), e.type, e.f)
<1>. DEFINE sizes == [n \in Field |-> IF n \in e.upd THEN Size[e.f[n]] ELSE data.sizes[n]]
            write == [n \in Field |-> IF n \in e.upd THEN Cells(e.f[n])
                                      ELSE OldCells(data.cells, Offset(sizes, n), sizes[n])]
            new == AddEntity(data, e)
<1>1. /\ new.type = e.type /\ new.sizes = sizes
      /\ new.cells = FlattenSeq([n \in Field |-> write[n]])
  <2>1. [n \in Field |-> write[n]] =
          [n \in Field |-> IF n \in e.upd THEN Cells(e.f[n])
                           ELSE OldCells(data.cells, Offset(sizes, n), sizes[n])]
    BY Zenon
  <2>. HIDE DEF write
  <2>. QED  BY <2>1 DEF AddEntity
<1>2. \A n \in Field : sizes[n] = Size[e.f[n]]
  <2>. TAKE n \in Field
  <2>1. CASE n \in e.upd
    BY <2>1
  <2>2. CASE n \notin e.upd
    <3>1. data.sizes[n] = Size[f[n]] /\ f[n] = e.f[n]
      BY <2>2 DEF Holds
    <3>. QED  BY <2>2, <3>1
  <2>. QED  BY <2>1, <2>2
<1>3. ASSUME NEW n \in Field PROVE write[n] = Cells(e.f[n])
  <2>1. CASE n \in e.upd
    BY <2>1, Zenon
  <2>2. CASE n \notin e.upd
    <3>1. f \in [Field -> DOMAIN Size] /\ data.cells = AllCells(f) /\ f[n] = e.f[n]
      BY <2>2 DEF Holds
    <3>2. PICK off : CellsAt(data.cells, f, off)
      BY <3>1, AllCellsAt
    <3>3. \A k \in Field : sizes[k] = Size[f[k]]
      BY <1>2, <3>1 DEF SameSizes
    <3>. HIDE DEF sizes
    <3>4. Offset(sizes, n) = off[n]
      BY <3>1, <3>2, <3>3, OffsetExact
    <3>5. \A m \in 1 .. Size[f[n]] : /\ off[n] + m \in DOMAIN data.cells
                                     /\ data.cells[off[n] + m] = <<f[n], m>>
      BY <3>2 DEF CellsAt
    <3>6. OldCells(data.cells, off[n], Size[f[n]]) = [m \in 1 .. Size[f[n]] |-> <<f[n], m>>]
      BY <3>5 DEF OldCells
    <3>7. write[n] = OldCells(data.cells, Offset(sizes, n), sizes[n])
      BY <2>2, Zenon
    <3>. QED  BY <3>1, <3>3, <3>4, <3>6, <3>7 DEF Cells
  <2>. QED  BY <2>1, <2>2
<1>. HIDE DEF new, write, sizes
<1>4. [n \in Field |-> write[n]] = [n \in Field |-> Cells(e.f[n])]
  BY <1>3
<1>5. new.cells = AllCells(e.f)
  BY <1>1, <1>4 DEF AllCells
<1>6. new.sizes = [n \in Field |-> Size[e.f[n]]]
  <2>1. sizes = [n \in Field |-> sizes[n]]
    BY DEF sizes
  <2>. QED  BY <1>1, <1>2, <2>1
<1>. QED  BY <1>1, <1>5, <1>6 DEF Holds, new

\* The snapshot holds every entity of a world, and nothing else.
HoldsWorld(edata, w) ==
  DOMAIN edata = DOMAIN w /\ \A i \in DOMAIN w : Holds(edata[i], w[i].type, w[i].f)

\* The tick takes the master snapshot from one world to the next.
LEMMA SnapshotExact ==
  ASSUME SameSizes, NEW edata, NEW entities, NEW ids, NEW w, HoldsWorld(edata, w),
         \A i \in DOMAIN w : w[i].f \in [Field -> DOMAIN Size],
         \A i \in DOMAIN entities :
           entities[i].f \in [Field -> DOMAIN Size] /\ entities[i].upd \in SUBSET Field,
         \A i \in (DOMAIN w \cup DOMAIN entities) \ ids :
           /\ i \in DOMAIN w /\ i \in DOMAIN entities
           /\ w[i] = [type |-> entities[i].type, f |-> entities[i].f],
         \A i \in DOMAIN entities : \A n \in Field \ entities[i].upd :
           i \in DOMAIN w /\ w[i].f[n] = entities[i].f[n]
  PROVE  HoldsWorld(Snapshot(edata, entities, ids),
           [i \in DOMAIN entities |-> [type |-> entities[i].type, f |-> entities[i].f]])
<1>. DEFINE new == Snapshot(edata, entities, ids)
            data(i) == IF i \in DOMAIN edata THEN edata[i] ELSE NoData
            E == (DOMAIN edata \ ids) \cup (DOMAIN entities \cap ids)
<1>1. DOMAIN edata = DOMAIN w /\ \A i \in DOMAIN w : Holds(edata[i], w[i].type, w[i].f)
  BY DEF HoldsWorld
<1>2. DOMAIN new = E /\ \A i \in E : new[i] = IF i \notin ids THEN edata[i]
                                              ELSE AddEntity(data(i), entities[i])
  BY DEF Snapshot
<1>3. E = DOMAIN entities
  BY <1>1
<1>4. ASSUME NEW i \in DOMAIN entities
      PROVE  Holds(new[i], entities[i].type, entities[i].f)
  <2>1. CASE i \notin ids
    <3>1. /\ i \in DOMAIN w /\ w[i].type = entities[i].type /\ w[i].f = entities[i].f
      <4>1. i \in (DOMAIN w \cup DOMAIN entities) \ ids
        BY <1>4, <2>1
      <4>2. i \in DOMAIN w /\ w[i] = [type |-> entities[i].type, f |-> entities[i].f]
        BY <4>1
      <4>. QED  BY <4>2
    <3>2. new[i] = edata[i]
      BY <1>2, <1>3, <2>1
    <3>. QED  BY <1>1, <3>1, <3>2
  <2>2. CASE i \in ids
    <3>. DEFINE e == entities[i]
    <3>1. new[i] = AddEntity(data(i), e)
      BY <1>2, <1>3, <2>2
    <3>2. ASSUME e.upd # Field
          PROVE  /\ w[i].f \in [Field -> DOMAIN Size] /\ Holds(data(i), data(i).type, w[i].f)
                 /\ \A n \in Field \ e.upd : w[i].f[n] = e.f[n]
      <4>1. i \in DOMAIN w
        BY <3>2
      <4>2. data(i) = edata[i]
        BY <1>1, <4>1
      <4>. QED  BY <1>1, <4>1, <4>2 DEF Holds
    <3>3. e.f \in [Field -> DOMAIN Size] /\ e.upd \in SUBSET Field
      OBVIOUS
    <3>. HIDE DEF data, e
    <3>4. Holds(AddEntity(data(i), e), e.type, e.f)
      BY <3>2, <3>3, AddEntityExact
    <3>. QED  BY <3>1, <3>4 DEF e
  <2>. QED  BY <2>1, <2>2
<1>. HIDE DEF new
<1>. QED  BY <1>2, <1>3, <1>4 DEF HoldsWorld, new

\* writeToPacket: the packet of the master snapshot tells of every entity as a whole.
LEMMA WholeApplies ==
  ASSUME NEW edata, NEW w, NEW x, HoldsWorld(edata, x),
         \A i \in DOMAIN x : x[i].f \in [Field -> DOMAIN Size]
  PROVE  Applies(SnapshotPacket(edata), w, x)
<1>1. ASSUME NEW i \in DOMAIN x
      PROVE  edata[i].type = x[i].type /\ Decodings(edata[i].cells) = {x[i].f}
  BY DecodingsExact DEF HoldsWorld, Holds
<1>2. /\ SnapshotPacket(edata).del = {} /\ SnapshotPacket(edata).upd = <<>>
      /\ SnapshotPacket(edata).full =
           [i \in DOMAIN edata |-> [type |-> edata[i].type, cells |-> edata[i].cells]]
  BY DEF SnapshotPacket
<1>3. DOMAIN edata = DOMAIN x
  BY DEF HoldsWorld
<1>. DEFINE body == SnapshotPacket(edata)
<1>. HIDE DEF body
<1>4. /\ body.del = {} /\ DOMAIN body.upd = {} /\ DOMAIN body.full = DOMAIN x
      /\ \A i \in DOMAIN x : body.full[i].type = edata[i].type /\ body.full[i].cells = edata[i].cells
  BY <1>2, <1>3 DEF body
<1>. QED  BY <1>1, <1>4 DEF Applies, body
-----------------------------------------------------------------------------
(* What holds of deltas in whatever order their fields are *)

LEMMA RunTyped ==
  ASSUME NEW fields \in Seq(FieldInfo), NEW e, NEW from \in 1 .. Len(fields) + 1
  PROVE  Run(fields, from, e) \in Seq(FieldInfo)
<1>. DEFINE n == Len(fields)
            IsLast(k) == /\ \A j \in from .. k : fields[j].e = e
                         /\ k < n => fields[k + 1].e # e
            Ends == {k \in Nat : k >= from /\ k <= n /\ fields[k].e # e}
            last == CHOOSE k \in from - 1 .. n : IsLast(k)
<1>1. n \in Nat /\ from \in Nat /\ from - 1 \in Nat /\ from - 1 <= n
  OBVIOUS
<1>2. \E k \in from - 1 .. n : IsLast(k)
  <2>1. CASE Ends = {}
    <3>1. IsLast(n)
      BY <1>1, <2>1
    <3>2. n \in from - 1 .. n
      BY <1>1
    <3>. QED  BY <3>1, <3>2
  <2>2. CASE Ends # {}
    <3>1. PICK m \in Ends : \A k \in Ends : ~(k < m)
      BY <2>2, Smallest
    <3>2. m \in Nat /\ m >= from /\ m <= n /\ fields[m].e # e
      BY <3>1
    <3>3. m - 1 \in from - 1 .. n /\ (m - 1) + 1 = m
      BY <1>1, <3>2
    <3>4. ASSUME NEW j \in from .. m - 1
          PROVE  fields[j].e = e
      <4>1. j \in Nat /\ j >= from /\ j <= n /\ j < m
        BY <1>1, <3>2
      <4>. QED  BY <3>1, <4>1
    <3>5. IsLast(m - 1)
      BY <3>2, <3>3, <3>4
    <3>. QED  BY <3>3, <3>5
  <2>. QED  BY <2>1, <2>2
<1>3. last \in from - 1 .. n
  BY <1>2
<1>4. Run(fields, from, e) = SubSeq(fields, from, last)
  BY DEF Run
<1>. HIDE DEF last
<1>5. \A i \in from .. last : i \in 1 .. n
  BY <1>1, <1>3
<1>6. from \in Int /\ last \in Int
  BY <1>1, <1>3
<1>. QED  BY <1>4, <1>5, <1>6, SubSeqProperties

LEMMA LowerBoundInRange ==
  ASSUME NEW fields \in Seq(FieldInfo), NEW e
  PROVE  LowerBound(fields, e) \in 1 .. Len(fields) + 1
<1>. DEFINE n == Len(fields)
            s == CHOOSE s : Searches(s, n, fields, e)
<1>1. n \in Nat
  OBVIOUS
<1>2. Searches(s, n, fields, e)
  BY <1>1, SearchesExist
<1>3. LowerBound(fields, e) = s[n][1]
  BY DEF LowerBound, Searches
<1>. HIDE DEF s
<1>4. ASSUME NEW len \in 0 .. n, NEW first \in 1 .. n + 1 - len
      PROVE  s[len][first] = IF len = 0 THEN first
                             ELSE IF fields[first + (len \div 2)].e < e
                                    THEN s[len - (len \div 2) - 1][first + (len \div 2) + 1]
                             ELSE s[len \div 2][first]
  BY <1>1, <1>2, SearchStep
<1>. DEFINE Bad == {len \in Nat : len <= n /\ \E first \in 1 .. n + 1 - len :
                                                s[len][first] \notin first .. first + len}
<1>5. Bad = {}
  <2>. SUFFICES ASSUME Bad # {} PROVE FALSE
    OBVIOUS
  <2>1. PICK len \in Bad : \A k \in Bad : ~(k < len)
    BY Smallest
  <2>2. PICK first \in 1 .. n + 1 - len : s[len][first] \notin first .. first + len
    BY <2>1
  <2>3. len \in 0 .. n /\ first \in Nat /\ first >= 1 /\ first + len <= n + 1
    BY <1>1, <2>1
  <2>4. len # 0
    <3>. SUFFICES ASSUME len = 0 PROVE FALSE
      OBVIOUS
    <3>1. s[len][first] = first
      BY <1>4, <2>3
    <3>. QED  BY <2>2, <2>3, <3>1
  <2>. DEFINE half == len \div 2
              rest == len - half - 1
              next == first + half + 1
  <2>5. half \in Nat /\ half <= len - 1 /\ len - half - 1 \in Nat /\ len - half - 1 <= len - 1
    BY <2>3, <2>4, Halves
  <2>6. s[len][first] = s[rest][next] \/ s[len][first] = s[half][first]
    BY <1>4, <2>3, <2>4
  <2>. HIDE DEF half
  <2>7. /\ rest \in Nat /\ rest <= n /\ rest < len /\ next \in 1 .. n + 1 - rest
        /\ next + rest = first + len /\ first <= next
        /\ half <= n /\ half < len /\ first \in 1 .. n + 1 - half
        /\ first + half <= first + len
    BY ONLY <1>1, <2>3, <2>5
  <2>. HIDE DEF rest, next
  <2>8. s[rest][next] \in next .. next + rest /\ s[half][first] \in first .. first + half
    BY <2>1, <2>5, <2>7
  <2>9. next \in Nat
    BY <1>1, <2>7
  <2>. QED  BY ONLY <2>2, <2>3, <2>5, <2>6, <2>7, <2>8, <2>9, SMTT(60)
<1>6. s[n][1] \in 1 .. 1 + n
  <2>1. n <= n /\ 1 \in 1 .. n + 1 - n
    BY <1>1
  <2>. QED  BY <1>1, <1>5, <2>1
<1>. QED  BY <1>1, <1>3, <1>6

LEMMA RunsTyped ==
  ASSUME NEW fields \in Seq(FieldInfo), NEW e
  PROVE  SortedRun(fields, e) \in Seq(FieldInfo) /\ FoundRun(fields, e) \in Seq(FieldInfo)
<1>. DEFINE n == Len(fields)
            First(k) == /\ k <= n => fields[k].e = e
                        /\ \A j \in 1 .. k - 1 : fields[j].e # e
            Here == {k \in Nat : k >= 1 /\ k <= n /\ fields[k].e = e}
            from == CHOOSE k \in 1 .. n + 1 : First(k)
<1>1. SortedRun(fields, e) \in Seq(FieldInfo)
  BY LowerBoundInRange, RunTyped DEF SortedRun
<1>2. n \in Nat
  OBVIOUS
<1>3. \E k \in 1 .. n + 1 : First(k)
  <2>1. CASE Here = {}
    <3>1. First(n + 1) /\ n + 1 \in 1 .. n + 1
      BY <1>2, <2>1
    <3>. QED  BY <3>1
  <2>2. CASE Here # {}
    <3>1. PICK m \in Here : \A k \in Here : ~(k < m)
      BY <2>2, Smallest
    <3>2. m \in 1 .. n + 1 /\ fields[m].e = e /\ m <= n
      BY <1>2, <3>1
    <3>3. ASSUME NEW j \in 1 .. m - 1
          PROVE  fields[j].e # e
      <4>1. j \in Nat /\ j >= 1 /\ j <= n /\ j < m
        BY <1>2, <3>2
      <4>. QED  BY <3>1, <4>1
    <3>. QED  BY <3>2, <3>3
  <2>. QED  BY <2>1, <2>2
<1>4. from \in 1 .. n + 1
  BY <1>3
<1>5. FoundRun(fields, e) = Run(fields, from, e)
  BY DEF FoundRun
<1>. HIDE DEF from
<1>6. FoundRun(fields, e) \in Seq(FieldInfo)
  BY <1>4, <1>5, RunTyped
<1>. QED  BY <1>1, <1>6

LEMMA NamedTyped ==
  ASSUME NEW run \in Seq(FieldInfo)
  PROVE  /\ Numbers(run) \subseteq Field
         /\ \A n \in Numbers(run) : Named(run, n) \in FieldInfo
<1>1. \A k \in DOMAIN run : run[k] \in FieldInfo
  OBVIOUS
<1>2. ASSUME NEW n \in Numbers(run) PROVE Named(run, n) \in FieldInfo
  <2>1. \E k \in DOMAIN run : run[k].n = n
    BY DEF Numbers
  <2>2. (CHOOSE k \in DOMAIN run : run[k].n = n) \in DOMAIN run
    BY <2>1
  <2>. QED  BY <1>1, <2>2 DEF Named
<1>. QED  BY <1>1, <1>2 DEF Numbers, FieldInfo

LEMMA MergeLoopTyped ==
  ASSUME NEW old \in Seq(FieldInfo), NEW new \in Seq(FieldInfo), NEW e
  PROVE  MergeLoop(old, new, e).run \in Seq(FieldInfo)
<1>. DEFINE N == Len(old) + Len(new)
<1>1. Len(old) \in Nat /\ Len(new) \in Nat /\ N \in Nat
  OBVIOUS
<1>0. PICK f : LoopStates(f, old, new, e)
  BY <1>1, LoopRounds
<1>2. /\ f[0] = MergeBegins(old, new, e) /\ MergeLoop(old, new, e) = f[N]
      /\ \A k \in 1 .. N : f[k] = MergeRound(old, new, e, f[k - 1])
  BY <1>0 DEF LoopStates
<1>3. f[0] \in MergeState(old, new)
  BY <1>2, LowerBoundInRange DEF MergeBegins, MergeState
<1>4. f[N] \in MergeState(old, new)
  <2>1. \A k \in 0 .. N : f[k] \in MergeState(old, new)
    BY <1>2, <1>3, LoopEnds
  <2>. QED  BY <1>1, <2>1
<1>. QED  BY <1>2, <1>4 DEF MergeState

\* One sequence of fields for each of a finite set of ids, joined.
LEMMA JoinedTyped ==
  ASSUME NEW E \in SUBSET Nat, IsFiniteSet(E), NEW R, \A e \in E : R[e] \in Seq(FieldInfo)
  PROVE  /\ \A k \in DOMAIN Ascending(E) : Ascending(E)[k] \in E
         /\ FlattenSeq([k \in DOMAIN Ascending(E) |-> R[Ascending(E)[k]]]) \in Seq(FieldInfo)
<1>. DEFINE order == Ascending(E)
            seqs == [k \in DOMAIN order |-> R[order[k]]]
<1>1. order \in Seq(E) /\ DOMAIN order = 1 .. Len(order)
  BY AscendingExact
<1>. HIDE DEF order
<1>2. Len(order) \in Nat /\ \A k \in 1 .. Len(order) : order[k] \in E
  BY <1>1
<1>3. seqs \in Seq(Seq(FieldInfo))
  <2>1. \A k \in 1 .. Len(order) : R[order[k]] \in Seq(FieldInfo)
    BY <1>2
  <2>2. seqs = [k \in 1 .. Len(order) |-> R[order[k]]]
    BY <1>1
  <2>. HIDE DEF seqs
  <2>. QED  BY <1>2, <2>1, <2>2
<1>. HIDE DEF seqs
<1>4. FlattenSeq(seqs) \in Seq(FieldInfo)
  BY <1>3, FlattenPlaces
<1>. QED  BY <1>1, <1>2, <1>4 DEF seqs, order

\* A delta of entities whose ids and types are among I and T.
DeltaTyped(d, I, T) ==
  /\ d.fields \in Seq(FieldInfo) /\ DOMAIN d.ents \subseteq I
  /\ \A i \in DOMAIN d.ents : d.ents[i].full => d.ents[i].type \in T

LEMMA MergeTyped ==
  ASSUME NEW I \in SUBSET Nat, IsFiniteSet(I), NEW T, NEW this, NEW that,
         DeltaTyped(this, I, T), DeltaTyped(that, I, T)
  PROVE  DeltaTyped(MergeWithNext(this, that), I, T)
<1>. DEFINE D == DOMAIN this.ents
            C == DOMAIN that.ents
            one == (D \cup C) \ (D \cap C)
            both == ChangedInBoth(this, that)
            single(e) == FoundRun(IF \E k \in DOMAIN this.fields : this.fields[k].e = e
                                    THEN this.fields ELSE that.fields, e)
            merged(e) == MergeLoop(this.fields, that.fields, e).run
            R1 == [e \in one |-> single(e)]
            R2 == [e \in both |-> merged(e)]
            ones == Ascending(one)
            boths == Ascending(both)
            m == MergeWithNext(this, that)
<1>1. /\ this.fields \in Seq(FieldInfo) /\ that.fields \in Seq(FieldInfo)
      /\ D \subseteq I /\ C \subseteq I
  BY DEF DeltaTyped
<1>2. /\ one \in SUBSET Nat /\ IsFiniteSet(one)
      /\ both \in SUBSET Nat /\ IsFiniteSet(both)
  <2>1. one \subseteq I /\ both \subseteq I
    BY <1>1 DEF ChangedInBoth
  <2>. HIDE DEF one, both
  <2>. QED  BY <2>1, FS_Subset
<1>3. \A e \in one : R1[e] \in Seq(FieldInfo)
  <2>1. \A e \in one : single(e) \in Seq(FieldInfo)
    BY <1>1, RunsTyped
  <2>. HIDE DEF single, one
  <2>. QED  BY <2>1
<1>4. \A e \in both : R2[e] \in Seq(FieldInfo)
  <2>1. \A e \in both : merged(e) \in Seq(FieldInfo)
    BY <1>1, MergeLoopTyped
  <2>. HIDE DEF merged, both
  <2>. QED  BY <2>1
<1>. HIDE DEF single, merged
<1>5. /\ \A k \in DOMAIN ones : ones[k] \in one
      /\ FlattenSeq([k \in DOMAIN ones |-> R1[ones[k]]]) \in Seq(FieldInfo)
  <2>. HIDE DEF one, R1
  <2>. QED  BY <1>2, <1>3, JoinedTyped
<1>6. /\ \A k \in DOMAIN boths : boths[k] \in both
      /\ FlattenSeq([k \in DOMAIN boths |-> R2[boths[k]]]) \in Seq(FieldInfo)
  <2>. HIDE DEF both, R2
  <2>. QED  BY <1>2, <1>4, JoinedTyped
<1>7. [k \in DOMAIN ones |-> R1[ones[k]]] = [k \in DOMAIN ones |-> single(ones[k])]
  BY <1>5
<1>8. [k \in DOMAIN boths |-> R2[boths[k]]] = [k \in DOMAIN boths |-> merged(boths[k])]
  BY <1>6
<1>. DEFINE a == FlattenSeq([k \in DOMAIN ones |-> single(ones[k])])
            b == FlattenSeq([k \in DOMAIN boths |-> merged(boths[k])])
<1>9. a \in Seq(FieldInfo) /\ b \in Seq(FieldInfo)
  BY <1>5, <1>6, <1>7, <1>8
<1>10. MergedFields(this, that) = a \o b
  BY DEF MergedFields, single, merged
<1>. HIDE DEF a, b
<1>11. m.fields \in Seq(FieldInfo)
  BY <1>9, <1>10 DEF MergeWithNext
<1>12. m.ents = [i \in D \cup C |-> IF i \in C THEN that.ents[i] ELSE this.ents[i]]
  BY DEF MergeWithNext, NewerInfos
<1>. HIDE DEF m
<1>13. DOMAIN m.ents = D \cup C /\ \A i \in D \cup C : m.ents[i].full => m.ents[i].type \in T
  BY <1>12 DEF DeltaTyped
<1>. QED  BY <1>1, <1>11, <1>13 DEF DeltaTyped, m

LEMMA MergedTyped ==
  ASSUME NEW I \in SUBSET Nat, IsFiniteSet(I), NEW T, NEW S, NEW ds \in Seq(S),
         \A k \in DOMAIN ds : DeltaTyped(ds[k], I, T)
  PROVE  DeltaTyped(Merged(ds), I, T)
<1>. DEFINE n == Len(ds)
            f == CHOOSE f : Merges(f, n, ds)
            Bad == {k \in 0 .. n : ~DeltaTyped(f[k], I, T)}
<1>1. n \in Nat /\ DOMAIN ds = 1 .. n
  OBVIOUS
<1>2. Merges(f, n, ds)
  BY <1>1, MergesExists
<1>3. Merged(ds) = f[n]
  BY DEF Merged, Merges
<1>. HIDE DEF f
<1>4. /\ f[0] = EmptyDelta
      /\ \A k \in 1 .. n : f[k] = MergeWithNext(f[k - 1], ds[k])
  BY <1>1, <1>2 DEF Merges
<1>5. Bad = {}
  <2>. SUFFICES ASSUME Bad # {} PROVE FALSE
    OBVIOUS
  <2>1. PICK m \in Bad : \A k \in Bad : ~(k < m)
    <3>1. Bad \in SUBSET Nat
      BY <1>1
    <3>. QED  BY <3>1, Smallest
  <2>2. m \in 0 .. n /\ ~DeltaTyped(f[m], I, T)
    BY <2>1
  <2>3. m # 0
    <3>1. DeltaTyped(EmptyDelta, I, T)
      BY DEF DeltaTyped, EmptyDelta
    <3>. QED  BY <1>4, <2>2, <3>1
  <2>4. m \in 1 .. n /\ m - 1 \in 0 .. n /\ m - 1 < m
    BY <1>1, <2>2, <2>3
  <2>5. DeltaTyped(f[m - 1], I, T) /\ DeltaTyped(ds[m], I, T)
    BY <1>1, <2>1, <2>4
  <2>6. DeltaTyped(MergeWithNext(f[m - 1], ds[m]), I, T)
    BY <2>5, MergeTyped
  <2>. QED  BY <1>4, <2>2, <2>4, <2>6
<1>. QED  BY <1>1, <1>3, <1>5

\* A packet of entities whose ids and types are among I and T.
BodyTyped(body, I, T) ==
  /\ body.del \subseteq I /\ DOMAIN body.full \subseteq I /\ DOMAIN body.upd \subseteq I
  /\ \A i \in DOMAIN body.full : body.full[i].type \in T
  /\ \A i \in DOMAIN body.upd : \A n \in DOMAIN body.upd[i] :
       n \in Field /\ body.upd[i][n] \in DOMAIN Size
  /\ \A i \in DOMAIN body.upd : i \notin DOMAIN body.full

LEMMA DeltaPacketTyped ==
  ASSUME NEW I, NEW T, NEW d, DeltaTyped(d, I, T)
  PROVE  BodyTyped(DeltaPacket(d), I, T)
<1>. DEFINE body == DeltaPacket(d)
            E == DOMAIN d.ents
            del == {e \in E : d.ents[e].num = 0}
            full == {e \in E : d.ents[e].full}
            cells(run) == FlattenSeq([k \in DOMAIN run |-> Cells(run[k].v)])
            values(run) == [n \in Numbers(run) |-> Named(run, n).v]
            run(i) == SortedRun(d.fields, i)
<1>1. /\ body.del = del
      /\ body.full = [e \in full |-> [type |-> d.ents[e].type, cells |-> cells(run(e))]]
      /\ body.upd = [e \in E \ (del \cup full) |-> values(run(e))]
  BY DEF DeltaPacket
<1>2. \A e : run(e) \in Seq(FieldInfo)
  BY RunsTyped DEF DeltaTyped
<1>3. \A e : DOMAIN values(run(e)) \subseteq Field
             /\ \A n \in DOMAIN values(run(e)) : values(run(e))[n] \in DOMAIN Size
  <2>. HIDE DEF run
  <2>. QED  BY <1>2, NamedTyped DEF FieldInfo
<1>. HIDE DEF body, cells, values, run
<1>4. /\ DOMAIN body.full = full /\ DOMAIN body.upd = E \ (del \cup full)
      /\ \A e \in full : body.full[e].type = d.ents[e].type
      /\ \A e \in E \ (del \cup full) : body.upd[e] = values(run(e))
  BY <1>1
<1>5. E \subseteq I /\ \A e \in full : d.ents[e].type \in T
  BY DEF DeltaTyped
<1>. QED  BY <1>1, <1>3, <1>4, <1>5 DEF BodyTyped, body
=============================================================================

-------------------------- MODULE ReplicationProofs --------------------------
(***************************************************************************)
(* Theorems about Replication, for any number of entities, fields, values  *)
(* and types, any size of the ring, any allowance of packets without an    *)
(* acknowledgement, and any network.                                       *)
(***************************************************************************)
EXTENDS Replication, SnapshotsProofs

-----------------------------------------------------------------------------
(* The inductive invariant *)

\* The ring holds the deltas of the last ticks up to t, one per tick.
Consecutive(ring, t) ==
  /\ ring \in Seq(Range(ring))
  /\ Len(ring) <= t /\ Len(ring) <= RingSlots - 1
  /\ \A k \in DOMAIN ring : ring[k].id = t - Len(ring) + k

\* No delta after the k-th of the ring names entity i.
NotLater(ring, k, i) == \A j \in DOMAIN ring : j > k => i \notin DOMAIN ring[j].ents

\* The last delta that names an entity tells whether it is among ids.
RingTells(ring, ids) ==
  \A k \in DOMAIN ring : \A i \in DOMAIN ring[k].ents : NotLater(ring, k, i) =>
    /\ ring[k].ents[i].num = 0 <=> i \notin ids
    /\ ring[k].ents[i].full => i \in ids

\* Of what was there (had) after tick t and is no more (ids) at tick n, the ring
\* has a delta newer than t, if it goes back that far.
RingNames(ring, n, t, had, ids) ==
  n <= t + Len(ring) =>
    \A i \in had \ ids : \E k \in DOMAIN ring : ring[k].id > t /\ i \in DOMAIN ring[k].ents

\* Every id whose entity came or went since the last tick is on the list.
ComingsListed ==
  \A i \in (DOMAIN entities \cup DOMAIN world) \ (DOMAIN entities \cap DOMAIN world) :
    i \in Range(updated_entities)

ServerOK ==
  /\ now \in Nat
  /\ DOMAIN entities \subseteq Id /\ \A i \in DOMAIN entities : entities[i] \in Entity
  /\ IsIdAssigner(entity_ids) /\ HoldsExactly(entity_ids, DOMAIN entities)
  /\ updated_entities \in Seq(Id)
  /\ NoChangeForgotten
  /\ ComingsListed
  /\ DOMAIN master = DOMAIN world

RingOK == Consecutive(snaps, now) /\ RingTells(snaps, DOMAIN world)

\* Acknowledgements are of what the client has read; what is under way to it
\* is newer.
AcksOK ==
  /\ player \in [ack : Nat, sendDiff : BOOLEAN, unacked : 0 .. MaxUnacked]
  /\ c.ack \in Nat /\ c.ack <= now /\ player.ack <= c.ack
  /\ \A a \in toServer : a \in Nat /\ a <= c.ack
  /\ \A p \in toClient : p.tick \in Nat /\ c.ack < p.tick /\ p.tick <= now

\* A packet of deltas deletes what is gone since tick t.
Deletes(p, t, had) == p.diff /\ t < p.tick => had \ DOMAIN p.world \subseteq p.body.del

WireOK ==
  \A p \in toClient :
    /\ DOMAIN p.body.full \subseteq DOMAIN p.world
    /\ RingNames(snaps, now, p.tick, DOMAIN p.world, DOMAIN world)
    /\ \A q \in toClient : Deletes(q, p.tick, DOMAIN p.world)

ClientOK ==
  /\ {"ack", "status"} \subseteq DOMAIN c
  /\ c.status = "ok" =>
       /\ ~c.got => DOMAIN c.ents = {}
       /\ ~c.fellBack => DOMAIN c.ents \subseteq DOMAIN c.world
       /\ RingNames(snaps, now, c.ack, DOMAIN c.world, DOMAIN world)
       /\ \A p \in toClient : Deletes(p, c.ack, DOMAIN c.world)

IInv == ServerOK /\ RingOK /\ AcksOK /\ WireOK /\ ClientOK

-----------------------------------------------------------------------------
(* Merging *)

\* Of an entity the merged delta has the info of the last delta that names it.
LEMMA MergedInfos ==
  ASSUME NEW S, NEW deltas \in Seq(S)
  PROVE  LET infos == Merged(deltas).ents IN
         /\ \A i \in DOMAIN infos : \E k \in DOMAIN deltas : i \in DOMAIN deltas[k].ents
         /\ \A k \in DOMAIN deltas : \A i \in DOMAIN deltas[k].ents :
              NotLater(deltas, k, i) => i \in DOMAIN infos /\ infos[i] = deltas[k].ents[i]
<1>. DEFINE n == Len(deltas)
            Right(e, m) ==
              /\ \A i \in DOMAIN e : \E k \in 1 .. m : i \in DOMAIN deltas[k].ents
              /\ \A k \in 1 .. m : \A i \in DOMAIN deltas[k].ents :
                   (\A j \in 1 .. m : j > k => i \notin DOMAIN deltas[j].ents)
                   => i \in DOMAIN e /\ e[i] = deltas[k].ents[i]
<1>1. n \in Nat /\ DOMAIN deltas = 1 .. n
  OBVIOUS
<1>. DEFINE upTo == CHOOSE f : Merges(f, n, deltas)
<1>2. Merges(upTo, n, deltas)
  BY <1>1, MergesExists
<1>3. Merged(deltas) = upTo[n]
  BY DEF Merged, Merges
<1>. HIDE DEF upTo
<1>4. /\ upTo[0] = EmptyDelta
      /\ \A m \in 1 .. n : upTo[m] = MergeWithNext(upTo[m - 1], deltas[m])
  BY <1>1, <1>2 DEF Merges
<1>. DEFINE Bad == {m \in 0 .. n : ~Right(upTo[m].ents, m)}
<1>5. Bad = {}
  <2>. SUFFICES ASSUME Bad # {} PROVE FALSE
    OBVIOUS
  <2>1. PICK m \in Bad : \A k \in Bad : ~(k < m)
    <3>1. Bad \in SUBSET Nat
      BY <1>1
    <3>. QED  BY <3>1, Smallest
  <2>2. m # 0
    <3>1. DOMAIN upTo[0].ents = {}
      BY <1>4 DEF EmptyDelta
    <3>2. Right(upTo[0].ents, 0)
      BY <3>1
    <3>. QED  BY <2>1, <3>2
  <2>3. m \in 1 .. n /\ m - 1 \in 0 .. n /\ m - 1 < m
    BY <1>1, <2>1, <2>2
  <2>. DEFINE a == upTo[m - 1].ents
              b == upTo[m].ents
              d == deltas[m].ents
  <2>4. Right(a, m - 1)
    BY <2>1, <2>3
  <2>5. b = [i \in DOMAIN a \cup DOMAIN d |-> IF i \in DOMAIN d THEN d[i] ELSE a[i]]
    <3>1. upTo[m] = MergeWithNext(upTo[m - 1], deltas[m])
      BY <1>4, <2>3
    <3>2. upTo[m].ents = NewerInfos(upTo[m - 1], deltas[m])
      BY <3>1 DEF MergeWithNext
    <3>. QED  BY <3>2 DEF NewerInfos
  <2>. HIDE DEF a, b, d
  <2>6. \A i \in DOMAIN b : \E k \in 1 .. m : i \in DOMAIN deltas[k].ents
    <3>. TAKE i \in DOMAIN b
    <3>1. CASE i \in DOMAIN d
      BY <2>3, <3>1 DEF d
    <3>2. CASE i \in DOMAIN a
      <4>1. PICK k \in 1 .. m - 1 : i \in DOMAIN deltas[k].ents
        BY <2>4, <3>2
      <4>. QED  BY <1>1, <2>3, <4>1
    <3>. QED  BY <2>5, <3>1, <3>2
  <2>7. ASSUME NEW k \in 1 .. m, NEW i \in DOMAIN deltas[k].ents,
               \A j \in 1 .. m : j > k => i \notin DOMAIN deltas[j].ents
        PROVE  i \in DOMAIN b /\ b[i] = deltas[k].ents[i]
    <3>1. CASE k = m
      BY <2>5, <2>7, <3>1 DEF d
    <3>2. CASE k # m
      <4>1. k \in 1 .. m - 1 /\ m > k /\ \A j \in 1 .. m - 1 : j \in 1 .. m
        BY <1>1, <2>3, <3>2
      <4>2. i \notin DOMAIN d
        BY <2>3, <2>7, <4>1 DEF d
      <4>3. i \in DOMAIN a /\ a[i] = deltas[k].ents[i]
        BY <2>4, <2>7, <4>1
      <4>. QED  BY <2>5, <4>2, <4>3
    <3>. QED  BY <3>1, <3>2
  <2>8. Right(b, m)
    BY <2>6, <2>7
  <2>. QED  BY <2>1, <2>8 DEF b
<1>6. Right(upTo[n].ents, n)
  BY <1>1, <1>5
<1>. QED  BY <1>1, <1>3, <1>6 DEF NotLater

-----------------------------------------------------------------------------
(* The ring *)

\* A delta more; the oldest may fall out.
LEMMA NextInRingExact ==
  ASSUME NEW ring, ring \in Seq(Range(ring)), Len(ring) <= RingSlots - 1, NEW d
  PROVE  LET r == NextInRing(ring, d, RingSlots) IN
         /\ r \in Seq(Range(r))
         /\ Len(r) \in 1 .. RingSlots - 1 /\ r[Len(r)] = d
         /\ Len(r) = Len(ring) + 1 \/ Len(r) = Len(ring)
         /\ \A k \in 1 .. Len(r) - 1 : r[k] = ring[k + (Len(ring) + 1 - Len(r))]
<1>. DEFINE S == Range(ring) \cup {d}
            r == NextInRing(ring, d, RingSlots)
            n == Len(ring)
<1>. SUFFICES /\ r \in Seq(Range(r))
              /\ Len(r) \in 1 .. RingSlots - 1 /\ r[Len(r)] = d
              /\ Len(r) = n + 1 \/ Len(r) = n
              /\ \A k \in 1 .. Len(r) - 1 : r[k] = ring[k + (n + 1 - Len(r))]
  OBVIOUS
<1>. HIDE DEF r
<1>1. n \in Nat /\ RingSlots \in Nat \ {0, 1} /\ ring \in Seq(S) /\ d \in S
  BY ReplicationAssumption
<1>. HIDE DEF S
<1>2. CASE n < RingSlots - 1
  <2>1. r = Append(ring, d)
    BY <1>2 DEF NextInRing, r
  <2>2. r \in Seq(S) /\ Len(r) = n + 1 /\ r[n + 1] = d /\ \A k \in 1 .. n : r[k] = ring[k]
    BY <1>1, <2>1
  <2>3. r \in Seq(Range(r))
    BY <2>2 DEF Range
  <2>. QED  BY <1>1, <1>2, <2>2, <2>3
<1>3. CASE ~(n < RingSlots - 1)
  <2>1. n >= 1 /\ ring # <<>> /\ n = RingSlots - 1
    BY <1>1, <1>3
  <2>. DEFINE t == Tail(ring)
  <2>2. t \in Seq(S) /\ Len(t) = n - 1 /\ \A k \in 1 .. n - 1 : t[k] = ring[k + 1]
    BY <1>1, <2>1
  <2>3. r = Append(t, d)
    BY <1>3 DEF NextInRing, r
  <2>. HIDE DEF t
  <2>4. /\ r \in Seq(S) /\ Len(r) = n /\ r[n] = d
        /\ \A k \in 1 .. n - 1 : r[k] = ring[k + 1]
    BY <1>1, <2>1, <2>2, <2>3
  <2>5. r \in Seq(Range(r))
    BY <2>4 DEF Range
  <2>6. n + 1 - Len(r) = 1
    BY <1>1, <2>4
  <2>. QED  BY <1>1, <2>1, <2>4, <2>5, <2>6
<1>. QED  BY <1>1, <1>2, <1>3

\* An entity that a delta names is named by a last delta.
LEMMA LastNaming ==
  ASSUME NEW ring, ring \in Seq(Range(ring)),
         NEW k \in DOMAIN ring, NEW i \in DOMAIN ring[k].ents
  PROVE  \E j \in DOMAIN ring : k <= j /\ i \in DOMAIN ring[j].ents /\ NotLater(ring, j, i)
<1>. DEFINE n == Len(ring)
            T == {m \in Nat : m <= n - k /\ i \in DOMAIN ring[n - m].ents}
<1>1. n \in Nat /\ DOMAIN ring = 1 .. n
  OBVIOUS
<1>2. n - k \in T
  <2>1. n - k \in Nat /\ n - (n - k) = k
    BY <1>1
  <2>. QED  BY <2>1
<1>3. PICK m \in T : \A x \in T : ~(x < m)
  BY <1>2, Smallest
<1>4. n - m \in DOMAIN ring /\ k <= n - m /\ i \in DOMAIN ring[n - m].ents
  BY <1>1, <1>3
<1>5. ASSUME NEW j \in DOMAIN ring, j > n - m
      PROVE  i \notin DOMAIN ring[j].ents
  <2>1. n - j \in Nat /\ n - j < m /\ n - j <= n - k /\ n - (n - j) = j
    BY <1>1, <1>3, <1>5
  <2>2. n - j \notin T
    BY <1>3, <2>1
  <2>. QED  BY <2>1, <2>2
<1>. QED  BY <1>4, <1>5 DEF NotLater

\* The deltas after the one with number a, merged: they name what the ring names
\* after a, and tell of it what the last delta of the ring tells.
LEMMA MergedAfter ==
  ASSUME NEW ring, NEW t \in Nat, Consecutive(ring, t), NEW a, FoundInRing(ring, a)
  PROVE  LET infos == Merged(After(ring, a)).ents IN
         /\ a \in Int /\ t <= a + Len(ring)
         /\ \A i \in DOMAIN infos :
              \E k \in DOMAIN ring : /\ i \in DOMAIN ring[k].ents /\ NotLater(ring, k, i)
                                     /\ infos[i] = ring[k].ents[i]
         /\ \A k \in DOMAIN ring : \A i \in DOMAIN ring[k].ents :
              ring[k].id > a /\ NotLater(ring, k, i)
              => i \in DOMAIN infos /\ infos[i] = ring[k].ents[i]
<1>. DEFINE n == Len(ring)
            after == After(ring, a)
            infos == Merged(after).ents
<1>1. /\ n \in Nat /\ DOMAIN ring = 1 .. n /\ n <= t /\ ring \in Seq(Range(ring))
      /\ \A k \in 1 .. n : ring[k].id = t - n + k
  BY DEF Consecutive
<1>2. PICK m \in 1 .. n : ring[m].id = a
  BY <1>1 DEF FoundInRing
<1>3. {k \in DOMAIN ring : ring[k].id = a} = {m}
  BY <1>1, <1>2
<1>4. Max({m}) = m
  BY <1>2 DEF Max
<1>5. after = SubSeq(ring, m + 1, n)
  BY <1>3, <1>4 DEF After
<1>6. /\ after \in Seq(Range(ring)) /\ Len(after) = n - m
      /\ DOMAIN after = 1 .. n - m
      /\ \A j \in 1 .. n - m : after[j] = ring[m + j]
  <2>1. n \in Nat /\ m \in 1 .. n
    BY <1>1
  <2>2. \A i \in m + 1 .. n : ring[i] \in Range(ring)
    BY <1>1, <2>1 DEF Range
  <2>. HIDE DEF n
  <2>3. /\ m + 1 \in Int /\ n \in Int /\ n - (m + 1) + 1 = n - m /\ n - m \in Nat
        /\ (IF m + 1 <= n THEN n - (m + 1) + 1 ELSE 0) = n - m
        /\ \A j \in 1 .. n - m : (m + 1) + j - 1 = m + j
    BY <2>1
  <2>4. /\ SubSeq(ring, m + 1, n) \in Seq(Range(ring)) /\ Len(SubSeq(ring, m + 1, n)) = n - m
        /\ \A j \in 1 .. n - m : SubSeq(ring, m + 1, n)[j] = ring[(m + 1) + j - 1]
    BY <2>2, <2>3, SubSeqProperties
  <2>. HIDE DEF after
  <2>. QED  BY <1>5, <2>3, <2>4
<1>. HIDE DEF after
<1>7. /\ \A i \in DOMAIN infos : \E j \in DOMAIN after : i \in DOMAIN after[j].ents
      /\ \A j \in DOMAIN after : \A i \in DOMAIN after[j].ents :
           NotLater(after, j, i) => i \in DOMAIN infos /\ infos[i] = after[j].ents[i]
  BY <1>6, MergedInfos
<1>. HIDE DEF infos
<1>8. ASSUME NEW k \in DOMAIN ring, NEW i \in DOMAIN ring[k].ents,
             ring[k].id > a, NotLater(ring, k, i)
      PROVE  i \in DOMAIN infos /\ infos[i] = ring[k].ents[i]
  <2>1. k - m \in 1 .. n - m /\ m + (k - m) = k
    <3>1. t - n + k > t - n + m
      BY <1>1, <1>2, <1>8
    <3>. QED  BY <1>1, <1>2, <3>1
  <2>2. after[k - m] = ring[k]
    BY <1>6, <2>1
  <2>3. NotLater(after, k - m, i)
    <3>. SUFFICES ASSUME NEW j \in 1 .. n - m, j > k - m
                  PROVE  i \notin DOMAIN after[j].ents
      BY <1>6 DEF NotLater
    <3>1. m + j \in DOMAIN ring /\ m + j > k
      BY <1>1, <1>2
    <3>. QED  BY <1>6, <1>8, <3>1 DEF NotLater
  <2>. QED  BY <1>6, <1>7, <2>1, <2>2, <2>3
<1>9. ASSUME NEW i \in DOMAIN infos
      PROVE  \E k \in DOMAIN ring : /\ i \in DOMAIN ring[k].ents /\ NotLater(ring, k, i)
                                    /\ infos[i] = ring[k].ents[i]
  <2>1. PICK j \in 1 .. n - m : i \in DOMAIN after[j].ents
    BY <1>6, <1>7
  <2>2. m + j \in DOMAIN ring /\ i \in DOMAIN ring[m + j].ents
    BY <1>1, <1>2, <1>6, <2>1
  <2>3. PICK k \in DOMAIN ring : /\ m + j <= k
                                 /\ i \in DOMAIN ring[k].ents /\ NotLater(ring, k, i)
    BY <1>1, <2>2, LastNaming
  <2>4. ring[k].id > a
    BY <1>1, <1>2, <2>1, <2>3
  <2>. QED  BY <1>8, <2>3, <2>4
<1>10. a \in Int /\ t <= a + n
  BY <1>1, <1>2
<1>. QED  BY <1>8, <1>9, <1>10 DEF infos, after

\* A tick that names every entity that came or went keeps the ring telling.
LEMMA RingGrows ==
  ASSUME NEW ring, NEW t \in Nat, NEW old, NEW new, Consecutive(ring, t), RingTells(ring, old),
         NEW d, d.id = t + 1,
         \A i \in (old \cup new) \ (old \cap new) : i \in DOMAIN d.ents,
         \A i \in DOMAIN d.ents : /\ d.ents[i].num = 0 <=> i \notin new
                                  /\ d.ents[i].full => i \in new
  PROVE  LET r == NextInRing(ring, d, RingSlots) IN
         /\ Consecutive(r, t + 1) /\ RingTells(r, new)
         /\ \A s \in 0 .. t : \A had :
              RingNames(ring, t, s, had, old) => RingNames(r, t + 1, s, had, new)
<1>. DEFINE r == NextInRing(ring, d, RingSlots)
            n == Len(ring)
            m == Len(r)
            dropped == n + 1 - m
<1>1. /\ ring \in Seq(Range(ring)) /\ n \in Nat /\ DOMAIN ring = 1 .. n
      /\ n <= t /\ n <= RingSlots - 1
      /\ \A k \in 1 .. n : ring[k].id = t - n + k
  BY DEF Consecutive
<1>2. /\ r \in Seq(Range(r)) /\ m \in 1 .. RingSlots - 1 /\ r[m] = d
      /\ m = n + 1 \/ m = n
      /\ \A k \in 1 .. m - 1 : r[k] = ring[k + dropped]
  BY <1>1, NextInRingExact
<1>. HIDE DEF r
<1>3. m \in Nat /\ DOMAIN r = 1 .. m /\ dropped \in {0, 1} /\ m + dropped = n + 1
  BY <1>1, <1>2, ReplicationAssumption
<1>0. n = Len(ring) /\ m = Len(r)
  OBVIOUS
<1>. HIDE DEF n, m, dropped
<1>4. \A k \in 1 .. m - 1 : k + dropped \in 1 .. n
  BY <1>1, <1>3
<1>5. \A k \in 1 .. n : k > dropped => k - dropped \in 1 .. m - 1 /\ r[k - dropped] = ring[k]
  <2>. TAKE k \in 1 .. n
  <2>. HAVE k > dropped
  <2>1. k - dropped \in 1 .. m - 1 /\ (k - dropped) + dropped = k
    BY <1>1, <1>3
  <2>. QED  BY <1>2, <2>1
<1>6. Consecutive(r, t + 1)
  <2>1. ASSUME NEW k \in 1 .. m
        PROVE  r[k].id = (t + 1) - m + k
    <3>1. CASE k = m
      BY <1>2, <1>3, <3>1
    <3>2. CASE k # m
      <4>1. k \in 1 .. m - 1
        BY <1>3, <3>2
      <4>2. r[k].id = t - n + (k + dropped)
        BY <1>1, <1>2, <1>4, <4>1
      <4>. QED  BY <1>1, <1>3, <4>2
    <3>. QED  BY <3>1, <3>2
  <2>2. m <= t + 1 /\ m <= RingSlots - 1
    BY <1>1, <1>2, ReplicationAssumption
  <2>. QED  BY <1>0, <1>2, <1>3, <2>1, <2>2 DEF Consecutive
<1>7. RingTells(r, new)
  <2>. SUFFICES ASSUME NEW k \in 1 .. m, NEW i \in DOMAIN r[k].ents, NotLater(r, k, i)
                PROVE  /\ r[k].ents[i].num = 0 <=> i \notin new
                       /\ r[k].ents[i].full => i \in new
    BY <1>3 DEF RingTells
  <2>1. CASE k = m
    BY <1>2, <2>1
  <2>2. CASE k # m
    <3>1. k \in 1 .. m - 1 /\ m > k /\ m \in 1 .. m
      BY <1>2, <1>3, <2>2
    <3>2. r[k] = ring[k + dropped] /\ k + dropped \in 1 .. n
      BY <1>2, <1>4, <3>1
    <3>3. i \notin DOMAIN d.ents
      BY <1>2, <1>3, <3>1 DEF NotLater
    <3>4. i \in old <=> i \in new
      BY <3>3
    <3>5. NotLater(ring, k + dropped, i)
      <4>. SUFFICES ASSUME NEW j \in 1 .. n, j > k + dropped
                    PROVE  i \notin DOMAIN ring[j].ents
        BY <1>1 DEF NotLater
      <4>1. j > dropped /\ j - dropped > k
        BY <1>3
      <4>2. j - dropped \in DOMAIN r /\ r[j - dropped] = ring[j]
        BY <1>3, <1>5, <4>1
      <4>. QED  BY <4>1, <4>2 DEF NotLater
    <3>. QED  BY <1>1, <3>2, <3>4, <3>5 DEF RingTells
  <2>. QED  BY <2>1, <2>2
<1>8. ASSUME NEW s \in 0 .. t, NEW had, RingNames(ring, t, s, had, old)
      PROVE  RingNames(r, t + 1, s, had, new)
  <2>. SUFFICES ASSUME t + 1 <= s + m, NEW i \in had \ new
                PROVE  \E k \in 1 .. m : r[k].id > s /\ i \in DOMAIN r[k].ents
    BY <1>0, <1>3 DEF RingNames
  <2>1. CASE i \in DOMAIN d.ents
    <3>1. d.id > s /\ m \in 1 .. m
      BY <1>2, <1>3
    <3>. QED  BY <1>2, <2>1, <3>1
  <2>2. CASE i \notin DOMAIN d.ents
    <3>1. i \in had \ old
      BY <2>2
    <3>2. t <= s + n
      BY <1>1, <1>2, <1>3
    <3>3. PICK k \in 1 .. n : ring[k].id > s /\ i \in DOMAIN ring[k].ents
      BY <1>0, <1>1, <1>8, <3>1, <3>2 DEF RingNames
    <3>4. k > dropped
      <4>1. t - n + k > s
        BY <1>1, <3>3
      <4>. QED  BY <1>1, <1>3, <4>1
    <3>5. k - dropped \in 1 .. m - 1 /\ r[k - dropped] = ring[k]
      BY <1>5, <3>4
    <3>6. k - dropped \in 1 .. m
      BY <1>3, <3>5
    <3>. QED  BY <3>3, <3>5, <3>6
  <2>. QED  BY <2>1, <2>2
<1>9. \A s \in 0 .. t : \A had :
        RingNames(ring, t, s, had, old) => RingNames(r, t + 1, s, had, new)
  BY <1>8
<1>. QED  BY <1>6, <1>7, <1>9 DEF r

-----------------------------------------------------------------------------
(* Snapshots and packets *)

LEMMA DeltaOfExact ==
  ASSUME NEW id, NEW ents, NEW ids
  PROVE  LET d == DeltaOf(id, ents, ids) IN
         /\ d.id = id /\ DOMAIN d.ents = ids
         /\ \A i \in ids : /\ d.ents[i].num = 0 <=> i \notin DOMAIN ents
                           /\ d.ents[i].full => i \in DOMAIN ents
BY SnapshotsAssumption DEF DeltaOf

LEMMA DeltaPacketExact ==
  ASSUME NEW d
  PROVE  /\ DeltaPacket(d).del = {i \in DOMAIN d.ents : d.ents[i].num = 0}
         /\ DOMAIN DeltaPacket(d).full = {i \in DOMAIN d.ents : d.ents[i].full}
BY DEF DeltaPacket

LEMMA SnapshotPacketExact ==
  ASSUME NEW edata
  PROVE  SnapshotPacket(edata).del = {} /\ DOMAIN SnapshotPacket(edata).full = DOMAIN edata
BY DEF SnapshotPacket

LEMMA ReadDomain ==
  ASSUME NEW body
  PROVE  DOMAIN ReadEntities(body) = (DOMAIN c.ents \ body.del) \cup DOMAIN body.full
BY DEF ReadEntities, BeginCreate, Destroy, Shifted

-----------------------------------------------------------------------------
(* The application's steps *)

LEMMA AppendRange ==
  ASSUME NEW s \in Seq(Id), NEW id \in Id
  PROVE  Append(s, id) \in Seq(Id) /\ Range(Append(s, id)) = Range(s) \cup {id}
<1>1. /\ Append(s, id) \in Seq(Id) /\ Len(Append(s, id)) = Len(s) + 1
      /\ \A k \in 1 .. Len(s) : Append(s, id)[k] = s[k]
      /\ Append(s, id)[Len(s) + 1] = id
  OBVIOUS
<1>2. Len(s) \in Nat /\ DOMAIN s = 1 .. Len(s) /\ DOMAIN Append(s, id) = 1 .. Len(s) + 1
  BY <1>1
<1>. QED  BY <1>1, <1>2 DEF Range

\* What the application does is nothing to the ring, the wire and the client.
LEMMA OthersUnchanged ==
  ASSUME IInv, UNCHANGED <<now, snaps, player, toClient, toServer, c, world>>
  PROVE  RingOK' /\ AcksOK' /\ WireOK' /\ ClientOK'
BY DEF IInv, RingOK, AcksOK, WireOK, ClientOK, Deletes

LEMMA RegisterKeeps ==
  ASSUME IInv, NEW t \in Type, RegisterEntity(t)
  PROVE  IInv'
<1>. DEFINE id == NextId(entity_ids)
<1>1. /\ IsIdAssigner(entity_ids) /\ HoldsExactly(entity_ids, DOMAIN entities)
      /\ updated_entities \in Seq(Id) /\ DOMAIN entities \subseteq Id
      /\ \A i \in DOMAIN entities : entities[i] \in Entity
  BY DEF IInv, ServerOK
<1>2. /\ id \in Id
      /\ entities' = [i \in DOMAIN entities \cup {id} |->
                        IF i = id THEN NewEntity(t) ELSE entities[i]]
      /\ updated_entities' = Append(updated_entities, id)
      /\ entity_ids' = Acquire(entity_ids)
      /\ UNCHANGED <<now, master, snaps, player, toClient, toServer, c, world>>
  BY DEF RegisterEntity, Change
<1>3. /\ id \notin DOMAIN entities
      /\ IsIdAssigner(entity_ids') /\ HoldsExactly(entity_ids', DOMAIN entities \cup {id})
  BY <1>1, <1>2, AcquireExact
<1>. HIDE DEF id
<1>4. updated_entities' \in Seq(Id) /\ Range(updated_entities') = Range(updated_entities) \cup {id}
  BY <1>1, <1>2, AppendRange
<1>5. DOMAIN entities' = DOMAIN entities \cup {id}
  BY <1>2
<1>6. NewEntity(t) \in Entity
  BY ReplicationAssumption DEF NewEntity, Entity
<1>7. ServerOK'
  <2>1. \A i \in DOMAIN entities' : entities'[i] \in Entity
    BY <1>1, <1>2, <1>6
  <2>2. NoChangeForgotten'
    BY <1>2, <1>4 DEF NoChangeForgotten, IInv, ServerOK
  <2>3. ComingsListed'
    BY <1>2, <1>4, <1>5 DEF ComingsListed, IInv, ServerOK
  <2>. QED  BY <1>1, <1>2, <1>3, <1>4, <1>5, <2>1, <2>2, <2>3 DEF ServerOK, IInv
<1>. QED  BY <1>2, <1>7, OthersUnchanged DEF IInv

LEMMA SetFieldKeeps ==
  ASSUME IInv, NEW id \in Id, NEW n \in Field, NEW v \in Value, SetField(id, n, v)
  PROVE  IInv'
<1>1. /\ updated_entities \in Seq(Id) /\ DOMAIN entities \subseteq Id
      /\ \A i \in DOMAIN entities : entities[i] \in Entity
      /\ NoChangeForgotten
  BY DEF IInv, ServerOK
<1>2. /\ id \in DOMAIN entities
      /\ entities' = [entities EXCEPT ![id] = SetUpdated(@, n, v)]
      /\ updated_entities' = Marked(id)
      /\ UNCHANGED <<now, entity_ids, master, snaps, player, toClient, toServer, c, world>>
  BY DEF SetField, Change
<1>3. updated_entities' \in Seq(Id) /\ Range(updated_entities') = Range(updated_entities) \cup {id}
  BY <1>1, <1>2, AppendRange DEF Marked, MarkEntityUpdated, NoChangeForgotten
<1>4. /\ DOMAIN entities' = DOMAIN entities
      /\ \A i \in DOMAIN entities : i # id => entities'[i] = entities[i]
      /\ entities'[id] = SetUpdated(entities[id], n, v)
  BY <1>2
<1>5. SetUpdated(entities[id], n, v) \in Entity
  <2>. DEFINE e == entities[id]
  <2>1. e \in [type : Type, f : [Field -> Value], upd : SUBSET Field, marked : BOOLEAN]
    BY <1>1, <1>2 DEF Entity
  <2>. HIDE DEF e
  <2>. QED  BY <2>1 DEF SetUpdated, Entity, e
<1>6. ServerOK'
  <2>1. \A i \in DOMAIN entities' : entities'[i] \in Entity
    BY <1>1, <1>4, <1>5
  <2>2. NoChangeForgotten'
    BY <1>3, <1>4 DEF NoChangeForgotten, IInv, ServerOK
  <2>3. ComingsListed'
    BY <1>2, <1>3, <1>4 DEF ComingsListed, IInv, ServerOK
  <2>. QED  BY <1>2, <1>3, <1>4, <2>1, <2>2, <2>3 DEF ServerOK, IInv
<1>. QED  BY <1>2, <1>6, OthersUnchanged DEF IInv

LEMMA UnregisterKeeps ==
  ASSUME IInv, NEW id \in Id, UnregisterEntity(id)
  PROVE  IInv'
<1>1. /\ IsIdAssigner(entity_ids) /\ HoldsExactly(entity_ids, DOMAIN entities)
      /\ updated_entities \in Seq(Id) /\ DOMAIN entities \subseteq Id
      /\ \A i \in DOMAIN entities : entities[i] \in Entity
  BY DEF IInv, ServerOK
<1>2. /\ id \in DOMAIN entities
      /\ entities' = [i \in DOMAIN entities \ {id} |-> entities[i]]
      /\ updated_entities' = Append(updated_entities, id)
      /\ entity_ids' = Release(entity_ids, id)
      /\ UNCHANGED <<now, master, snaps, player, toClient, toServer, c, world>>
  BY DEF UnregisterEntity, Change
<1>3. IsIdAssigner(entity_ids') /\ HoldsExactly(entity_ids', DOMAIN entities \ {id})
  BY <1>1, <1>2, ReleaseExact
<1>4. updated_entities' \in Seq(Id) /\ Range(updated_entities') = Range(updated_entities) \cup {id}
  BY <1>1, <1>2, AppendRange
<1>5. /\ DOMAIN entities' = DOMAIN entities \ {id}
      /\ \A i \in DOMAIN entities' : entities'[i] = entities[i]
  BY <1>2
<1>6. ServerOK'
  <2>1. NoChangeForgotten'
    BY <1>4, <1>5 DEF NoChangeForgotten, IInv, ServerOK
  <2>2. ComingsListed'
    BY <1>2, <1>4, <1>5 DEF ComingsListed, IInv, ServerOK
  <2>. QED  BY <1>1, <1>2, <1>3, <1>4, <1>5, <2>1, <2>2 DEF ServerOK, IInv
<1>. QED  BY <1>2, <1>6, OthersUnchanged DEF IInv

-----------------------------------------------------------------------------
(* The tick *)

LEMMA TickServer ==
  ASSUME IInv, Tick
  PROVE  /\ ServerOK'
         /\ now' = now + 1 /\ DOMAIN world' = DOMAIN entities
         /\ master' = Snapshot(master, entities, Range(updated_entities))
         /\ DOMAIN master' = DOMAIN entities
         /\ UNCHANGED <<toServer, c>>
<1>. DEFINE ids == Range(updated_entities)
<1>1. /\ master' = Snapshot(master, entities, ids)
      /\ entities' = Cleared(ids)
      /\ now' = now + 1 /\ world' = World /\ updated_entities' = <<>>
      /\ UNCHANGED <<entity_ids, toServer, c>>
  BY DEF Tick
<1>2. /\ now \in Nat /\ DOMAIN entities \subseteq Id
      /\ \A i \in DOMAIN entities : entities[i] \in Entity
      /\ NoChangeForgotten /\ ComingsListed /\ DOMAIN master = DOMAIN world
  BY DEF IInv, ServerOK
<1>3. DOMAIN world' = DOMAIN entities
  BY <1>1 DEF World
<1>4. DOMAIN master' = DOMAIN entities
  <2>. HIDE DEF ids
  <2>1. DOMAIN Snapshot(master, entities, ids)
          = (DOMAIN master \ ids) \cup (DOMAIN entities \cap ids)
    BY DEF Snapshot
  <2>. QED  BY <1>1, <1>2, <2>1 DEF ComingsListed, ids
<1>5. /\ DOMAIN entities' = DOMAIN entities
      /\ \A i \in DOMAIN entities :
           /\ i \in ids => entities'[i] = [entities[i] EXCEPT !.upd = {}, !.marked = FALSE]
           /\ i \notin ids => entities'[i] = entities[i]
  BY <1>1 DEF Cleared
<1>6. ASSUME NEW i \in DOMAIN entities
      PROVE  entities'[i] \in Entity /\ entities'[i].upd = {} /\ entities'[i].marked = FALSE
  <2>. DEFINE e == entities[i]
  <2>1. e \in [type : Type, f : [Field -> Value], upd : SUBSET Field, marked : BOOLEAN]
    BY <1>2 DEF Entity
  <2>2. CASE i \in ids
    <3>1. entities'[i] = [e EXCEPT !.upd = {}, !.marked = FALSE]
      BY <1>5, <2>2
    <3>. HIDE DEF e
    <3>. QED  BY <2>1, <3>1 DEF Entity
  <2>3. CASE i \notin ids
    <3>1. e.upd = {} /\ e.marked # TRUE
      BY <1>2, <2>3 DEF NoChangeForgotten
    <3>2. e.marked \in BOOLEAN
      BY <2>1
    <3>. QED  BY <1>2, <1>5, <2>3, <3>1, <3>2
  <2>. QED  BY <2>2, <2>3
<1>7. NoChangeForgotten'
  BY <1>5, <1>6 DEF NoChangeForgotten
<1>8. ComingsListed'
  BY <1>3, <1>5 DEF ComingsListed
<1>9. <<>> \in Seq(Id) /\ now + 1 \in Nat
  BY <1>2
<1>. QED  BY <1>1, <1>2, <1>3, <1>4, <1>5, <1>6, <1>7, <1>8, <1>9 DEF ServerOK, IInv

\* The ring after the tick tells of the entities there are, and has for every
\* snapshot that the client has or may yet read what is gone since.
LEMMA TickRing ==
  ASSUME IInv, Tick
  PROVE  /\ RingOK'
         /\ \A t \in 0 .. now : \A had :
              RingNames(snaps, now, t, had, DOMAIN world)
              => RingNames(snaps', now', t, had, DOMAIN world')
<1>. DEFINE ids == Range(updated_entities)
            d == DeltaOf(now + 1, entities, ids)
<1>1. /\ snaps' = NextInRing(snaps, d, RingSlots) /\ now' = now + 1
      /\ DOMAIN world' = DOMAIN entities
  BY TickServer DEF Tick
<1>2. /\ now \in Nat /\ ComingsListed
      /\ Consecutive(snaps, now) /\ RingTells(snaps, DOMAIN world)
  BY DEF IInv, ServerOK, RingOK
<1>3. /\ d.id = now + 1 /\ DOMAIN d.ents = ids
      /\ \A i \in ids : /\ d.ents[i].num = 0 <=> i \notin DOMAIN entities
                        /\ d.ents[i].full => i \in DOMAIN entities
  BY DeltaOfExact
<1>. HIDE DEF d
<1>4. \A i \in (DOMAIN world \cup DOMAIN entities) \ (DOMAIN world \cap DOMAIN entities) :
        i \in DOMAIN d.ents
  BY <1>2, <1>3 DEF ComingsListed
<1>5. /\ Consecutive(snaps', now + 1) /\ RingTells(snaps', DOMAIN entities)
      /\ \A t \in 0 .. now : \A had :
           RingNames(snaps, now, t, had, DOMAIN world)
           => RingNames(snaps', now + 1, t, had, DOMAIN entities)
  BY <1>1, <1>2, <1>3, <1>4, RingGrows
<1>. QED  BY <1>1, <1>5 DEF RingOK

\* The merged deltas after a acknowledged tick delete all that is gone since it
\* or since a later tick, and create only what is there.
LEMMA DifferenceDeletes ==
  ASSUME NEW ring, NEW n \in Nat, NEW ids, Consecutive(ring, n), RingTells(ring, ids),
         NEW a, FoundInRing(ring, a)
  PROVE  LET body == DeltaPacket(Merged(After(ring, a))) IN
         /\ DOMAIN body.full \subseteq ids
         /\ \A t \in Nat : \A had :
              a <= t /\ RingNames(ring, n, t, had, ids) => had \ ids \subseteq body.del
<1>. DEFINE merged == Merged(After(ring, a))
            infos == merged.ents
            body == DeltaPacket(merged)
<1>1. /\ a \in Int /\ n <= a + Len(ring)
      /\ \A i \in DOMAIN infos :
           \E k \in DOMAIN ring : /\ i \in DOMAIN ring[k].ents /\ NotLater(ring, k, i)
                                  /\ infos[i] = ring[k].ents[i]
      /\ \A k \in DOMAIN ring : \A i \in DOMAIN ring[k].ents :
           ring[k].id > a /\ NotLater(ring, k, i)
           => i \in DOMAIN infos /\ infos[i] = ring[k].ents[i]
  BY MergedAfter
<1>2. /\ body.del = {i \in DOMAIN infos : infos[i].num = 0}
      /\ DOMAIN body.full = {i \in DOMAIN infos : infos[i].full}
  BY DeltaPacketExact
<1>. HIDE DEF merged
<1>3. DOMAIN body.full \subseteq ids
  BY <1>1, <1>2 DEF RingTells
<1>4. ASSUME NEW t \in Nat, NEW had, a <= t, RingNames(ring, n, t, had, ids),
             NEW i \in had \ ids
      PROVE  i \in body.del
  <2>1. /\ ring \in Seq(Range(ring)) /\ Len(ring) \in Nat /\ DOMAIN ring = 1 .. Len(ring)
        /\ \A k \in DOMAIN ring : ring[k].id = n - Len(ring) + k
    BY DEF Consecutive
  <2>2. n <= t + Len(ring)
    BY <1>1, <1>4, <2>1
  <2>3. PICK k \in DOMAIN ring : ring[k].id > t /\ i \in DOMAIN ring[k].ents
    BY <1>4, <2>2 DEF RingNames
  <2>4. PICK j \in DOMAIN ring : k <= j /\ i \in DOMAIN ring[j].ents /\ NotLater(ring, j, i)
    BY <2>1, <2>3, LastNaming
  <2>5. ring[j].id > a
    BY <1>1, <1>4, <2>1, <2>3, <2>4
  <2>6. i \in DOMAIN infos /\ infos[i] = ring[j].ents[i]
    BY <1>1, <2>4, <2>5
  <2>7. ring[j].ents[i].num = 0
    BY <1>4, <2>4 DEF RingTells
  <2>. QED  BY <1>2, <2>6, <2>7
<1>. QED  BY <1>3, <1>4 DEF merged

\* What ServerPlayerGameState::update sends: at most one packet.
LEMMA PlayerUpdates ==
  ASSUME NEW ring, NEW edata, NEW tick, NEW w,
         player \in [ack : Nat, sendDiff : BOOLEAN, unacked : 0 .. MaxUnacked],
         UpdatePlayer(ring, edata, tick, w)
  PROVE  /\ player' \in [ack : Nat, sendDiff : BOOLEAN, unacked : 0 .. MaxUnacked]
         /\ player'.ack = player.ack
         /\ \/ toClient' = toClient
            \/ \E p : /\ toClient' = toClient \cup {p} /\ p.tick = tick /\ p.world = w
                      /\ \/ p.diff /\ FoundInRing(ring, player.ack)
                            /\ p.body = DeltaPacket(Merged(After(ring, player.ack)))
                            /\ p.sorted = Merged(After(ring, player.ack)).sorted
                         \/ ~p.diff /\ p.body = SnapshotPacket(edata)
<1>. DEFINE Sent(p) ==
       /\ toClient' = toClient \cup {p} /\ p.tick = tick /\ p.world = w
       /\ \/ p.diff /\ FoundInRing(ring, player.ack)
             /\ p.body = DeltaPacket(Merged(After(ring, player.ack)))
             /\ p.sorted = Merged(After(ring, player.ack)).sorted
          \/ ~p.diff /\ p.body = SnapshotPacket(edata)
<1>1. CASE player.unacked >= MaxUnacked
  BY <1>1 DEF UpdatePlayer
<1>2. CASE ~(player.unacked >= MaxUnacked) /\ CanSendDiff(ring)
  <2>. DEFINE D == Difference(ring)
  <2>1. /\ \E garbled \in Garbled(D) :
             Send(DeltaPacket(D), tick, w, TRUE, D.sorted, garbled)
        /\ player' = [player EXCEPT !.unacked = @ + 1]
    BY <1>2 DEF UpdatePlayer
  <2>2. PICK garbled : Send(DeltaPacket(D), tick, w, TRUE, D.sorted, garbled)
    BY <2>1
  <2>. DEFINE p == [tick |-> tick, diff |-> TRUE, sorted |-> D.sorted, garbled |-> garbled,
                    body |-> DeltaPacket(D), world |-> w]
  <2>3. toClient' = toClient \cup {p}
    BY <2>2 DEF Send
  <2>4. FoundInRing(ring, player.ack) /\ D = Merged(After(ring, player.ack))
    BY <1>2 DEF CanSendDiff, Difference
  <2>. HIDE DEF D
  <2>5. Sent(p)
    BY <2>3, <2>4
  <2>6. /\ player' \in [ack : Nat, sendDiff : BOOLEAN, unacked : 0 .. MaxUnacked]
        /\ player'.ack = player.ack
    BY <1>2, <2>1, ReplicationAssumption
  <2>. QED  BY <2>5, <2>6
<1>3. CASE ~(player.unacked >= MaxUnacked) /\ ~CanSendDiff(ring)
  <2>1. /\ Send(SnapshotPacket(edata), tick, w, FALSE, TRUE, FALSE)
        /\ player' = [player EXCEPT !.unacked = MaxUnacked, !.sendDiff = FALSE]
    BY <1>3 DEF UpdatePlayer
  <2>. DEFINE p == [tick |-> tick, diff |-> FALSE, sorted |-> TRUE, garbled |-> FALSE,
                    body |-> SnapshotPacket(edata), world |-> w]
  <2>2. toClient' = toClient \cup {p}
    BY <2>1 DEF Send
  <2>3. Sent(p)
    BY <2>2
  <2>4. /\ player' \in [ack : Nat, sendDiff : BOOLEAN, unacked : 0 .. MaxUnacked]
        /\ player'.ack = player.ack
    <3>1. MaxUnacked \in 0 .. MaxUnacked
      BY ReplicationAssumption
    <3>2. player' = [player EXCEPT !.unacked = MaxUnacked, !.sendDiff = FALSE]
      BY <2>1
    <3>. QED  BY ONLY <3>1, <3>2, player \in [ack : Nat, sendDiff : BOOLEAN, unacked : 0 .. MaxUnacked]
  <2>. QED  BY <2>3, <2>4
<1>. QED  BY <1>1, <1>2, <1>3

LEMMA TickKeeps ==
  ASSUME IInv, Tick
  PROVE  IInv'
<1>. DEFINE W == DOMAIN world'
            Types == [ack : Nat, sendDiff : BOOLEAN, unacked : 0 .. MaxUnacked]
<1>1. /\ ServerOK' /\ RingOK' /\ now' = now + 1
      /\ W = DOMAIN entities /\ DOMAIN master' = W
      /\ UNCHANGED <<toServer, c>>
  BY TickServer, TickRing
<1>2. /\ now \in Nat
      /\ player \in Types
      /\ c.ack \in Nat /\ c.ack <= now /\ player.ack <= c.ack
      /\ \A a \in toServer : a \in Nat /\ a <= c.ack
      /\ \A p \in toClient : p.tick \in Nat /\ c.ack < p.tick /\ p.tick <= now
  BY DEF IInv, ServerOK, AcksOK
<1>3. \A t \in 0 .. now : \A had :
        RingNames(snaps, now, t, had, DOMAIN world) => RingNames(snaps', now', t, had, W)
  BY TickRing
<1>4. UpdatePlayer(snaps', master', now', world')
  BY DEF Tick
<1>5. player' \in Types /\ player'.ack = player.ack
  BY <1>2, <1>4, PlayerUpdates
<1>6. c.status = "ok" => RingNames(snaps', now', c.ack, DOMAIN c.world, W)
  BY <1>2, <1>3 DEF IInv, ClientOK
<1>7. \A p \in toClient : RingNames(snaps', now', p.tick, DOMAIN p.world, W)
  <2>. TAKE p \in toClient
  <2>1. p.tick \in 0 .. now
    BY <1>2
  <2>2. RingNames(snaps, now, p.tick, DOMAIN p.world, DOMAIN world)
    BY DEF IInv, WireOK
  <2>. QED  BY <1>3, <2>1, <2>2
<1>8. RingNames(snaps', now', now', W, W)
  BY DEF RingNames
<1>9. CASE toClient' = toClient
  <2>1. AcksOK'
    BY <1>1, <1>2, <1>5, <1>9 DEF AcksOK
  <2>2. WireOK'
    BY <1>7, <1>9 DEF IInv, WireOK, Deletes
  <2>3. ClientOK'
    BY <1>1, <1>6, <1>9 DEF IInv, ClientOK, Deletes
  <2>. QED  BY <1>1, <2>1, <2>2, <2>3 DEF IInv
<1>10. ASSUME NEW p, toClient' = toClient \cup {p}, p.tick = now', p.world = world',
              \/ p.diff /\ FoundInRing(snaps', player.ack)
                 /\ p.body = DeltaPacket(Merged(After(snaps', player.ack)))
              \/ ~p.diff /\ p.body = SnapshotPacket(master')
       PROVE  IInv'
  <2>1. p.diff => FoundInRing(snaps', player.ack)
                  /\ p.body = DeltaPacket(Merged(After(snaps', player.ack)))
    BY <1>10
  <2>2. /\ now' \in Nat /\ Consecutive(snaps', now') /\ RingTells(snaps', W)
    BY <1>1, <1>2 DEF RingOK
  <2>3. DOMAIN p.body.full \subseteq W
    <3>1. CASE p.diff
      BY <2>1, <2>2, <3>1, DifferenceDeletes
    <3>2. CASE ~p.diff
      BY <1>1, <1>10, <3>2, SnapshotPacketExact
    <3>. QED  BY <3>1, <3>2
  <2>4. ASSUME NEW t \in Nat, NEW had, player.ack <= t, RingNames(snaps', now', t, had, W)
        PROVE  Deletes(p, t, had)
    <3>. SUFFICES ASSUME p.diff PROVE had \ W \subseteq p.body.del
      BY <1>10 DEF Deletes
    <3>. QED  BY <2>1, <2>2, <2>4, DifferenceDeletes
  <2>5. AcksOK'
    <3>1. now' \in Nat /\ c.ack < now' /\ now' <= now' /\ c.ack <= now'
          /\ \A q \in toClient : q.tick <= now'
      BY <1>1, <1>2
    <3>2. player'.ack <= c.ack
      BY <1>2, <1>5
    <3>3. \A q \in toClient' : q.tick \in Nat /\ c.ack < q.tick /\ q.tick <= now'
      BY <1>2, <1>10, <3>1
    <3>. QED  BY <1>1, <1>2, <1>5, <3>1, <3>2, <3>3 DEF AcksOK
  <2>6. WireOK'
    <3>1. ASSUME NEW q \in toClient'
          PROVE  /\ DOMAIN q.body.full \subseteq DOMAIN q.world
                 /\ RingNames(snaps', now', q.tick, DOMAIN q.world, W)
      BY <1>7, <1>8, <1>10, <2>3 DEF IInv, WireOK
    <3>2. ASSUME NEW q \in toClient', NEW r \in toClient'
          PROVE  Deletes(r, q.tick, DOMAIN q.world)
      <4>1. CASE q \in toClient /\ r \in toClient
        BY <4>1 DEF IInv, WireOK
      <4>2. CASE q \in toClient /\ r = p
        <5>1. q.tick \in Nat /\ player.ack <= q.tick
          BY <1>2, <4>2
        <5>. QED  BY <1>7, <2>4, <4>2, <5>1
      <4>3. CASE q = p
        <5>1. ~(q.tick < r.tick)
          BY <1>1, <1>2, <1>10, <4>3
        <5>. QED  BY <5>1 DEF Deletes
      <4>. QED  BY <1>10, <4>1, <4>2, <4>3
    <3>. QED  BY <3>1, <3>2 DEF WireOK
  <2>7. ClientOK'
    <3>1. ASSUME c.status = "ok", NEW q \in toClient'
          PROVE  Deletes(q, c.ack, DOMAIN c.world)
      <4>1. CASE q \in toClient
        BY <3>1, <4>1 DEF IInv, ClientOK
      <4>2. CASE q = p
        BY <1>2, <1>6, <2>4, <3>1, <4>2
      <4>. QED  BY <1>10, <4>1, <4>2
    <3>. QED  BY <1>1, <1>6, <3>1 DEF IInv, ClientOK
  <2>. QED  BY <1>1, <2>5, <2>6, <2>7 DEF IInv
<1>. QED  BY <1>2, <1>4, <1>9, <1>10, PlayerUpdates

-----------------------------------------------------------------------------
(* Packets *)

LEMMA ServerRecvKeeps ==
  ASSUME IInv, NEW ack \in toServer, ServerRecv(ack)
  PROVE  IInv'
<1>1. Acknowledged(ack) /\ UNCHANGED <<now, entities, entity_ids, updated_entities, master,
        snaps, aborted, toClient, toServer, c, changes, world>>
  BY DEF ServerRecv
<1>2. /\ player \in [ack : Nat, sendDiff : BOOLEAN, unacked : 0 .. MaxUnacked]
      /\ player.ack <= c.ack /\ ack \in Nat /\ ack <= c.ack
      /\ 0 \in 0 .. MaxUnacked
  BY ReplicationAssumption DEF IInv, AcksOK
<1>3. /\ player' \in [ack : Nat, sendDiff : BOOLEAN, unacked : 0 .. MaxUnacked]
      /\ player'.ack \in {player.ack, ack}
  <2>1. CASE player' = [player EXCEPT !.unacked = 0]
    BY <1>2, <2>1
  <2>2. CASE player' = [player EXCEPT !.unacked = 0, !.sendDiff = TRUE, !.ack = ack]
    BY <1>2, <2>2
  <2>. QED  BY <1>1, <2>1, <2>2 DEF Acknowledged
<1>4. AcksOK'
  BY <1>1, <1>2, <1>3 DEF IInv, AcksOK
<1>5. ServerOK' /\ RingOK' /\ WireOK' /\ ClientOK'
  BY <1>1 DEF IInv, ServerOK, RingOK, WireOK, ClientOK, NoChangeForgotten, ComingsListed, Deletes
<1>. QED  BY <1>4, <1>5 DEF IInv

\* The client keeps an entity only if the packet's snapshot has it, unless it is
\* sent a full snapshot after others.
LEMMA ClientRecvKeeps ==
  ASSUME IInv, NEW p \in toClient, ClientRecv(p)
  PROVE  IInv'
<1>1. /\ c.status = "ok"
      /\ toClient' = {q \in toClient : q.tick > p.tick}
      /\ UNCHANGED <<now, entities, entity_ids, updated_entities, master, snaps, player,
                     aborted, toServer, changes, world>>
  BY DEF ClientRecv
<1>2. /\ c.ack \in Nat /\ c.ack <= now /\ player.ack <= c.ack
      /\ player \in [ack : Nat, sendDiff : BOOLEAN, unacked : 0 .. MaxUnacked]
      /\ \A a \in toServer : a \in Nat /\ a <= c.ack
      /\ \A q \in toClient : q.tick \in Nat /\ c.ack < q.tick /\ q.tick <= now
      /\ now \in Nat
  BY DEF IInv, ServerOK, AcksOK
<1>3. ServerOK' /\ RingOK' /\ WireOK'
  BY <1>1 DEF IInv, ServerOK, RingOK, WireOK, NoChangeForgotten, ComingsListed, Deletes
<1>4. ASSUME c'.ack = p.tick
      PROVE  AcksOK'
  <2>1. \A a \in toServer : a \in Nat /\ a <= p.tick
    BY <1>2
  <2>2. p.tick \in Nat /\ p.tick <= now /\ player.ack <= p.tick
    BY <1>2
  <2>. QED  BY <1>1, <1>2, <1>4, <2>1, <2>2 DEF AcksOK
<1>5. CASE Outcome(p) # "ok"
  <2>1. c' = [c EXCEPT !.ack = p.tick, !.status = Outcome(p)]
    BY <1>5 DEF ClientRecv
  <2>2. {"ack", "status"} \subseteq DOMAIN c
    BY DEF IInv, ClientOK
  <2>3. c'.ack = p.tick /\ c'.status = Outcome(p) /\ DOMAIN c' = DOMAIN c
    BY ONLY <2>1, <2>2
  <2>4. ClientOK'
    BY <1>5, <2>2, <2>3 DEF ClientOK
  <2>. QED  BY <1>3, <1>4, <2>3, <2>4 DEF IInv
<1>6. CASE Outcome(p) = "ok"
  <2>. DEFINE ents == ReadEntities(p.body)
              known == ToldAll(c.known, EntityEvents(p.body, Values(ents)))
  <2>1. c' = [ack |-> p.tick, got |-> TRUE, status |-> "ok", ents |-> ents, known |-> known,
              world |-> p.world, prev |-> c.world, sorted |-> c.sorted /\ p.sorted,
              fellBack |-> c.fellBack \/ (~p.diff /\ c.got)]
    BY <1>6 DEF ClientRecv
  <2>2. DOMAIN ents = (DOMAIN c.ents \ p.body.del) \cup DOMAIN p.body.full
    BY ReadDomain
  <2>. HIDE DEF ents, known
  <2>3. /\ c'.ack = p.tick /\ c'.got = TRUE /\ c'.status = "ok" /\ c'.ents = ents
        /\ c'.world = p.world /\ c'.fellBack = (c.fellBack \/ (~p.diff /\ c.got))
        /\ {"ack", "status"} \subseteq DOMAIN c'
    BY <2>1
  <2>4. ASSUME ~c'.fellBack
        PROVE  DOMAIN ents \subseteq DOMAIN p.world
    <3>1. ~c.fellBack /\ (p.diff \/ ~c.got)
      BY <2>3, <2>4
    <3>2. DOMAIN p.body.full \subseteq DOMAIN p.world
      BY DEF IInv, WireOK
    <3>3. DOMAIN c.ents \ p.body.del \subseteq DOMAIN p.world
      <4>1. CASE ~c.got
        BY <1>1, <4>1 DEF IInv, ClientOK
      <4>2. CASE p.diff
        <5>1. DOMAIN c.ents \subseteq DOMAIN c.world /\ Deletes(p, c.ack, DOMAIN c.world)
          BY <1>1, <3>1 DEF IInv, ClientOK
        <5>2. DOMAIN c.world \ DOMAIN p.world \subseteq p.body.del
          BY <1>2, <4>2, <5>1 DEF Deletes
        <5>. QED  BY <5>1, <5>2
      <4>. QED  BY <3>1, <4>1, <4>2
    <3>. QED  BY <2>2, <3>2, <3>3
  <2>5. /\ RingNames(snaps, now, p.tick, DOMAIN p.world, DOMAIN world)
        /\ \A q \in toClient : Deletes(q, p.tick, DOMAIN p.world)
    BY DEF IInv, WireOK
  <2>6. ClientOK'
    BY <1>1, <2>3, <2>4, <2>5 DEF ClientOK, Deletes
  <2>. QED  BY <1>3, <1>4, <2>3, <2>6 DEF IInv
<1>. QED  BY <1>5, <1>6

LEMMA ClientUpdateKeeps ==
  ASSUME IInv, ClientUpdate
  PROVE  IInv'
<1>1. /\ toServer' = toServer \cup {c.ack}
      /\ UNCHANGED <<now, entities, entity_ids, updated_entities, master, snaps, player,
                     aborted, toClient, c, changes, world>>
  BY DEF ClientUpdate
<1>2. AcksOK'
  BY <1>1 DEF IInv, AcksOK
<1>3. ServerOK' /\ RingOK' /\ WireOK' /\ ClientOK'
  BY <1>1 DEF IInv, ServerOK, RingOK, WireOK, ClientOK, NoChangeForgotten, ComingsListed, Deletes
<1>. QED  BY <1>2, <1>3 DEF IInv

-----------------------------------------------------------------------------
(* Theorems *)

LEMMA InitHolds == Init => IInv
<1>. SUFFICES ASSUME Init PROVE IInv
  OBVIOUS
<1>1. /\ now = 0 /\ entities = <<>> /\ entity_ids = NewIds /\ updated_entities = <<>>
      /\ master = <<>> /\ snaps = <<>> /\ toClient = {} /\ toServer = {}
      /\ player = NewPlayerState /\ c = NewGameState /\ world = <<>>
  BY DEF Init, NoWorld
<1>2. DOMAIN entities = {} /\ DOMAIN world = {} /\ DOMAIN master = {}
  BY <1>1
<1>3. ServerOK
  <2>1. IsIdAssigner(entity_ids) /\ HoldsExactly(entity_ids, DOMAIN entities)
    BY <1>1, <1>2, NewIdsExact
  <2>2. NoChangeForgotten /\ ComingsListed
    BY <1>2 DEF NoChangeForgotten, ComingsListed
  <2>3. updated_entities \in Seq(Id) /\ now \in Nat
    BY <1>1
  <2>. QED  BY <1>2, <2>1, <2>2, <2>3 DEF ServerOK
<1>4. RingOK
  <2>1. snaps \in Seq(Range(snaps)) /\ Len(snaps) = 0 /\ DOMAIN snaps = {}
    BY <1>1
  <2>2. 0 <= now /\ 0 <= RingSlots - 1
    BY <1>1, ReplicationAssumption
  <2>. QED  BY <2>1, <2>2 DEF RingOK, Consecutive, RingTells
<1>5. AcksOK
  BY <1>1, ReplicationAssumption DEF AcksOK, NewPlayerState, NewGameState
<1>6. WireOK
  BY <1>1 DEF WireOK
<1>7. ClientOK
  BY <1>1 DEF ClientOK, NewGameState, NoWorld, RingNames
<1>. QED  BY <1>3, <1>4, <1>5, <1>6, <1>7 DEF IInv

\* The inductive invariant holds in every state of every behaviour.
THEOREM Invariance == Spec => []IInv
<1>1. IInv /\ [Next]_vars => IInv'
  <2>. SUFFICES ASSUME IInv, [Next]_vars PROVE IInv'
    OBVIOUS
  <2>1. CASE \E t \in Type : RegisterEntity(t)
    BY <2>1, RegisterKeeps
  <2>2. CASE \E id \in Id, n \in Field, v \in Value : SetField(id, n, v)
    BY <2>2, SetFieldKeeps
  <2>3. CASE \E id \in Id : UnregisterEntity(id)
    BY <2>3, UnregisterKeeps
  <2>4. CASE Tick
    BY <2>4, TickKeeps
  <2>5. CASE Abort \/ UNCHANGED vars
    <3>1. UNCHANGED <<now, entities, entity_ids, updated_entities, master, snaps, player,
                      toClient, toServer, c, world>>
      BY <2>5 DEF Abort, vars
    <3>2. ServerOK'
      BY <3>1 DEF IInv, ServerOK, NoChangeForgotten, ComingsListed
    <3>. QED  BY <3>1, <3>2, OthersUnchanged DEF IInv
  <2>6. CASE \E ack \in toServer : ServerRecv(ack)
    BY <2>6, ServerRecvKeeps
  <2>7. CASE \E p \in toClient : ClientRecv(p)
    BY <2>7, ClientRecvKeeps
  <2>8. CASE ClientUpdate
    BY <2>8, ClientUpdateKeeps
  <2>. QED  BY <2>1, <2>2, <2>3, <2>4, <2>5, <2>6, <2>7, <2>8 DEF Next
<1>. QED  BY <1>1, InitHolds, PTL DEF Spec

\* An entity with a changed field is on the list the next tick goes through,
\* whatever happened to it, its id and its flags before (Server::registerEntity,
\* unregisterEntity, markEntityUpdated, Entity::markUpdated).
THEOREM ChangesAreListed == Spec => []NoChangeForgotten
<1>1. IInv => NoChangeForgotten
  BY DEF IInv, ServerOK
<1>. QED  BY <1>1, Invariance, PTL

\* The client keeps an entity the server no longer has only after a full
\* snapshot in place of deltas: whatever is lost, late or acknowledged twice,
\* merged deltas tell of every deletion since the snapshot the client has.
THEOREM DeletionsArrive == Spec => []GhostsOnlyAfterFull
<1>1. IInv => GhostsOnlyAfterFull
  BY DEF IInv, ClientOK, GhostsOnlyAfterFull
<1>. QED  BY <1>1, Invariance, PTL
-----------------------------------------------------------------------------
(* The inductive invariant of the data *)

\* The deltas of the ring after its k-th.
Since(ring, k) == SubSeq(ring, k + 1, Len(ring))

\* Merged, the deltas since one that is not newer than tick t lead from the world w
\* of that tick to world x.
Tells(ring, t, w, x) ==
  \A k \in DOMAIN ring :
    ring[k].id <= t /\ Merged(Since(ring, k)).sorted => Sound(Merged(Since(ring, k)), w, x)

\* What is not as it was at the last tick is a change that the entity keeps, and
\* the entity is on the list.
ChangesKept ==
  /\ \A i \in DOMAIN entities : \A n \in Field \ entities[i].upd :
       i \in DOMAIN world /\ world[i].f[n] = entities[i].f[n]
  /\ \A i \in (DOMAIN world \cup DOMAIN entities) \ Range(updated_entities) :
       /\ i \in DOMAIN world /\ i \in DOMAIN entities
       /\ world[i] = [type |-> entities[i].type, f |-> entities[i].f]

ServerTyped ==
  /\ now <= MaxTicks /\ changes \in 0 .. MaxChanges /\ aborted \in BOOLEAN
  /\ toServer \subseteq 1 .. now /\ player.ack \in toServer \cup {0}
  /\ IsWorld(world)
  /\ \A k \in DOMAIN snaps : DeltaTyped(snaps[k], Id, Type)
  /\ \A i \in DOMAIN master : master[i].type \in Type

PacketTyped(p) == p.tick \in 1 .. now /\ IsWorld(p.world) /\ BodyTyped(p.body, Id, Type)

ClientTyped ==
  /\ {"ack", "got", "status", "ents", "known", "world", "prev", "sorted"} \subseteq DOMAIN c
  /\ DOMAIN c.ents \subseteq Id /\ \A i \in DOMAIN c.ents : c.ents[i] \in Copy
  /\ IsWorld(c.world) /\ IsWorld(c.prev)
  /\ c.got => c.ack \in 1 .. now

\* The ring tells of the newest world, whatever snapshot the client has or may yet
\* read.
AllTold ==
  /\ Tells(snaps, now, world, world)
  /\ \A p \in toClient : Tells(snaps, p.tick, p.world, world)
  /\ c.status = "ok" => Tells(snaps, c.ack, c.world, world)

DInv ==
  /\ ChangesKept /\ ServerTyped /\ ClientTyped /\ AllTold
  /\ \A p \in toClient : PacketTyped(p)

\* A packet takes what the client read of tick t to its own world.
Follows(p, t, w) == p.sorted /\ t < p.tick => Applies(p.body, w, p.world)

ClientView ==
  c.status = "ok" =>
    /\ \A p \in toClient : Follows(p, c.ack, c.world)
    /\ c.sorted =>
         /\ Mirrors
         /\ \A i \in DOMAIN c.world \cap DOMAIN c.prev : c.ents[i].data = c.prev[i].f

VInv ==
  /\ HoldsWorld(master, world)
  /\ \A p, q \in toClient : Follows(p, q.tick, q.world)
  /\ ClientView

-----------------------------------------------------------------------------
(* What the ring tells *)

LEMMA AfterIsSince ==
  ASSUME NEW ring, NEW t \in Nat, Consecutive(ring, t), NEW a, FoundInRing(ring, a)
  PROVE  \E k \in DOMAIN ring : ring[k].id = a /\ After(ring, a) = Since(ring, k)
<1>1. /\ Len(ring) \in Nat /\ DOMAIN ring = 1 .. Len(ring)
      /\ \A k \in 1 .. Len(ring) : ring[k].id = t - Len(ring) + k
  BY DEF Consecutive
<1>2. PICK m \in 1 .. Len(ring) : ring[m].id = a
  BY <1>1 DEF FoundInRing
<1>3. {k \in DOMAIN ring : ring[k].id = a} = {m}
  BY <1>1, <1>2
<1>4. Max({m}) = m
  BY <1>2 DEF Max
<1>. QED  BY <1>1, <1>2, <1>3, <1>4 DEF After, Since

\* Each place of the ring with a delta more but the last is a place of the ring
\* before, and has one more delta after it.
LEMMA SinceGrows ==
  ASSUME NEW ring, ring \in Seq(Range(ring)), Len(ring) <= RingSlots - 1, NEW d
  PROVE  LET r == NextInRing(ring, d, RingSlots) IN
         /\ Len(r) \in Nat \ {0} /\ DOMAIN r = 1 .. Len(r)
         /\ r[Len(r)] = d /\ Since(r, Len(r)) = <<>>
         /\ \A k \in 1 .. Len(r) - 1 : \E j \in DOMAIN ring :
              r[k] = ring[j] /\ Merged(Since(r, k)) = MergeWithNext(Merged(Since(ring, j)), d)
<1>. DEFINE r == NextInRing(ring, d, RingSlots)
            S == Range(ring) \cup {d}
            n == Len(ring)
            m == Len(r)
            dropped == n + 1 - m
<1>1. /\ r \in Seq(Range(r)) /\ m \in 1 .. RingSlots - 1 /\ r[m] = d
      /\ m = n + 1 \/ m = n
      /\ \A k \in 1 .. m - 1 : r[k] = ring[k + dropped]
  BY NextInRingExact
<1>. HIDE DEF r
<1>0. n = Len(ring) /\ m = Len(r)
  OBVIOUS
<1>2. n \in Nat /\ DOMAIN ring = 1 .. n /\ m \in Nat \ {0} /\ DOMAIN r = 1 .. m
  BY <1>1, ReplicationAssumption
<1>. HIDE DEF n, m
<1>3. dropped \in {0, 1} /\ m + dropped = n + 1
  BY <1>1, <1>2
<1>. HIDE DEF dropped
<1>4. r \in Seq(S) /\ ring \in Seq(S) /\ d \in S
  <2>1. Range(r) \subseteq S
    <3>. SUFFICES ASSUME NEW k \in 1 .. m PROVE r[k] \in S
      BY <1>2 DEF Range
    <3>1. CASE k = m
      BY <1>1, <3>1
    <3>2. CASE k # m
      <4>1. k \in 1 .. m - 1 /\ k + dropped \in 1 .. n
        BY <1>2, <1>3, <3>2
      <4>2. r[k] = ring[k + dropped] /\ k + dropped \in DOMAIN ring
        BY <1>1, <1>2, <4>1
      <4>. QED  BY <4>2 DEF Range
    <3>. QED  BY <3>1, <3>2
  <2>. QED  BY <1>1, <2>1
<1>. HIDE DEF S
<1>5. Since(r, m) = <<>>
  BY <1>0, <1>2, <1>4 DEF Since
<1>6. ASSUME NEW k \in 1 .. m - 1
      PROVE  \E j \in DOMAIN ring :
               r[k] = ring[j] /\ Merged(Since(r, k)) = MergeWithNext(Merged(Since(ring, j)), d)
  <2>. DEFINE j == k + dropped
              old == Since(ring, j)
  <2>1. j \in 1 .. n /\ n - j = (m - k) - 1 /\ r[k] = ring[j] /\ k \in Nat /\ k < m
    BY <1>1, <1>2, <1>3
  <2>0. j = k + dropped
    OBVIOUS
  <2>. HIDE DEF j
  <2>2. old \in Seq(S) /\ Len(old) = n - j /\ \A x \in 1 .. n - j : old[x] = ring[j + x]
    BY <1>0, <1>2, <1>4, <2>1 DEF Since
  <2>3. /\ Since(r, k) \in Seq(S) /\ Len(Since(r, k)) = m - k
        /\ \A x \in 1 .. m - k : Since(r, k)[x] = r[k + x]
    BY <1>0, <1>2, <1>4, <2>1 DEF Since
  <2>. HIDE DEF old
  <2>4. Since(r, k) = Append(old, d)
    <3>0. n - j \in Nat
      BY <1>2, <2>1
    <3>1. /\ Append(old, d) \in Seq(S) /\ Len(Append(old, d)) = m - k
          /\ Append(old, d)[m - k] = d
          /\ \A x \in 1 .. (m - k) - 1 : Append(old, d)[x] = old[x]
      <4>1. /\ Append(old, d) \in Seq(S) /\ Len(Append(old, d)) = Len(old) + 1
            /\ Append(old, d)[Len(old) + 1] = d
            /\ \A x \in 1 .. Len(old) : Append(old, d)[x] = old[x]
        BY <1>4, <2>2, SMTT(60)
      <4>2. Len(old) + 1 = m - k /\ (m - k) - 1 = Len(old)
        BY <1>2, <2>1, <2>2
      <4>. QED  BY <4>1, <4>2
    <3>2. ASSUME NEW x \in 1 .. m - k
          PROVE  Since(r, k)[x] = Append(old, d)[x]
      <4>1. CASE x = m - k
        <5>1. k + x = m
          BY <1>2, <2>1, <4>1
        <5>. QED  BY <1>1, <2>3, <3>1, <4>1, <5>1
      <4>2. CASE x # m - k
        <5>1. /\ x \in 1 .. (m - k) - 1 /\ x \in 1 .. n - j
              /\ k + x \in 1 .. m - 1 /\ (k + x) + dropped = j + x
          BY <1>2, <1>3, <2>0, <2>1, <4>2, SMTT(60)
        <5>2. r[k + x] = ring[j + x]
          BY <1>1, <5>1
        <5>. QED  BY <2>2, <2>3, <3>1, <5>1, <5>2
      <4>. QED  BY <4>1, <4>2
    <3>. QED  BY <2>3, <3>1, <3>2
  <2>5. Merged(Append(old, d)) = MergeWithNext(Merged(old), d)
    BY <1>4, <2>2, MergedStep
  <2>6. j \in DOMAIN ring
    BY <1>2, <2>1
  <2>. QED  BY <2>1, <2>4, <2>5, <2>6 DEF old, j
<1>. QED  BY <1>0, <1>1, <1>2, <1>5, <1>6 DEF r

\* A tick later the ring tells the same of an earlier snapshot, up to the new world;
\* and it tells of the new world itself.
LEMMA TellsGrows ==
  ASSUME NEW ring, NEW t \in Nat, Consecutive(ring, t), NEW d, d.id = t + 1,
         NEW x, NEW y, Sound(d, x, y)
  PROVE  LET r == NextInRing(ring, d, RingSlots) IN
         /\ \A s \in 0 .. t : \A w : Tells(ring, s, w, x) => Tells(r, s, w, y)
         /\ Tells(ring, t, x, x) => Tells(r, t + 1, y, y)
<1>. DEFINE r == NextInRing(ring, d, RingSlots)
            m == Len(r)
<1>0. /\ ring \in Seq(Range(ring)) /\ Len(ring) <= RingSlots - 1 /\ Len(ring) <= t
      /\ Len(ring) \in Nat /\ DOMAIN ring = 1 .. Len(ring)
      /\ \A k \in DOMAIN ring : ring[k].id = t - Len(ring) + k
  BY DEF Consecutive
<1>1. /\ m \in Nat \ {0} /\ DOMAIN r = 1 .. m
      /\ r[m] = d /\ Since(r, m) = <<>>
      /\ \A k \in 1 .. m - 1 : \E j \in DOMAIN ring :
           r[k] = ring[j] /\ Merged(Since(r, k)) = MergeWithNext(Merged(Since(ring, j)), d)
  BY <1>0, SinceGrows
<1>. HIDE DEF r
<1>2. ASSUME NEW s, NEW w, Tells(ring, s, w, x), NEW k \in 1 .. m - 1,
             r[k].id <= s, Merged(Since(r, k)).sorted
      PROVE  Sound(Merged(Since(r, k)), w, y)
  <2>1. PICK j \in DOMAIN ring :
          r[k] = ring[j] /\ Merged(Since(r, k)) = MergeWithNext(Merged(Since(ring, j)), d)
    BY <1>1
  <2>. DEFINE old == Merged(Since(ring, j))
  <2>2. Merged(Since(r, k)) = MergeWithNext(old, d) /\ ring[j].id <= s
    BY <1>2, <2>1
  <2>3. MergeWithNext(old, d).sorted
    BY <1>2, <2>2
  <2>4. old.sorted
    BY <2>3 DEF MergeWithNext
  <2>5. Sound(old, w, x)
    BY <1>2, <2>2, <2>4 DEF Tells
  <2>. HIDE DEF old
  <2>6. Sound(MergeWithNext(old, d), w, y)
    BY <2>3, <2>5, MergedLeads
  <2>. QED  BY <2>2, <2>6
<1>3. ASSUME NEW s \in 0 .. t, NEW w, Tells(ring, s, w, x)
      PROVE  Tells(r, s, w, y)
  <2>. SUFFICES ASSUME NEW k \in DOMAIN r, r[k].id <= s, Merged(Since(r, k)).sorted
                PROVE  Sound(Merged(Since(r, k)), w, y)
    BY DEF Tells
  <2>1. k # m
    <3>1. ~(t + 1 <= s)
      OBVIOUS
    <3>. QED  BY <1>1, <3>1
  <2>2. k \in 1 .. m - 1
    BY <1>1, <2>1
  <2>. QED  BY <1>2, <1>3, <2>2
<1>4. ASSUME Tells(ring, t, x, x)
      PROVE  Tells(r, t + 1, y, y)
  <2>. SUFFICES ASSUME NEW k \in DOMAIN r, Merged(Since(r, k)).sorted
                PROVE  Sound(Merged(Since(r, k)), y, y)
    BY DEF Tells
  <2>1. CASE k = m
    BY <1>1, <2>1, MergedNone, EmptyLeads
  <2>2. CASE k # m
    <3>1. k \in 1 .. m - 1
      BY <1>1, <2>2
    <3>2. PICK j \in DOMAIN ring : r[k] = ring[j]
      BY <1>1, <3>1
    <3>3. r[k].id <= t
      BY <1>0, <3>2
    <3>4. Sound(Merged(Since(r, k)), x, y)
      BY <1>2, <1>4, <3>1, <3>3
    <3>. QED  BY <3>4, LeadsAgain
  <2>. QED  BY <2>1, <2>2
<1>. QED  BY <1>3, <1>4 DEF r

\* The merged deltas since the acknowledged one lead to the newest world from any
\* snapshot that is not older.
LEMMA DifferenceLeads ==
  ASSUME NEW ring, NEW n \in Nat, Consecutive(ring, n), NEW a, FoundInRing(ring, a),
         NEW t, a <= t, NEW w, NEW x, Tells(ring, t, w, x), Merged(After(ring, a)).sorted
  PROVE  Sound(Merged(After(ring, a)), w, x)
BY AfterIsSince DEF Tells

-----------------------------------------------------------------------------
(* The data: the application's steps *)

LEMMA IdsFinite == Id \in SUBSET Nat /\ IsFiniteSet(Id)
<1>1. MaxIds \in Nat /\ 0 \in Int /\ MaxIds - 1 \in Int
  BY ReplicationAssumption
<1>2. IsFiniteSet(0 .. MaxIds - 1)
  BY <1>1, FS_Interval
<1>. QED  BY <1>1, <1>2 DEF Id

\* What the application does is nothing to what the ring tells and to the packets.
LEMMA OthersData ==
  ASSUME DInv, ChangesKept', changes' \in 0 .. MaxChanges, aborted' \in BOOLEAN,
         UNCHANGED <<now, master, snaps, player, toClient, toServer, c, world>>
  PROVE  DInv'
BY DEF DInv, ServerTyped, ClientTyped, AllTold, PacketTyped

LEMMA ChangeData ==
  ASSUME DInv, Change
  PROVE  /\ changes' \in 0 .. MaxChanges /\ aborted' \in BOOLEAN
         /\ UNCHANGED <<now, master, snaps, player, toClient, toServer, c, world>>
BY ReplicationAssumption DEF DInv, ServerTyped, Change

LEMMA RegisterData ==
  ASSUME IInv, DInv, NEW t \in Type, RegisterEntity(t)
  PROVE  DInv'
<1>. DEFINE id == NextId(entity_ids)
<1>1. /\ IsIdAssigner(entity_ids) /\ HoldsExactly(entity_ids, DOMAIN entities)
      /\ updated_entities \in Seq(Id)
  BY DEF IInv, ServerOK
<1>2. /\ Change /\ id \in Id
      /\ entities' = [i \in DOMAIN entities \cup {id} |->
                        IF i = id THEN NewEntity(t) ELSE entities[i]]
      /\ updated_entities' = Append(updated_entities, id)
  BY DEF RegisterEntity
<1>3. id \notin DOMAIN entities
  BY <1>1, AcquireExact
<1>. HIDE DEF id
<1>4. Range(updated_entities') = Range(updated_entities) \cup {id}
  BY <1>1, <1>2, AppendRange
<1>5. /\ DOMAIN entities' = DOMAIN entities \cup {id}
      /\ \A i \in DOMAIN entities : entities'[i] = entities[i]
      /\ entities'[id].upd = Field
  BY <1>2, <1>3 DEF NewEntity
<1>6. ChangesKept'
  <2>1. world' = world /\ ChangesKept
    BY <1>2, ChangeData DEF DInv
  <2>2. ASSUME NEW i \in DOMAIN entities', NEW m \in Field \ entities'[i].upd
        PROVE  i \in DOMAIN world' /\ world'[i].f[m] = entities'[i].f[m]
    BY <1>5, <2>1 DEF ChangesKept
  <2>3. ASSUME NEW i \in (DOMAIN world' \cup DOMAIN entities') \ Range(updated_entities')
        PROVE  /\ i \in DOMAIN world' /\ i \in DOMAIN entities'
               /\ world'[i] = [type |-> entities'[i].type, f |-> entities'[i].f]
    <3>1. i \in (DOMAIN world \cup DOMAIN entities) \ Range(updated_entities) /\ i # id
      BY <1>4, <1>5, <2>1
    <3>. QED  BY <1>5, <2>1, <3>1 DEF ChangesKept
  <2>. QED  BY <2>2, <2>3 DEF ChangesKept
<1>. QED  BY <1>2, <1>6, ChangeData, OthersData

LEMMA SetFieldData ==
  ASSUME IInv, DInv, NEW id \in Id, NEW n \in Field, NEW v \in Value, SetField(id, n, v)
  PROVE  DInv'
<1>1. /\ updated_entities \in Seq(Id) /\ DOMAIN entities \subseteq Id
      /\ \A i \in DOMAIN entities : entities[i] \in Entity
      /\ NoChangeForgotten
  BY DEF IInv, ServerOK
<1>2. /\ Change /\ id \in DOMAIN entities
      /\ entities' = [entities EXCEPT ![id] = SetUpdated(@, n, v)]
      /\ updated_entities' = Marked(id)
  BY DEF SetField
<1>3. Range(updated_entities') = Range(updated_entities) \cup {id}
  BY <1>1, <1>2, AppendRange DEF Marked, MarkEntityUpdated, NoChangeForgotten
<1>4. /\ DOMAIN entities' = DOMAIN entities
      /\ \A i \in DOMAIN entities : i # id => entities'[i] = entities[i]
      /\ entities'[id] = SetUpdated(entities[id], n, v)
  BY <1>2
<1>5. LET e == SetUpdated(entities[id], n, v) IN
      e.upd = entities[id].upd \cup {n} /\ \A m \in Field \ {n} : e.f[m] = entities[id].f[m]
  <2>. DEFINE e == entities[id]
  <2>1. e \in [type : Type, f : [Field -> Value], upd : SUBSET Field, marked : BOOLEAN]
    BY <1>1, <1>2 DEF Entity
  <2>. HIDE DEF e
  <2>. QED  BY <2>1 DEF SetUpdated, e
<1>6. ChangesKept'
  <2>1. world' = world /\ ChangesKept
    BY <1>2, ChangeData DEF DInv
  <2>2. ASSUME NEW i \in DOMAIN entities', NEW m \in Field \ entities'[i].upd
        PROVE  i \in DOMAIN world' /\ world'[i].f[m] = entities'[i].f[m]
    BY <1>2, <1>4, <1>5, <2>1 DEF ChangesKept
  <2>3. ASSUME NEW i \in (DOMAIN world' \cup DOMAIN entities') \ Range(updated_entities')
        PROVE  /\ i \in DOMAIN world' /\ i \in DOMAIN entities'
               /\ world'[i] = [type |-> entities'[i].type, f |-> entities'[i].f]
    <3>1. i \in (DOMAIN world \cup DOMAIN entities) \ Range(updated_entities) /\ i # id
      BY <1>2, <1>3, <1>4, <2>1
    <3>. QED  BY <1>2, <1>4, <1>5, <2>1, <3>1 DEF ChangesKept
  <2>. QED  BY <2>2, <2>3 DEF ChangesKept
<1>. QED  BY <1>2, <1>6, ChangeData, OthersData

LEMMA UnregisterData ==
  ASSUME IInv, DInv, NEW id \in Id, UnregisterEntity(id)
  PROVE  DInv'
<1>1. updated_entities \in Seq(Id)
  BY DEF IInv, ServerOK
<1>2. /\ Change
      /\ entities' = [i \in DOMAIN entities \ {id} |-> entities[i]]
      /\ updated_entities' = Append(updated_entities, id)
  BY DEF UnregisterEntity
<1>3. Range(updated_entities') = Range(updated_entities) \cup {id}
  BY <1>1, <1>2, AppendRange
<1>4. /\ DOMAIN entities' = DOMAIN entities \ {id}
      /\ \A i \in DOMAIN entities' : entities'[i] = entities[i]
  BY <1>2
<1>5. ChangesKept'
  <2>1. world' = world /\ ChangesKept
    BY <1>2, ChangeData DEF DInv
  <2>2. ASSUME NEW i \in DOMAIN entities', NEW m \in Field \ entities'[i].upd
        PROVE  i \in DOMAIN world' /\ world'[i].f[m] = entities'[i].f[m]
    BY <1>4, <2>1 DEF ChangesKept
  <2>3. ASSUME NEW i \in (DOMAIN world' \cup DOMAIN entities') \ Range(updated_entities')
        PROVE  /\ i \in DOMAIN world' /\ i \in DOMAIN entities'
               /\ world'[i] = [type |-> entities'[i].type, f |-> entities'[i].f]
    <3>1. i \in (DOMAIN world \cup DOMAIN entities) \ Range(updated_entities) /\ i # id
      BY <1>3, <1>4, <2>1
    <3>. QED  BY <1>4, <2>1, <3>1 DEF ChangesKept
  <2>. QED  BY <2>2, <2>3 DEF ChangesKept
<1>. QED  BY <1>2, <1>5, ChangeData, OthersData

-----------------------------------------------------------------------------
(* The data: the tick *)

\* The delta of the tick leads from the world of the last one to the new one.
LEMMA TickLeads ==
  ASSUME IInv, DInv, Tick
  PROVE  LET d == DeltaOf(now + 1, entities, Range(updated_entities)) IN
         /\ snaps' = NextInRing(snaps, d, RingSlots) /\ d.id = now + 1
         /\ Sound(d, world, world') /\ DeltaTyped(d, Id, Type)
         /\ IsWorld(world') /\ ChangesKept'
         /\ \A i \in DOMAIN master' : master'[i].type \in Type
         /\ SameSizes /\ HoldsWorld(master, world) => HoldsWorld(master', world')
<1>. DEFINE ids == Range(updated_entities)
            d == DeltaOf(now + 1, entities, ids)
            x == [i \in DOMAIN entities |-> [type |-> entities[i].type, f |-> entities[i].f]]
<1>1. /\ master' = Snapshot(master, entities, ids)
      /\ snaps' = NextInRing(snaps, d, RingSlots)
      /\ entities' = Cleared(ids)
      /\ world' = x /\ updated_entities' = <<>>
  BY DEF Tick, World
<1>2. /\ DOMAIN entities \subseteq Id
      /\ \A i \in DOMAIN entities : entities[i] \in Entity
      /\ updated_entities \in Seq(Id) /\ DOMAIN master = DOMAIN world
  BY DEF IInv, ServerOK
<1>3. ids \in SUBSET Nat /\ ids \subseteq Id /\ IsFiniteSet(ids)
  <2>1. ids \subseteq Id
    BY <1>2 DEF Range
  <2>. QED  BY <2>1, IdsFinite, FS_Subset
<1>. HIDE DEF ids
<1>4. \A i \in DOMAIN entities : /\ entities[i].type \in Type
                                 /\ entities[i].f \in [Field -> Value]
                                 /\ entities[i].upd \in SUBSET Field
  BY <1>2 DEF Entity
<1>5. /\ \A i \in DOMAIN entities : \A n \in Field \ entities[i].upd :
           i \in DOMAIN world /\ world[i].f[n] = entities[i].f[n]
      /\ \A i \in (DOMAIN world \cup DOMAIN entities) \ ids :
           /\ i \in DOMAIN world /\ i \in DOMAIN entities
           /\ world[i] = [type |-> entities[i].type, f |-> entities[i].f]
  BY DEF DInv, ChangesKept, ids
<1>6. Sound(d, world, x)
  BY <1>3, <1>4, <1>5, DeltaOfLeads DEF Value
<1>7. IsWorld(x)
  BY <1>2, <1>4 DEF IsWorld
<1>8. DeltaTyped(d, Id, Type)
  <2>1. d.fields \in Seq(FieldInfo)
    BY <1>6 DEF Sound, DeltaOK, Grouped
  <2>2. /\ DOMAIN d.ents = ids
        /\ \A i \in ids : d.ents[i].full => i \in DOMAIN entities
    BY DeltaOfExact
  <2>3. \A i \in ids : i \in DOMAIN entities => d.ents[i].type = entities[i].type
    BY DEF DeltaOf
  <2>. HIDE DEF d
  <2>. QED  BY <1>3, <1>4, <2>1, <2>2, <2>3 DEF DeltaTyped
<1>9. d.id = now + 1
  BY DEF DeltaOf
<1>10. ChangesKept'
  <2>1. /\ DOMAIN entities' = DOMAIN entities
        /\ \A i \in DOMAIN entities :
             entities'[i] = IF i \in ids THEN [entities[i] EXCEPT !.upd = {}, !.marked = FALSE]
                            ELSE entities[i]
    BY <1>1 DEF Cleared
  <2>2. ASSUME NEW i \in DOMAIN entities
        PROVE  entities'[i].f = entities[i].f /\ entities'[i].type = entities[i].type
    <3>. DEFINE e == entities[i]
    <3>1. e \in [type : Type, f : [Field -> Value], upd : SUBSET Field, marked : BOOLEAN]
      BY <1>2 DEF Entity
    <3>2. entities'[i] = IF i \in ids THEN [e EXCEPT !.upd = {}, !.marked = FALSE] ELSE e
      BY <2>1
    <3>. HIDE DEF e
    <3>3. entities'[i].f = e.f /\ entities'[i].type = e.type
      BY <3>1, <3>2
    <3>. QED  BY <3>3 DEF e
  <2>3. /\ DOMAIN world' = DOMAIN entities
        /\ \A i \in DOMAIN entities :
             /\ world'[i] = [type |-> entities[i].type, f |-> entities[i].f]
             /\ world'[i].f = entities[i].f
    BY <1>1
  <2>. HIDE DEF x
  <2>. QED  BY <2>1, <2>2, <2>3 DEF ChangesKept
<1>11. \A i \in DOMAIN master' : master'[i].type \in Type
  <2>. DEFINE data(i) == IF i \in DOMAIN master THEN master[i] ELSE NoData
  <2>1. /\ DOMAIN master' = (DOMAIN master \ ids) \cup (DOMAIN entities \cap ids)
        /\ \A i \in DOMAIN master' :
             master'[i] = IF i \notin ids THEN master[i] ELSE AddEntity(data(i), entities[i])
    BY <1>1 DEF Snapshot
  <2>2. \A i : AddEntity(data(i), entities[i]).type = entities[i].type
    BY DEF AddEntity
  <2>3. \A i \in DOMAIN master : master[i].type \in Type
    BY DEF DInv, ServerTyped
  <2>. HIDE DEF data
  <2>. QED  BY <1>4, <2>1, <2>2, <2>3
<1>12. ASSUME SameSizes, HoldsWorld(master, world)
       PROVE  HoldsWorld(master', x)
  <2>1. \A i \in DOMAIN world : world[i].f \in [Field -> Value]
    BY DEF DInv, ServerTyped, IsWorld
  <2>2. HoldsWorld(Snapshot(master, entities, ids), x)
    BY <1>4, <1>5, <1>12, <2>1, SnapshotExact DEF Value
  <2>. QED  BY <1>1, <2>2
<1>. QED  BY <1>1, <1>6, <1>7, <1>8, <1>9, <1>10, <1>11, <1>12 DEF ids

LEMMA WholeTyped ==
  ASSUME NEW edata, DOMAIN edata \subseteq Id, \A i \in DOMAIN edata : edata[i].type \in Type
  PROVE  BodyTyped(SnapshotPacket(edata), Id, Type)
BY DEF BodyTyped, SnapshotPacket

LEMMA TickData ==
  ASSUME IInv, DInv, Tick
  PROVE  DInv'
<1>. DEFINE d == DeltaOf(now + 1, entities, Range(updated_entities))
<1>1. /\ snaps' = NextInRing(snaps, d, RingSlots) /\ d.id = now + 1
      /\ Sound(d, world, world') /\ DeltaTyped(d, Id, Type)
      /\ IsWorld(world') /\ ChangesKept'
      /\ \A i \in DOMAIN master' : master'[i].type \in Type
  BY TickLeads
<1>. HIDE DEF d
<1>2. /\ now' = now + 1 /\ now < MaxTicks
      /\ UNCHANGED <<aborted, toServer, c, changes>>
      /\ UpdatePlayer(snaps', master', now', world')
  BY DEF Tick, Running
<1>3. /\ now \in Nat /\ Consecutive(snaps, now) /\ MaxTicks \in Nat
      /\ player \in [ack : Nat, sendDiff : BOOLEAN, unacked : 0 .. MaxUnacked]
      /\ c.ack \in Nat /\ c.ack <= now
      /\ \A p \in toClient : p.tick \in Nat /\ p.tick <= now
  BY ReplicationAssumption DEF IInv, ServerOK, RingOK, AcksOK
<1>4. /\ \A s \in 0 .. now : \A w : Tells(snaps, s, w, world) => Tells(snaps', s, w, world')
      /\ Tells(snaps', now', world', world')
  BY <1>1, <1>2, <1>3, TellsGrows DEF DInv, AllTold
<1>5. Consecutive(snaps', now') /\ DOMAIN master' = DOMAIN world'
  BY TickRing, TickServer DEF RingOK
<1>6. \A k \in DOMAIN snaps' : DeltaTyped(snaps'[k], Id, Type)
  <2>1. snaps \in Seq(Range(snaps)) /\ Len(snaps) <= RingSlots - 1
    BY <1>3 DEF Consecutive
  <2>2. /\ Len(snaps') \in Nat \ {0} /\ DOMAIN snaps' = 1 .. Len(snaps')
        /\ snaps'[Len(snaps')] = d
        /\ \A k \in 1 .. Len(snaps') - 1 : \E j \in DOMAIN snaps : snaps'[k] = snaps[j]
    BY <1>1, <2>1, SinceGrows
  <2>. SUFFICES ASSUME NEW k \in DOMAIN snaps' PROVE DeltaTyped(snaps'[k], Id, Type)
    OBVIOUS
  <2>3. CASE k = Len(snaps')
    BY <1>1, <2>2, <2>3
  <2>4. CASE k # Len(snaps')
    <3>1. k \in 1 .. Len(snaps') - 1
      BY <2>2, <2>4
    <3>2. PICK j \in DOMAIN snaps : snaps'[k] = snaps[j]
      BY <2>2, <3>1
    <3>. QED  BY <3>2 DEF DInv, ServerTyped
  <2>. QED  BY <2>3, <2>4
<1>7. player'.ack = player.ack
  BY <1>2, <1>3, PlayerUpdates
<1>8. 1 .. now \subseteq 1 .. now'
  BY <1>2, <1>3
<1>9. ServerTyped'
  <2>1. now' <= MaxTicks
    BY <1>2, <1>3
  <2>2. toServer' \subseteq 1 .. now' /\ player'.ack \in toServer' \cup {0}
    BY <1>2, <1>7, <1>8 DEF DInv, ServerTyped
  <2>. QED  BY <1>1, <1>2, <1>6, <2>1, <2>2 DEF DInv, ServerTyped
<1>10. ClientTyped'
  BY <1>2, <1>8 DEF DInv, ClientTyped
<1>11. \A p \in toClient : PacketTyped(p)'
  BY <1>8 DEF DInv, PacketTyped
<1>12. \A p \in toClient : Tells(snaps', p.tick, p.world, world')
  <2>. TAKE p \in toClient
  <2>1. p.tick \in 0 .. now
    BY <1>3
  <2>. QED  BY <1>4, <2>1 DEF DInv, AllTold
<1>13. c'.status = "ok" => Tells(snaps', c'.ack, c'.world, world')
  <2>1. c.ack \in 0 .. now
    BY <1>3
  <2>. QED  BY <1>2, <1>4, <2>1 DEF DInv, AllTold
<1>14. CASE toClient' = toClient
  BY <1>1, <1>4, <1>9, <1>10, <1>11, <1>12, <1>13, <1>14 DEF DInv, AllTold
<1>15. ASSUME NEW p, toClient' = toClient \cup {p}, p.tick = now', p.world = world',
              \/ p.diff /\ FoundInRing(snaps', player.ack)
                 /\ p.body = DeltaPacket(Merged(After(snaps', player.ack)))
              \/ ~p.diff /\ p.body = SnapshotPacket(master')
       PROVE  DInv'
  <2>1. BodyTyped(p.body, Id, Type)
    <3>1. CASE ~p.diff
      <4>1. DOMAIN master' \subseteq Id
        BY <1>1, <1>5 DEF IsWorld
      <4>. QED  BY <1>1, <1>15, <3>1, <4>1, WholeTyped
    <3>2. CASE p.diff
      <4>1. PICK k \in DOMAIN snaps' : After(snaps', player.ack) = Since(snaps', k)
        <5>1. now' \in Nat /\ FoundInRing(snaps', player.ack)
          BY <1>2, <1>3, <1>15, <3>2
        <5>. QED  BY <1>5, <5>1, AfterIsSince
      <4>. DEFINE ds == Since(snaps', k)
      <4>2. /\ ds \in Seq(Range(snaps'))
            /\ \A j \in DOMAIN ds : k + j \in DOMAIN snaps' /\ ds[j] = snaps'[k + j]
        BY <1>5 DEF Since, Consecutive
      <4>. HIDE DEF ds
      <4>3. DeltaTyped(Merged(ds), Id, Type)
        <5>1. \A j \in DOMAIN ds : DeltaTyped(ds[j], Id, Type)
          BY <1>6, <4>2
        <5>. QED  BY <4>2, <5>1, IdsFinite, MergedTyped
      <4>4. p.body = DeltaPacket(Merged(ds))
        BY <1>15, <3>2, <4>1 DEF ds
      <4>. QED  BY <4>3, <4>4, DeltaPacketTyped
    <3>. QED  BY <3>1, <3>2
  <2>2. PacketTyped(p)'
    <3>1. now' \in 1 .. now'
      BY <1>2, <1>3
    <3>. QED  BY <1>1, <1>15, <2>1, <3>1 DEF PacketTyped
  <2>3. \A q \in toClient' : PacketTyped(q)' /\ Tells(snaps', q.tick, q.world, world')
    BY <1>4, <1>11, <1>12, <1>15, <2>2
  <2>. QED  BY <1>1, <1>4, <1>9, <1>10, <1>13, <2>3 DEF DInv, AllTold
<1>. QED  BY <1>2, <1>3, <1>14, <1>15, PlayerUpdates

\* What the tick sends takes every snapshot that the client has or may yet read to
\* the new world.
LEMMA TickView ==
  ASSUME SameSizes, IInv, DInv, VInv, Tick
  PROVE  VInv'
<1>1. /\ now' = now + 1 /\ UNCHANGED c
      /\ UpdatePlayer(snaps', master', now', world')
  BY DEF Tick
<1>2. /\ now \in Nat
      /\ player \in [ack : Nat, sendDiff : BOOLEAN, unacked : 0 .. MaxUnacked]
      /\ c.ack \in Nat /\ c.ack <= now /\ player.ack <= c.ack
      /\ \A p \in toClient : p.tick \in Nat /\ c.ack < p.tick /\ p.tick <= now
  BY DEF IInv, ServerOK, AcksOK
<1>3. HoldsWorld(master', world')
  BY TickLeads DEF VInv
<1>4. /\ IsWorld(world')
      /\ \A p \in toClient : Tells(snaps', p.tick, p.world, world')
      /\ c.status = "ok" => Tells(snaps', c.ack, c.world, world')
  <2>1. toClient \subseteq toClient'
    BY <1>1, <1>2, PlayerUpdates
  <2>2. DInv'
    BY TickData
  <2>. QED  BY <1>1, <2>1, <2>2 DEF DInv, AllTold, ServerTyped
<1>5. Consecutive(snaps', now')
  BY TickRing DEF RingOK
<1>6. \A i \in DOMAIN world' : world'[i].f \in [Field -> DOMAIN Size]
  BY <1>4 DEF IsWorld, Value
<1>7. CASE toClient' = toClient
  BY <1>1, <1>3, <1>7 DEF VInv, ClientView, Mirrors
<1>8. ASSUME NEW p, toClient' = toClient \cup {p}, p.tick = now', p.world = world',
             \/ p.diff /\ FoundInRing(snaps', player.ack)
                /\ p.body = DeltaPacket(Merged(After(snaps', player.ack)))
                /\ p.sorted = Merged(After(snaps', player.ack)).sorted
             \/ ~p.diff /\ p.body = SnapshotPacket(master')
      PROVE  VInv'
  <2>1. ASSUME NEW t \in Nat, player.ack <= t, NEW w, Tells(snaps', t, w, world')
        PROVE  Follows(p, t, w)
    <3>. SUFFICES ASSUME p.sorted PROVE Applies(p.body, w, world')
      BY <1>8 DEF Follows
    <3>0. p.sorted
      OBVIOUS
    <3>1. CASE p.diff
      <4>. DEFINE merged == Merged(After(snaps', player.ack))
      <4>1. /\ FoundInRing(snaps', player.ack) /\ p.body = DeltaPacket(merged)
            /\ p.sorted = merged.sorted
        BY <1>8, <3>1
      <4>3. now' \in Nat
        BY <1>1, <1>2
      <4>4. merged.sorted
        BY ONLY <3>0, <4>1, Zenon
      <4>5. Sound(merged, w, world')
        BY <1>5, <2>1, <4>1, <4>3, <4>4, DifferenceLeads
      <4>. HIDE DEF merged
      <4>. QED  BY <1>6, <4>1, <4>5, DeltaApplies
    <3>2. CASE ~p.diff
      BY <1>3, <1>6, <1>8, <3>2, WholeApplies
    <3>. QED  BY <3>1, <3>2
  <2>2. ASSUME NEW q \in toClient', NEW r \in toClient'
        PROVE  Follows(q, r.tick, r.world)
    <3>1. CASE q \in toClient /\ r \in toClient
      BY <3>1 DEF VInv
    <3>2. CASE q = p /\ r \in toClient
      <4>1. r.tick \in Nat /\ player.ack <= r.tick
        BY <1>2, <3>2
      <4>. QED  BY <1>4, <2>1, <3>2, <4>1
    <3>3. CASE r = p
      <4>1. ~(r.tick < q.tick)
        BY <1>1, <1>2, <1>8, <3>3
      <4>. QED  BY <4>1 DEF Follows
    <3>. QED  BY <1>8, <3>1, <3>2, <3>3
  <2>3. ClientView'
    <3>1. ASSUME c.status = "ok", NEW q \in toClient'
          PROVE  Follows(q, c.ack, c.world)
      BY <1>2, <1>4, <1>8, <2>1, <3>1 DEF VInv, ClientView
    <3>. QED  BY <1>1, <3>1 DEF VInv, ClientView, Mirrors
  <2>. QED  BY <1>3, <2>2, <2>3 DEF VInv
<1>. QED  BY <1>1, <1>2, <1>7, <1>8, PlayerUpdates

-----------------------------------------------------------------------------
(* The data: packets *)

\* What the client has of an entity when it has read a packet.
LEMMA ReadExact ==
  ASSUME NEW body, BodyTyped(body, Id, Type), ~UsesDeleted(body),
         \A i \in DOMAIN body.full : Decodings(body.full[i].cells) # {},
         DOMAIN c.ents \subseteq Id, \A i \in DOMAIN c.ents : c.ents[i] \in Copy
  PROVE  LET e == ReadEntities(body) IN
         \A i \in DOMAIN e :
           /\ e[i] \in Copy
           /\ i \in DOMAIN body.full =>
                e[i].type = body.full[i].type /\ e[i].next \in Decodings(body.full[i].cells)
           /\ i \notin DOMAIN body.full =>
                i \in DOMAIN c.ents \ body.del /\ e[i].type = c.ents[i].type
           /\ i \in DOMAIN c.ents \ body.del => e[i].data = c.ents[i].next
           /\ i \in DOMAIN body.upd \ DOMAIN body.full => \A n \in Field :
                e[i].next[n] = IF n \in DOMAIN body.upd[i] THEN body.upd[i][n]
                               ELSE c.ents[i].next[n]
           /\ i \notin DOMAIN body.upd \cup DOMAIN body.full => e[i].next = c.ents[i].next
<1>. DEFINE K == DOMAIN c.ents \ body.del
            F == DOMAIN body.full
            kept == Destroy(Shifted(body), body.del)
            fresh == F \ DOMAIN kept
            all == BeginCreate(kept, [i \in fresh |-> body.full[i].type])
            read(i, x) ==
              IF i \in DOMAIN body.full
                THEN [x EXCEPT !.next = CHOOSE f \in Decodings(body.full[i].cells) : TRUE]
              ELSE IF i \in DOMAIN body.upd
                THEN [x EXCEPT !.next = [n \in Field |->
                        IF n \in DOMAIN body.upd[i] THEN body.upd[i][n] ELSE x.next[n]]]
              ELSE x
            e == ReadEntities(body)
<1>1. DOMAIN kept = K /\ \A i \in K : kept[i] = [c.ents[i] EXCEPT !.data = c.ents[i].next]
  BY DEF Destroy, Shifted
<1>2. /\ fresh = F \ K /\ DOMAIN all = K \cup F
      /\ \A i \in K : all[i] = kept[i]
      /\ \A i \in F \ K : all[i] = Clone(body.full[i].type)
  <2>. HIDE DEF kept
  <2>. QED  BY <1>1 DEF BeginCreate
<1>3. e = [i \in DOMAIN all |-> read(i, all[i])]
  BY DEF ReadEntities
<1>. HIDE DEF kept, fresh, all, e
<1>4. DOMAIN e = K \cup F /\ \A i \in K \cup F : e[i] = read(i, all[i])
  BY <1>2, <1>3
<1>5. ASSUME NEW i \in K \cup F
      PROVE  /\ all[i] \in Copy
             /\ i \in F => all[i].type = body.full[i].type
             /\ i \in K => /\ all[i].type = c.ents[i].type /\ all[i].data = c.ents[i].next
                           /\ all[i].next = c.ents[i].next
  <2>1. CASE i \in K
    <3>. DEFINE x == c.ents[i]
    <3>1. x \in [type : Type, data : [Field -> Value], next : [Field -> Value]]
      BY <2>1 DEF Copy
    <3>2. all[i] = [x EXCEPT !.data = x.next]
      BY <1>1, <1>2, <2>1
    <3>3. i \in F => x.type = body.full[i].type
      BY <2>1 DEF UsesDeleted
    <3>. HIDE DEF x
    <3>4. /\ all[i] \in [type : Type, data : [Field -> Value], next : [Field -> Value]]
          /\ all[i].type = x.type /\ all[i].data = x.next /\ all[i].next = x.next
      BY ONLY <3>1, <3>2
    <3>. QED  BY <3>3, <3>4 DEF Copy, x
  <2>2. CASE i \notin K
    <3>1. i \in F /\ all[i] = Clone(body.full[i].type) /\ body.full[i].type \in Type
      BY <1>2, <2>2 DEF BodyTyped
    <3>. QED  BY <2>2, <3>1, ReplicationAssumption DEF Clone, Copy
  <2>. QED  BY <2>1, <2>2
<1>6. ASSUME NEW i \in K \cup F
      PROVE  /\ e[i] \in Copy /\ e[i].type = all[i].type /\ e[i].data = all[i].data
             /\ i \in F => e[i].next \in Decodings(body.full[i].cells)
             /\ i \in DOMAIN body.upd \ F => \A n \in Field :
                  e[i].next[n] = IF n \in DOMAIN body.upd[i] THEN body.upd[i][n]
                                 ELSE all[i].next[n]
             /\ i \notin DOMAIN body.upd \cup F => e[i].next = all[i].next
  <2>. DEFINE x == all[i]
  <2>1. x \in [type : Type, data : [Field -> Value], next : [Field -> Value]]
    BY <1>5 DEF Copy
  <2>2. e[i] = read(i, x)
    BY <1>4
  <2>. HIDE DEF x
  <2>3. ASSUME NEW f \in [Field -> Value], e[i] = [x EXCEPT !.next = f]
        PROVE  e[i] \in Copy /\ e[i].type = x.type /\ e[i].data = x.data /\ e[i].next = f
    BY <2>1, <2>3 DEF Copy
  <2>4. CASE i \in F
    <3>. DEFINE f == CHOOSE f \in Decodings(body.full[i].cells) : TRUE
    <3>1. f \in Decodings(body.full[i].cells)
      BY <2>4
    <3>2. f \in [Field -> Value]
      BY <3>1 DEF Decodings, Value
    <3>3. e[i] = [x EXCEPT !.next = f]
      BY <2>2, <2>4
    <3>. HIDE DEF f
    <3>. QED  BY <2>3, <2>4, <3>1, <3>2, <3>3 DEF x
  <2>5. CASE i \in DOMAIN body.upd \ F
    <3>. DEFINE f == [n \in Field |->
                        IF n \in DOMAIN body.upd[i] THEN body.upd[i][n] ELSE x.next[n]]
    <3>1. \A n \in DOMAIN body.upd[i] : n \in Field /\ body.upd[i][n] \in Value
      BY <2>5 DEF BodyTyped, Value
    <3>2. f \in [Field -> Value]
      BY <2>1, <3>1
    <3>3. e[i] = [x EXCEPT !.next = f]
      BY <2>2, <2>5
    <3>4. \A n \in Field :
            f[n] = IF n \in DOMAIN body.upd[i] THEN body.upd[i][n] ELSE x.next[n]
      OBVIOUS
    <3>. HIDE DEF f
    <3>. QED  BY <2>3, <2>5, <3>2, <3>3, <3>4 DEF x
  <2>6. CASE i \notin DOMAIN body.upd \cup F
    <3>1. e[i] = x
      BY <2>2, <2>6
    <3>. QED  BY <2>1, <2>6, <3>1 DEF x, Copy
  <2>. QED  BY <2>4, <2>5, <2>6
<1>. QED  BY <1>4, <1>5, <1>6 DEF e

LEMMA ServerRecvData ==
  ASSUME IInv, DInv, NEW ack \in toServer, ServerRecv(ack)
  PROVE  DInv'
<1>1. Acknowledged(ack) /\ UNCHANGED <<now, entities, entity_ids, updated_entities, master,
        snaps, aborted, toClient, toServer, c, changes, world>>
  BY DEF ServerRecv
<1>2. player'.ack \in toServer \cup {0}
  <2>1. player.ack \in toServer \cup {0}
    BY DEF DInv, ServerTyped
  <2>2. player \in [ack : Nat, sendDiff : BOOLEAN, unacked : 0 .. MaxUnacked]
    BY DEF IInv, AcksOK
  <2>. QED  BY <1>1, <2>1, <2>2 DEF Acknowledged
<1>. QED  BY <1>1, <1>2 DEF DInv, ChangesKept, ServerTyped, ClientTyped, AllTold, PacketTyped

LEMMA ClientUpdateData ==
  ASSUME DInv, ClientUpdate
  PROVE  DInv'
<1>1. /\ toServer' = toServer \cup {c.ack} /\ c.got
      /\ UNCHANGED <<now, entities, entity_ids, updated_entities, master, snaps, player,
                     aborted, toClient, c, changes, world>>
  BY DEF ClientUpdate
<1>2. toServer' \subseteq 1 .. now
  BY <1>1 DEF DInv, ServerTyped, ClientTyped
<1>. QED  BY <1>1, <1>2 DEF DInv, ChangesKept, ServerTyped, ClientTyped, AllTold, PacketTyped

LEMMA ClientRecvData ==
  ASSUME IInv, DInv, NEW p \in toClient, ClientRecv(p)
  PROVE  DInv'
<1>1. /\ c.status = "ok"
      /\ toClient' = {q \in toClient : q.tick > p.tick}
      /\ UNCHANGED <<now, entities, entity_ids, updated_entities, master, snaps, player,
                     aborted, toServer, changes, world>>
  BY DEF ClientRecv
<1>2. PacketTyped(p) /\ Tells(snaps, p.tick, p.world, world)
  BY DEF DInv, AllTold
<1>3. ChangesKept' /\ ServerTyped'
  BY <1>1 DEF DInv, ChangesKept, ServerTyped
<1>4. /\ Tells(snaps', now', world', world')
      /\ \A q \in toClient' : Tells(snaps', q.tick, q.world, world') /\ PacketTyped(q)'
  BY <1>1 DEF DInv, AllTold, PacketTyped
<1>5. ClientTyped
  BY DEF DInv
<1>6. CASE Outcome(p) # "ok"
  <2>1. c' = [c EXCEPT !.ack = p.tick, !.status = Outcome(p)]
    BY <1>6 DEF ClientRecv
  <2>2. /\ DOMAIN c' = DOMAIN c /\ c'.ack = p.tick /\ c'.status = Outcome(p)
        /\ c'.got = c.got /\ c'.ents = c.ents /\ c'.world = c.world /\ c'.prev = c.prev
    <3>1. {"ack", "got", "status", "ents", "known", "world", "prev", "sorted"} \subseteq DOMAIN c
      BY <1>5 DEF ClientTyped
    <3>. HIDE DEF Outcome
    <3>. QED  BY ONLY <2>1, <3>1
  <2>3. ClientTyped'
    BY <1>1, <1>2, <1>5, <2>2 DEF ClientTyped, PacketTyped
  <2>. QED  BY <1>3, <1>4, <1>6, <2>2, <2>3 DEF DInv, AllTold
<1>7. CASE Outcome(p) = "ok"
  <2>. DEFINE ents == ReadEntities(p.body)
              known == ToldAll(c.known, EntityEvents(p.body, Values(ents)))
  <2>1. c' = [ack |-> p.tick, got |-> TRUE, status |-> "ok", ents |-> ents, known |-> known,
              world |-> p.world, prev |-> c.world, sorted |-> c.sorted /\ p.sorted,
              fellBack |-> c.fellBack \/ (~p.diff /\ c.got)]
    BY <1>7 DEF ClientRecv
  <2>2. /\ ~UsesDeleted(p.body)
        /\ \A i \in DOMAIN p.body.full : Decodings(p.body.full[i].cells) # {}
    BY <1>7 DEF Outcome, Misread
  <2>3. DOMAIN ents \subseteq Id /\ \A i \in DOMAIN ents : ents[i] \in Copy
    <3>1. DOMAIN ents = (DOMAIN c.ents \ p.body.del) \cup DOMAIN p.body.full
      BY ReadDomain
    <3>2. \A i \in DOMAIN ents : ents[i] \in Copy
      BY <1>2, <1>5, <2>2, ReadExact DEF PacketTyped, ClientTyped
    <3>. HIDE DEF ents
    <3>. QED  BY <1>2, <1>5, <3>1, <3>2 DEF PacketTyped, BodyTyped, ClientTyped
  <2>. HIDE DEF ents, known
  <2>4. /\ DOMAIN c' = {"ack", "got", "status", "ents", "known", "world", "prev", "sorted",
                        "fellBack"}
        /\ c'.ack = p.tick /\ c'.status = "ok" /\ c'.ents = ents
        /\ c'.world = p.world /\ c'.prev = c.world
    BY <2>1
  <2>5. ClientTyped'
    BY <1>1, <1>2, <1>5, <2>3, <2>4 DEF ClientTyped, PacketTyped
  <2>6. Tells(snaps', c'.ack, c'.world, world')
    BY <1>1, <1>2, <2>4
  <2>. QED  BY <1>3, <1>4, <2>5, <2>6 DEF DInv, AllTold
<1>. QED  BY <1>6, <1>7

\* A packet that the client reads brings it from one snapshot to the next.
LEMMA ClientRecvView ==
  ASSUME IInv, DInv, VInv, NEW p \in toClient, ClientRecv(p)
  PROVE  VInv'
<1>1. /\ c.status = "ok"
      /\ toClient' = {q \in toClient : q.tick > p.tick}
      /\ UNCHANGED <<now, entities, entity_ids, updated_entities, master, snaps, player,
                     aborted, toServer, changes, world>>
  BY DEF ClientRecv
<1>2. /\ HoldsWorld(master', world')
      /\ \A q, r \in toClient' : Follows(q, r.tick, r.world)
      /\ \A q \in toClient' : Follows(q, p.tick, p.world)
  BY <1>1 DEF VInv
<1>3. PacketTyped(p) /\ ClientTyped
  BY DEF DInv
<1>4. CASE Outcome(p) # "ok"
  <2>1. c' = [c EXCEPT !.ack = p.tick, !.status = Outcome(p)]
    BY <1>4 DEF ClientRecv
  <2>2. c'.status = Outcome(p)
    <3>1. "status" \in DOMAIN c
      BY <1>3 DEF ClientTyped
    <3>. QED  BY ONLY <2>1, <3>1
  <2>. QED  BY <1>2, <1>4, <2>2 DEF VInv, ClientView
<1>5. CASE Outcome(p) = "ok"
  <2>. DEFINE ents == ReadEntities(p.body)
              known == ToldAll(c.known, EntityEvents(p.body, Values(ents)))
              body == p.body
  <2>1. c' = [ack |-> p.tick, got |-> TRUE, status |-> "ok", ents |-> ents, known |-> known,
              world |-> p.world, prev |-> c.world, sorted |-> c.sorted /\ p.sorted,
              fellBack |-> c.fellBack \/ (~p.diff /\ c.got)]
    BY <1>5 DEF ClientRecv
  <2>2. /\ ~UsesDeleted(body) /\ ~Unknown(body)
        /\ \A i \in DOMAIN body.full : Decodings(body.full[i].cells) # {}
        /\ \A i \in (DOMAIN body.upd \cap DOMAIN c.ents \cap DOMAIN p.world) \ body.del :
             c.ents[i].type = p.world[i].type
    BY <1>5 DEF Outcome, Misread
  <2>3. DOMAIN ents = (DOMAIN c.ents \ body.del) \cup DOMAIN body.full
    BY ReadDomain
  <2>4. \A i \in DOMAIN ents :
          /\ ents[i] \in Copy
          /\ i \in DOMAIN body.full =>
               ents[i].type = body.full[i].type /\ ents[i].next \in Decodings(body.full[i].cells)
          /\ i \notin DOMAIN body.full =>
               i \in DOMAIN c.ents \ body.del /\ ents[i].type = c.ents[i].type
          /\ i \in DOMAIN c.ents \ body.del => ents[i].data = c.ents[i].next
          /\ i \in DOMAIN body.upd \ DOMAIN body.full => \A n \in Field :
               ents[i].next[n] = IF n \in DOMAIN body.upd[i] THEN body.upd[i][n]
                                 ELSE c.ents[i].next[n]
          /\ i \notin DOMAIN body.upd \cup DOMAIN body.full => ents[i].next = c.ents[i].next
    BY <1>3, <2>2, ReadExact DEF PacketTyped, ClientTyped
  <2>. HIDE DEF ents, known, body
  <2>5. /\ c'.ack = p.tick /\ c'.status = "ok" /\ c'.ents = ents
        /\ c'.world = p.world /\ c'.prev = c.world /\ c'.sorted = (c.sorted /\ p.sorted)
    BY <2>1
  <2>6. ASSUME c.sorted, p.sorted
        PROVE  /\ Mirrors'
               /\ \A i \in DOMAIN p.world \cap DOMAIN c.world : ents[i].data = c.world[i].f
    <3>. DEFINE w == c.world
                x == p.world
    <3>1. \A i \in DOMAIN w :
            i \in DOMAIN c.ents /\ c.ents[i].type = w[i].type /\ c.ents[i].next = w[i].f
      BY <1>1, <2>6 DEF VInv, ClientView, Mirrors
    <3>2. Applies(body, w, x)
      <4>1. Follows(p, c.ack, c.world)
        BY <1>1 DEF VInv, ClientView
      <4>2. c.ack < p.tick
        BY DEF IInv, AcksOK
      <4>. QED  BY <2>6, <4>1, <4>2 DEF Follows, body
    <3>3. IsWorld(x)
      BY <1>3 DEF PacketTyped
    <3>. HIDE DEF w, x
    <3>4. ASSUME NEW i \in DOMAIN x
          PROVE  /\ i \in DOMAIN ents /\ ents[i].type = x[i].type /\ ents[i].next = x[i].f
                 /\ i \in DOMAIN w => ents[i].data = w[i].f
      <4>1. i \notin body.del
        BY <3>2 DEF Applies
      <4>2. x[i].f \in [Field -> Value] /\ x[i].type \in Type
        BY <3>3 DEF IsWorld
      <4>3. CASE i \in DOMAIN body.full
        <5>1. body.full[i].type = x[i].type /\ Decodings(body.full[i].cells) = {x[i].f}
          BY <3>2, <4>3 DEF Applies
        <5>2. i \in DOMAIN ents
          BY <2>3, <4>3
        <5>. QED  BY <2>4, <3>1, <4>1, <4>3, <5>1, <5>2
      <4>4. CASE i \in DOMAIN body.upd \ DOMAIN body.full
        <5>1. i \in DOMAIN c.ents \ body.del /\ i \in DOMAIN ents
          BY <2>2, <2>3, <4>1, <4>4 DEF Unknown
        <5>2. c.ents[i].type = x[i].type
          BY <2>2, <4>1, <4>4, <5>1 DEF x
        <5>3. ents[i].next \in [Field -> Value]
          BY <2>4, <5>1 DEF Copy
        <5>4. ASSUME NEW n \in Field
              PROVE  ents[i].next[n] = x[i].f[n]
          BY <2>4, <3>1, <3>2, <4>4, <5>1 DEF Applies
        <5>5. ents[i].next = x[i].f
          BY <4>2, <5>3, <5>4
        <5>. QED  BY <2>4, <3>1, <4>4, <5>1, <5>2, <5>5
      <4>5. CASE i \notin DOMAIN body.upd \cup DOMAIN body.full
        <5>1. i \in DOMAIN w /\ w[i] = x[i]
          BY <3>2, <4>5 DEF Applies
        <5>2. i \in DOMAIN c.ents \ body.del /\ i \in DOMAIN ents
          BY <2>3, <3>1, <4>1, <5>1
        <5>. QED  BY <2>4, <3>1, <4>5, <5>1, <5>2
      <4>. QED  BY <4>3, <4>4, <4>5
    <3>. QED  BY <2>5, <3>4 DEF Mirrors, w, x
  <2>7. ClientView'
    BY <1>2, <2>5, <2>6 DEF ClientView
  <2>. QED  BY <1>2, <2>7 DEF VInv
<1>. QED  BY <1>4, <1>5

-----------------------------------------------------------------------------
(* Theorems about the data *)

LEMMA InitData == Init => DInv /\ VInv
<1>. SUFFICES ASSUME Init PROVE DInv /\ VInv
  OBVIOUS
<1>1. /\ now = 0 /\ entities = <<>> /\ updated_entities = <<>> /\ aborted = FALSE
      /\ master = <<>> /\ snaps = <<>> /\ toClient = {} /\ toServer = {} /\ changes = 0
      /\ player = NewPlayerState /\ c = NewGameState /\ world = <<>>
  BY DEF Init, NoWorld
<1>2. /\ DOMAIN entities = {} /\ DOMAIN world = {} /\ DOMAIN master = {} /\ DOMAIN snaps = {}
  BY <1>1
<1>3. /\ c.ents = <<>> /\ c.world = <<>> /\ c.prev = <<>> /\ ~c.got
      /\ {"ack", "got", "status", "ents", "known", "world", "prev", "sorted"} \subseteq DOMAIN c
  BY <1>1 DEF NewGameState, NoWorld
<1>4. DOMAIN c.ents = {} /\ DOMAIN c.world = {} /\ DOMAIN c.prev = {}
  BY <1>3
<1>5. ServerTyped
  <2>1. now <= MaxTicks /\ changes \in 0 .. MaxChanges /\ aborted \in BOOLEAN
    <3>1. 0 <= MaxTicks /\ 0 \in 0 .. MaxChanges /\ FALSE \in BOOLEAN
      BY ReplicationAssumption
    <3>. QED  BY <1>1, <3>1
  <2>2. toServer \subseteq 1 .. now /\ player.ack \in toServer \cup {0}
    BY <1>1 DEF NewPlayerState
  <2>3. IsWorld(world)
    BY <1>2 DEF IsWorld
  <2>. QED  BY <1>2, <2>1, <2>2, <2>3 DEF ServerTyped
<1>6. ClientTyped
  BY <1>3, <1>4 DEF ClientTyped, IsWorld
<1>7. ChangesKept /\ AllTold
  BY <1>1, <1>2 DEF ChangesKept, AllTold, Tells
<1>8. VInv
  BY <1>1, <1>2, <1>4 DEF VInv, ClientView, Mirrors, HoldsWorld
<1>. QED  BY <1>1, <1>5, <1>6, <1>7, <1>8 DEF DInv

\* What a step that is neither a tick nor a packet's arrival leaves alone.
LEMMA OthersView ==
  ASSUME VInv, UNCHANGED <<master, toClient, c, world>>
  PROVE  VInv'
BY DEF VInv, ClientView, Mirrors

LEMMA DataStep ==
  ASSUME IInv, DInv, [Next]_vars
  PROVE  /\ DInv'
         /\ SameSizes /\ VInv => VInv'
<1>1. CASE \E t \in Type : RegisterEntity(t)
  BY <1>1, RegisterData, OthersView DEF RegisterEntity, Change
<1>2. CASE \E id \in Id, n \in Field, v \in Value : SetField(id, n, v)
  BY <1>2, SetFieldData, OthersView DEF SetField, Change
<1>3. CASE \E id \in Id : UnregisterEntity(id)
  BY <1>3, UnregisterData, OthersView DEF UnregisterEntity, Change
<1>4. CASE Tick
  BY <1>4, TickData, TickView
<1>5. CASE Abort \/ UNCHANGED vars
  <2>1. /\ UNCHANGED <<now, entities, updated_entities, master, snaps, player, toClient,
                       toServer, c, changes, world>>
        /\ aborted' \in BOOLEAN
    BY <1>5 DEF Abort, vars, DInv, ServerTyped
  <2>2. DInv'
    BY <2>1 DEF DInv, ChangesKept, ServerTyped, ClientTyped, AllTold, PacketTyped
  <2>. QED  BY <2>1, <2>2, OthersView
<1>6. CASE \E ack \in toServer : ServerRecv(ack)
  BY <1>6, ServerRecvData, OthersView DEF ServerRecv
<1>7. CASE \E p \in toClient : ClientRecv(p)
  BY <1>7, ClientRecvData, ClientRecvView
<1>8. CASE ClientUpdate
  BY <1>8, ClientUpdateData, OthersView DEF ClientUpdate
<1>. QED  BY <1>1, <1>2, <1>3, <1>4, <1>5, <1>6, <1>7, <1>8 DEF Next

\* What the ring and the packets tell of the data, in every state.
THEOREM DataInvariance == Spec => []DInv
<1>1. IInv /\ DInv /\ [Next]_vars => DInv'
  BY DataStep
<1>. QED  BY <1>1, Invariance, InitData, PTL DEF Spec

\* Every variable has its type: acknowledgements are of ticks there were, the ring
\* is never full to its last slot, an entity's copy has a value for every field.
THEOREM ReplicationTypeOK == Spec => []TypeOK
<1>1. IInv /\ DInv => TypeOK
  <2>. SUFFICES ASSUME IInv, DInv PROVE TypeOK
    OBVIOUS
  <2>1. /\ now \in 0 .. MaxTicks /\ changes \in 0 .. MaxChanges /\ aborted \in BOOLEAN
        /\ toServer \subseteq 1 .. now /\ player.ack \in toServer \cup {0}
        /\ IsWorld(world)
    BY ReplicationAssumption DEF IInv, ServerOK, DInv, ServerTyped
  <2>2. /\ DOMAIN entities \subseteq Id /\ \A i \in DOMAIN entities : entities[i] \in Entity
        /\ HoldsExactly(entity_ids, DOMAIN entities)
        /\ updated_entities \in Seq(Id) /\ Len(snaps) <= RingSlots - 1
    BY DEF IInv, ServerOK, RingOK, Consecutive
  <2>3. player \in [ack : 0 .. MaxTicks, sendDiff : BOOLEAN, unacked : 0 .. MaxUnacked]
    <3>1. /\ player \in [ack : Nat, sendDiff : BOOLEAN, unacked : 0 .. MaxUnacked]
          /\ player.ack <= c.ack /\ c.ack \in Nat /\ c.ack <= now
      BY DEF IInv, AcksOK
    <3>2. player.ack \in Nat /\ now \in Nat /\ MaxTicks \in Nat /\ now <= MaxTicks
      BY <2>1, <3>1, ReplicationAssumption
    <3>3. player.ack \in 0 .. MaxTicks
      BY <3>1, <3>2
    <3>. QED  BY ONLY <3>1, <3>3
  <2>4. /\ \A p \in toClient : p.tick \in 1 .. now /\ IsWorld(p.world)
        /\ DOMAIN c.ents \subseteq Id /\ \A i \in DOMAIN c.ents : c.ents[i] \in Copy
        /\ IsWorld(c.world) /\ IsWorld(c.prev)
    BY DEF DInv, PacketTyped, ClientTyped
  <2>. QED  BY <2>1, <2>2, <2>3, <2>4 DEF TypeOK
<1>. QED  BY <1>1, Invariance, DataInvariance, PTL

\* With values of one size, what every snapshot and every packet holds, in every
\* state.
THEOREM ViewInvariance ==
  ASSUME SameSizes
  PROVE  Spec => []VInv
<1>1. IInv /\ DInv /\ VInv /\ [Next]_vars => VInv'
  BY DataStep
<1>. QED  BY <1>1, Invariance, DataInvariance, InitData, PTL DEF Spec

\* The master snapshot, patched field by field at every tick (Snapshot::addEntity),
\* is the world at the last tick: it decodes to exactly the fields of each entity.
\* With values of several sizes addEntity copies from the wrong place.
THEOREM MasterSnapshotExact ==
  ASSUME SameSizes
  PROVE  Spec => []MasterExact
<1>1. DInv /\ VInv => MasterExact
  <2>. SUFFICES ASSUME DInv, VInv, NEW i \in DOMAIN world
                PROVE  /\ DOMAIN master = DOMAIN world /\ master[i].type = world[i].type
                       /\ Decodings(master[i].cells) = {world[i].f}
    BY DEF MasterExact, VInv, HoldsWorld
  <2>1. Holds(master[i], world[i].type, world[i].f) /\ DOMAIN master = DOMAIN world
    BY DEF VInv, HoldsWorld
  <2>2. world[i].f \in [Field -> DOMAIN Size]
    BY DEF DInv, ServerTyped, IsWorld, Value
  <2>. QED  BY <2>1, <2>2, DecodingsExact DEF Holds
<1>. QED  BY <1>1, DataInvariance, ViewInvariance, PTL

\* After every snapshot it reads the client has what the server had at that tick,
\* whatever is lost, late, reordered or acknowledged twice and however many ticks
\* the merged deltas span - as long as merging has left the fields in order
\* (DeltaSnapshot::mergeWithNext, ServerPlayerGameState::update, ClientSnapshot).
THEOREM ClientIsMirror ==
  ASSUME SameSizes
  PROVE  Spec => []ClientMirrors
<1>1. VInv => ClientMirrors
  BY DEF VInv, ClientView, ClientMirrors
<1>. QED  BY <1>1, ViewInvariance, PTL

\* A field that the client has had for two snapshots holds the values of both: what
\* interpolation takes is the value of the snapshot before (Field::shiftData).
THEOREM InterpolationExact ==
  ASSUME SameSizes
  PROVE  Spec => []InterpolatesLastTwo
<1>1. VInv => InterpolatesLastTwo
  BY DEF VInv, ClientView, InterpolatesLastTwo
<1>. QED  BY <1>1, ViewInvariance, PTL

-----------------------------------------------------------------------------
(* The events of a packet *)

EventType == {"ENTITY_DESTROYED", "ENTITY_CREATED", "ENTITY_UPDATED"}
Event(values) == {EntityEvent(t, i, values) : t \in EventType, i \in Id}

\* The events are of these types and name these entities, all of them.
Naming(events, types, ids, values) ==
  /\ events \in Seq(Event(values))
  /\ \A k \in DOMAIN events : events[k].type \in types /\ events[k].eid \in ids
  /\ \A i \in ids : \E k \in DOMAIN events : events[k].eid = i

LEMMA NamingEach ==
  ASSUME NEW type \in EventType, NEW ids \in SUBSET Id, NEW values
  PROVE  LET order == Ascending(ids) IN
         Naming([k \in DOMAIN order |-> EntityEvent(type, order[k], values)],
                {type}, ids, values)
<1>. DEFINE order == Ascending(ids)
            events == [k \in DOMAIN order |-> EntityEvent(type, order[k], values)]
<1>1. ids \in SUBSET Nat /\ IsFiniteSet(ids)
  BY IdsFinite, FS_Subset
<1>2. /\ order \in Seq(ids) /\ DOMAIN order = 1 .. Len(order)
      /\ \A x \in ids : \E k \in DOMAIN order : order[k] = x
  BY <1>1, AscendingExact
<1>. HIDE DEF order
<1>3. Len(order) \in Nat /\ \A k \in 1 .. Len(order) : order[k] \in ids
  BY <1>2
<1>4. \A k \in 1 .. Len(order) : /\ EntityEvent(type, order[k], values) \in Event(values)
                                 /\ EntityEvent(type, order[k], values).type = type
                                 /\ EntityEvent(type, order[k], values).eid = order[k]
  BY <1>3 DEF Event, EntityEvent
<1>5. events = [k \in 1 .. Len(order) |-> EntityEvent(type, order[k], values)]
  BY <1>2
<1>. HIDE DEF events
<1>6. events \in Seq(Event(values)) /\ DOMAIN events = 1 .. Len(order)
  BY <1>3, <1>4, <1>5
<1>7. \A k \in 1 .. Len(order) : events[k].type = type /\ events[k].eid = order[k]
  BY <1>4, <1>5
<1>. QED  BY <1>2, <1>3, <1>6, <1>7 DEF Naming, events, order

LEMMA NamingJoined ==
  ASSUME NEW values, NEW s, NEW S, NEW I, Naming(s, S, I, values),
         NEW t, NEW T, NEW J, Naming(t, T, J, values)
  PROVE  Naming(s \o t, S \cup T, I \cup J, values)
<1>. DEFINE r == s \o t
            E == Event(values)
<1>1. s \in Seq(E) /\ t \in Seq(E) /\ Len(s) \in Nat /\ Len(t) \in Nat
      /\ DOMAIN s = 1 .. Len(s) /\ DOMAIN t = 1 .. Len(t)
  BY DEF Naming
<1>. HIDE DEF E
<1>2. /\ r \in Seq(E) /\ Len(r) = Len(s) + Len(t)
      /\ \A k \in 1 .. Len(s) : r[k] = s[k]
      /\ \A k \in 1 .. Len(t) : r[Len(s) + k] = t[k]
  BY <1>1
<1>3. DOMAIN r = 1 .. Len(s) + Len(t)
  BY <1>2
<1>. HIDE DEF r
<1>4. ASSUME NEW k \in 1 .. Len(s) + Len(t)
      PROVE  r[k].type \in S \cup T /\ r[k].eid \in I \cup J
  <2>1. CASE k <= Len(s)
    <3>1. k \in 1 .. Len(s)
      BY <1>1, <2>1
    <3>. QED  BY <1>1, <1>2, <3>1 DEF Naming
  <2>2. CASE ~(k <= Len(s))
    <3>1. k - Len(s) \in 1 .. Len(t) /\ Len(s) + (k - Len(s)) = k
      BY <1>1, <2>2
    <3>2. r[k] = t[k - Len(s)]
      BY <1>2, <3>1
    <3>. QED  BY <1>1, <3>1, <3>2 DEF Naming
  <2>. QED  BY <2>1, <2>2
<1>5. ASSUME NEW i \in I \cup J
      PROVE  \E k \in 1 .. Len(s) + Len(t) : r[k].eid = i
  <2>1. CASE i \in I
    <3>1. PICK k \in 1 .. Len(s) : s[k].eid = i
      BY <1>1, <2>1 DEF Naming
    <3>2. k \in 1 .. Len(s) + Len(t)
      BY <1>1
    <3>. QED  BY <1>2, <3>1, <3>2
  <2>2. CASE i \in J
    <3>1. PICK k \in 1 .. Len(t) : t[k].eid = i
      BY <1>1, <2>2 DEF Naming
    <3>2. Len(s) + k \in 1 .. Len(s) + Len(t)
      BY <1>1
    <3>. QED  BY <1>2, <3>1, <3>2
  <2>. QED  BY <2>1, <2>2
<1>. QED  BY <1>2, <1>3, <1>4, <1>5 DEF Naming, r, E

LEMMA NamingFlat ==
  ASSUME NEW values, NEW T, NEW seqs \in Seq(Seq(Event(values))), NEW order,
         \A k \in 1 .. Len(seqs) : Naming(seqs[k], T, {order[k]}, values)
  PROVE  Naming(FlattenSeq(seqs), T, {order[k] : k \in 1 .. Len(seqs)}, values)
<1>. DEFINE E == Event(values)
            flat == FlattenSeq(seqs)
            n == Len(seqs)
<1>1. flat \in Seq(E) /\ \E w, j : Places(flat, seqs, w, j)
  BY FlattenPlaces
<1>. HIDE DEF E, flat
<1>2. PICK w, j : Places(flat, seqs, w, j)
  BY <1>1
<1>3. /\ \A p \in 1 .. Len(flat) : /\ w[p] \in 1 .. n /\ j[p] \in 1 .. Len(seqs[w[p]])
                                   /\ flat[p] = seqs[w[p]][j[p]]
      /\ \A k \in 1 .. n : \A m \in 1 .. Len(seqs[k]) :
           \E p \in 1 .. Len(flat) : w[p] = k /\ j[p] = m
  BY <1>2 DEF Places
<1>4. DOMAIN flat = 1 .. Len(flat)
  BY <1>1
<1>. HIDE DEF n
<1>5. ASSUME NEW k \in 1 .. n
      PROVE  /\ DOMAIN seqs[k] = 1 .. Len(seqs[k])
             /\ \A m \in 1 .. Len(seqs[k]) : seqs[k][m].type \in T /\ seqs[k][m].eid = order[k]
             /\ \E m \in 1 .. Len(seqs[k]) : seqs[k][m].eid = order[k]
  <2>1. Naming(seqs[k], T, {order[k]}, values)
    BY DEF n
  <2>2. DOMAIN seqs[k] = 1 .. Len(seqs[k])
    BY <2>1 DEF Naming
  <2>. QED  BY <2>1, <2>2 DEF Naming
<1>6. ASSUME NEW p \in DOMAIN flat
      PROVE  flat[p].type \in T /\ flat[p].eid \in {order[k] : k \in 1 .. n}
  <2>. DEFINE k == w[p]
              m == j[p]
  <2>1. k \in 1 .. n /\ m \in 1 .. Len(seqs[k]) /\ flat[p] = seqs[k][m]
    BY <1>3, <1>4
  <2>. HIDE DEF k, m
  <2>. QED  BY <1>5, <2>1
<1>7. ASSUME NEW i \in {order[k] : k \in 1 .. n}
      PROVE  \E p \in DOMAIN flat : flat[p].eid = i
  <2>1. PICK k \in 1 .. n : i = order[k]
    OBVIOUS
  <2>2. PICK m \in 1 .. Len(seqs[k]) : seqs[k][m].eid = order[k]
    BY <1>5
  <2>3. PICK p \in 1 .. Len(flat) : w[p] = k /\ j[p] = m
    BY <1>3
  <2>4. flat[p] = seqs[k][m]
    BY <1>3, <2>3
  <2>. QED  BY <1>4, <2>1, <2>2, <2>3, <2>4
<1>. QED  BY <1>1, <1>6, <1>7 DEF Naming, flat, E, n

\* First come the entities destroyed, then each that the packet tells of.
LEMMA EventsExact ==
  ASSUME NEW body, BodyTyped(body, Id, Type), DOMAIN c.ents \subseteq Id, NEW values
  PROVE  \E gone, told :
           /\ EntityEvents(body, values) = gone \o told
           /\ Naming(gone, {"ENTITY_DESTROYED"}, body.del \cap DOMAIN c.ents, values)
           /\ Naming(told, {"ENTITY_CREATED", "ENTITY_UPDATED"},
                     DOMAIN body.full \cup DOMAIN body.upd, values)
<1>. DEFINE each(type, ids) ==
              [k \in DOMAIN Ascending(ids) |-> EntityEvent(type, Ascending(ids)[k], values)]
            created(i) == IF i \in DOMAIN c.ents \ body.del THEN {} ELSE {i}
            order == Ascending(DOMAIN body.full)
            whole == [k \in DOMAIN order |-> each("ENTITY_CREATED", created(order[k]))
                                             \o each("ENTITY_UPDATED", {order[k]})]
            gone == each("ENTITY_DESTROYED", body.del \cap DOMAIN c.ents)
            flat == FlattenSeq(whole)
            upd == each("ENTITY_UPDATED", DOMAIN body.upd)
<1>1. EntityEvents(body, values) = (gone \o flat) \o upd
  BY DEF EntityEvents
<1>2. \A type \in EventType : \A ids \in SUBSET Id :
        Naming(each(type, ids), {type}, ids, values)
  BY NamingEach
<1>3. DOMAIN body.full \in SUBSET Id /\ DOMAIN body.upd \in SUBSET Id
  BY DEF BodyTyped
<1>4. /\ order \in Seq(DOMAIN body.full) /\ DOMAIN order = 1 .. Len(order)
      /\ \A x \in DOMAIN body.full : \E k \in DOMAIN order : order[k] = x
  <2>1. DOMAIN body.full \in SUBSET Nat /\ IsFiniteSet(DOMAIN body.full)
    BY <1>3, IdsFinite, FS_Subset
  <2>. QED  BY <2>1, AscendingExact
<1>. HIDE DEF each, order
<1>5. /\ Len(order) \in Nat /\ \A k \in 1 .. Len(order) : order[k] \in DOMAIN body.full
      /\ DOMAIN body.full = {order[k] : k \in 1 .. Len(order)}
  BY <1>4
<1>6. Naming(flat, {"ENTITY_CREATED", "ENTITY_UPDATED"}, DOMAIN body.full, values)
  <2>1. ASSUME NEW k \in 1 .. Len(order)
        PROVE  Naming(whole[k], {"ENTITY_CREATED", "ENTITY_UPDATED"}, {order[k]}, values)
    <3>1. created(order[k]) \in SUBSET Id /\ {order[k]} \in SUBSET Id
      BY <1>3, <1>5
    <3>2. created(order[k]) \cup {order[k]} = {order[k]}
      OBVIOUS
    <3>. DEFINE a == each("ENTITY_CREATED", created(order[k]))
                b == each("ENTITY_UPDATED", {order[k]})
    <3>3. whole[k] = a \o b
      BY <1>4
    <3>. HIDE DEF created, whole
    <3>4. Naming(a, {"ENTITY_CREATED"}, created(order[k]), values)
      BY <1>2, <3>1 DEF EventType
    <3>5. Naming(b, {"ENTITY_UPDATED"}, {order[k]}, values)
      BY <1>2, <3>1 DEF EventType
    <3>. HIDE DEF a, b
    <3>6. Naming(a \o b, {"ENTITY_CREATED"} \cup {"ENTITY_UPDATED"},
                 created(order[k]) \cup {order[k]}, values)
      BY <3>4, <3>5, NamingJoined
    <3>7. {"ENTITY_CREATED"} \cup {"ENTITY_UPDATED"} = {"ENTITY_CREATED", "ENTITY_UPDATED"}
      OBVIOUS
    <3>. QED  BY <3>2, <3>3, <3>6, <3>7
  <2>2. whole \in Seq(Seq(Event(values))) /\ Len(whole) = Len(order)
    <3>1. DOMAIN whole = 1 .. Len(order) /\ whole = [k \in 1 .. Len(order) |-> whole[k]]
      BY <1>4
    <3>2. \A k \in 1 .. Len(order) : whole[k] \in Seq(Event(values))
      BY <2>1 DEF Naming
    <3>. HIDE DEF whole
    <3>. QED  BY <1>5, <3>1, <3>2
  <2>. HIDE DEF whole
  <2>3. Naming(FlattenSeq(whole), {"ENTITY_CREATED", "ENTITY_UPDATED"},
               {order[k] : k \in 1 .. Len(whole)}, values)
    BY <2>1, <2>2, NamingFlat
  <2>. QED  BY <1>5, <2>2, <2>3
<1>7. Naming(upd, {"ENTITY_UPDATED"}, DOMAIN body.upd, values)
  BY <1>2, <1>3 DEF EventType
<1>8. Naming(gone, {"ENTITY_DESTROYED"}, body.del \cap DOMAIN c.ents, values)
  <2>1. body.del \cap DOMAIN c.ents \in SUBSET Id
    OBVIOUS
  <2>. QED  BY <1>2, <2>1 DEF EventType
<1>. HIDE DEF gone, flat, upd
<1>9. Naming(flat \o upd, {"ENTITY_CREATED", "ENTITY_UPDATED"},
             DOMAIN body.full \cup DOMAIN body.upd, values)
  <2>1. {"ENTITY_CREATED", "ENTITY_UPDATED"} \cup {"ENTITY_UPDATED"}
          = {"ENTITY_CREATED", "ENTITY_UPDATED"}
    OBVIOUS
  <2>2. Naming(flat \o upd, {"ENTITY_CREATED", "ENTITY_UPDATED"} \cup {"ENTITY_UPDATED"},
               DOMAIN body.full \cup DOMAIN body.upd, values)
    BY <1>6, <1>7, NamingJoined
  <2>. QED  BY <2>1, <2>2
<1>10. (gone \o flat) \o upd = gone \o (flat \o upd)
  BY <1>6, <1>7, <1>8, ConcatAssociative DEF Naming
<1>. QED  BY <1>1, <1>8, <1>9, <1>10

-----------------------------------------------------------------------------
(* What an application makes of the events *)

\* f is what is known after each of the first n events.
Takes(f, n, known, events) ==
  f = [k \in 0 .. n |-> IF k = 0 THEN known ELSE Told(f[k - 1], events[k])]

\* The recursion of ToldAll defines a function.
LEMMA TakesExists ==
  ASSUME NEW known, NEW events, NEW n \in Nat
  PROVE  \E f : Takes(f, n, known, events)
<1>. DEFINE Bad == {k \in Nat : ~ \E f : Takes(f, k, known, events)}
<1>. SUFFICES ASSUME Bad # {} PROVE FALSE
  OBVIOUS
<1>1. PICK m \in Bad : \A k \in Bad : ~(k < m)
  BY Smallest
<1>2. m # 0
  <2>. DEFINE g == [k \in 0 .. 0 |-> known]
  <2>1. g = [k \in 0 .. 0 |-> IF k = 0 THEN known ELSE Told(g[k - 1], events[k])]
    OBVIOUS
  <2>2. Takes(g, 0, known, events)
    BY <2>1 DEF Takes
  <2>. QED  BY <2>2
<1>3. m - 1 \in Nat /\ m - 1 < m
  BY <1>1, <1>2
<1>4. PICK f : Takes(f, m - 1, known, events)
  BY <1>1, <1>3
<1>. DEFINE g == [k \in 0 .. m |-> IF k = m THEN Told(f[m - 1], events[m]) ELSE f[k]]
<1>5. \A k \in 0 .. m - 1 : g[k] = f[k]
  BY <1>1, <1>2
<1>6. g[m] = Told(f[m - 1], events[m])
  BY <1>1
<1>7. \A k \in 0 .. m - 1 : f[k] = IF k = 0 THEN known ELSE Told(f[k - 1], events[k])
  BY <1>4 DEF Takes
<1>8. ASSUME NEW k \in 0 .. m
      PROVE  g[k] = IF k = 0 THEN known ELSE Told(g[k - 1], events[k])
  <2>. HIDE DEF g
  <2>1. CASE k = m
    <3>1. g[m - 1] = f[m - 1]
      BY <1>1, <1>2, <1>5
    <3>. QED  BY <1>2, <1>6, <2>1, <3>1
  <2>2. CASE k # m /\ k # 0
    <3>1. k \in 0 .. m - 1 /\ k - 1 \in 0 .. m - 1
      BY <1>1, <2>2
    <3>. QED  BY <1>5, <1>7, <2>2, <3>1
  <2>3. CASE k # m /\ k = 0
    BY <1>1, <1>5, <1>7, <2>3
  <2>. QED  BY <2>1, <2>2, <2>3
<1>9. Takes(g, m, known, events)
  <2>1. g = [k \in 0 .. m |-> g[k]]
    OBVIOUS
  <2>. HIDE DEF g
  <2>. QED  BY <1>8, <2>1 DEF Takes
<1>. QED  BY <1>1, <1>9

\* What the first g events name is no longer known, what the others name is known as
\* they tell it, all else as before.
KnownAfter(all, known, events, g) ==
  LET G == {events[k].eid : k \in {j \in DOMAIN events : j <= g}}
      T == {events[k].eid : k \in {j \in DOMAIN events : j > g}}
  IN /\ DOMAIN all = (DOMAIN known \ G) \cup T
     /\ all = [i \in DOMAIN all |-> all[i]]
     /\ \A i \in DOMAIN all \ T : all[i] = known[i]
     /\ \A i \in T : \E k \in DOMAIN events :
          k > g /\ events[k].eid = i /\ all[i] = events[k].entity

LEMMA ToldAllExact ==
  ASSUME NEW known, known = [i \in DOMAIN known |-> known[i]],
         NEW S, NEW events \in Seq(S), NEW g \in Nat,
         \A k \in DOMAIN events : events[k].type = "ENTITY_DESTROYED" <=> k <= g
  PROVE  KnownAfter(ToldAll(known, events), known, events, g)
<1>. DEFINE n == Len(events)
            f == CHOOSE f : Takes(f, n, known, events)
            G(m) == {events[k].eid : k \in {j \in 1 .. m : j <= g}}
            T(m) == {events[k].eid : k \in {j \in 1 .. m : j > g}}
            Right(all, m) ==
              /\ DOMAIN all = (DOMAIN known \ G(m)) \cup T(m)
              /\ all = [i \in DOMAIN all |-> all[i]]
              /\ \A i \in DOMAIN all \ T(m) : all[i] = known[i]
              /\ \A i \in T(m) : \E k \in 1 .. m :
                   k > g /\ events[k].eid = i /\ all[i] = events[k].entity
            Bad == {m \in 0 .. n : ~Right(f[m], m)}
<1>1. n \in Nat /\ DOMAIN events = 1 .. n
  OBVIOUS
<1>2. Takes(f, n, known, events)
  BY <1>1, TakesExists
<1>3. ToldAll(known, events) = f[n]
  BY DEF ToldAll, Takes
<1>. HIDE DEF f, n
<1>4. /\ f[0] = known
      /\ \A m \in 1 .. n : f[m] = Told(f[m - 1], events[m])
  BY <1>1, <1>2 DEF Takes
<1>5. Bad = {}
  <2>. SUFFICES ASSUME Bad # {} PROVE FALSE
    OBVIOUS
  <2>1. PICK m \in Bad : \A k \in Bad : ~(k < m)
    <3>1. Bad \in SUBSET Nat
      BY <1>1
    <3>. HIDE DEF Bad
    <3>. QED  BY <3>1, Smallest
  <2>2. m \in 0 .. n /\ ~Right(f[m], m)
    BY <2>1
  <2>3. m # 0
    <3>1. G(0) = {} /\ T(0) = {}
      OBVIOUS
    <3>2. Right(known, 0)
      BY <3>1
    <3>. QED  BY <1>4, <2>2, <3>2
  <2>4. m \in 1 .. n /\ m - 1 \in 0 .. n /\ m - 1 < m /\ m \in Nat
    BY <1>1, <2>2, <2>3
  <2>. DEFINE a == f[m - 1]
              b == f[m]
              e == events[m]
  <2>5. Right(a, m - 1)
    BY <2>1, <2>4
  <2>6. b = Told(a, e)
    BY <1>4, <2>4
  <2>7. e.type = "ENTITY_DESTROYED" <=> m <= g
    BY <1>1, <2>4
  <2>8. {j \in 1 .. m : j <= g} = {j \in 1 .. m - 1 : j <= g} \cup {j \in {m} : j <= g}
    BY <2>4
  <2>9. {j \in 1 .. m : j > g} = {j \in 1 .. m - 1 : j > g} \cup {j \in {m} : j > g}
    BY <2>4
  <2>. HIDE DEF a, b
  <2>10. CASE m <= g
    <3>1. G(m) = G(m - 1) \cup {e.eid}
      BY <2>8, <2>10
    <3>2. T(m) = {} /\ T(m - 1) = {}
      BY <2>4, <2>10
    <3>3. b = [i \in DOMAIN a \ {e.eid} |-> a[i]]
      BY <2>6, <2>7, <2>10 DEF Told
    <3>4. Right(b, m)
      <4>. HIDE DEF G, T, e
      <4>. QED  BY <2>5, <3>1, <3>2, <3>3
    <3>. QED  BY <2>2, <3>4 DEF b
  <2>11. CASE ~(m <= g)
    <3>1. G(m) = G(m - 1)
      BY <2>8, <2>11
    <3>2. T(m) = T(m - 1) \cup {e.eid} /\ m > g
      BY <2>4, <2>9, <2>11
    <3>3. b = [i \in DOMAIN a \cup {e.eid} |-> IF i = e.eid THEN e.entity ELSE a[i]]
      BY <2>6, <2>7, <2>11 DEF Told
    <3>4. \A k \in 1 .. m - 1 : k \in 1 .. m
      BY <2>4
    <3>5. m \in 1 .. m
      BY <2>4
    <3>6. DOMAIN b = (DOMAIN known \ G(m)) \cup T(m) /\ b = [i \in DOMAIN b |-> b[i]]
      <4>. HIDE DEF G, T, e
      <4>. QED  BY <2>5, <3>1, <3>2, <3>3
    <3>7. ASSUME NEW i \in DOMAIN b \ T(m)
          PROVE  b[i] = known[i]
      <4>. HIDE DEF G, T, e
      <4>. QED  BY <2>5, <3>1, <3>2, <3>3, <3>7
    <3>8. ASSUME NEW i \in T(m)
          PROVE  \E k \in 1 .. m : k > g /\ events[k].eid = i /\ b[i] = events[k].entity
      <4>1. CASE i = e.eid
        BY <3>2, <3>3, <3>5, <4>1
      <4>2. CASE i # e.eid
        <5>1. i \in T(m - 1)
          <6>. HIDE DEF T
          <6>. QED  BY <3>2, <3>8, <4>2
        <5>2. PICK k \in 1 .. m - 1 : k > g /\ events[k].eid = i /\ a[i] = events[k].entity
          BY <2>5, <5>1
        <5>3. i \in DOMAIN a
          <6>. HIDE DEF G, T
          <6>. QED  BY <2>5, <5>1
        <5>4. b[i] = a[i]
          BY <3>3, <4>2, <5>3
        <5>. QED  BY <3>4, <5>2, <5>4
      <4>. QED  BY <4>1, <4>2
    <3>9. Right(b, m)
      BY <3>6, <3>7, <3>8
    <3>. QED  BY <2>2, <3>9 DEF b
  <2>. QED  BY <2>10, <2>11
<1>6. Right(f[n], n)
  BY <1>1, <1>5
<1>. QED  BY <1>1, <1>3, <1>6 DEF KnownAfter

LEMMA ClientRecvEvents ==
  ASSUME DInv, EventsTellAll, NEW p \in toClient, ClientRecv(p)
  PROVE  EventsTellAll'
<1>1. c.status = "ok" /\ c.known = Values(c.ents)
  BY DEF ClientRecv, EventsTellAll
<1>2. PacketTyped(p) /\ ClientTyped
  BY DEF DInv
<1>3. CASE Outcome(p) # "ok"
  <2>1. c' = [c EXCEPT !.ack = p.tick, !.status = Outcome(p)]
    BY <1>3 DEF ClientRecv
  <2>2. c'.status = Outcome(p)
    <3>1. "status" \in DOMAIN c
      BY <1>2 DEF ClientTyped
    <3>. QED  BY ONLY <2>1, <3>1
  <2>. QED  BY <1>3, <2>2 DEF EventsTellAll
<1>4. CASE Outcome(p) = "ok"
  <2>. DEFINE body == p.body
              ents == ReadEntities(body)
              values == Values(ents)
              events == EntityEvents(body, values)
              all == ToldAll(c.known, events)
              K == DOMAIN c.ents
              N == DOMAIN body.full \cup DOMAIN body.upd
  <2>1. c' = [ack |-> p.tick, got |-> TRUE, status |-> "ok", ents |-> ents, known |-> all,
              world |-> p.world, prev |-> c.world, sorted |-> c.sorted /\ p.sorted,
              fellBack |-> c.fellBack \/ (~p.diff /\ c.got)]
    BY <1>4 DEF ClientRecv
  <2>2. /\ ~UsesDeleted(body) /\ DOMAIN body.upd \subseteq (K \ body.del) \cup DOMAIN body.full
        /\ \A i \in DOMAIN body.full : Decodings(body.full[i].cells) # {}
    BY <1>4 DEF Outcome, Misread, Unknown
  <2>3. BodyTyped(body, Id, Type) /\ K \subseteq Id /\ \A i \in K : c.ents[i] \in Copy
    BY <1>2 DEF PacketTyped, ClientTyped
  <2>4. DOMAIN ents = (K \ body.del) \cup DOMAIN body.full
    BY ReadDomain
  <2>5. \A i \in DOMAIN ents :
          /\ i \notin DOMAIN body.full => ents[i].type = c.ents[i].type
          /\ i \notin N => ents[i].next = c.ents[i].next
    BY <2>2, <2>3, ReadExact
  <2>6. PICK gone, told :
          /\ events = gone \o told
          /\ Naming(gone, {"ENTITY_DESTROYED"}, body.del \cap K, values)
          /\ Naming(told, {"ENTITY_CREATED", "ENTITY_UPDATED"}, N, values)
    <3>. HIDE DEF values
    <3>. QED  BY <2>3, EventsExact
  <2>7. /\ DOMAIN values = DOMAIN ents
        /\ \A i \in DOMAIN ents : values[i] = [type |-> ents[i].type, f |-> ents[i].next]
    BY DEF Values
  <2>8. /\ DOMAIN c.known = K /\ c.known = [i \in DOMAIN c.known |-> c.known[i]]
        /\ \A i \in K : c.known[i] = [type |-> c.ents[i].type, f |-> c.ents[i].next]
    BY <1>1 DEF Values
  <2>. HIDE DEF body, ents, values, events
  <2>. DEFINE g == Len(gone)
              S == Event(values)
  <2>9. /\ gone \in Seq(S) /\ told \in Seq(S)
        /\ g \in Nat /\ DOMAIN gone = 1 .. g /\ DOMAIN told = 1 .. Len(told) /\ Len(told) \in Nat
    BY <2>6 DEF Naming
  <2>. HIDE DEF S, g
  <2>10. /\ events \in Seq(S) /\ DOMAIN events = 1 .. g + Len(told)
         /\ \A k \in 1 .. g : events[k] = gone[k]
         /\ \A k \in 1 .. Len(told) : events[g + k] = told[k]
    BY <2>6, <2>9 DEF g
  <2>11. Len(events) = g + Len(told) /\ \A k \in 1 .. Len(events) : events[k] \in S
    <3>1. Len(events) = g + Len(told)
      BY <2>9, <2>10
    <3>. QED  BY <2>10, <3>1
  <2>12. ASSUME NEW k \in DOMAIN events
         PROVE  /\ k <= g => k \in 1 .. g /\ events[k] = gone[k]
                /\ k > g => k - g \in 1 .. Len(told) /\ events[k] = told[k - g]
                /\ k <= g <=> ~(k > g)
    <3>1. k > g => k - g \in 1 .. Len(told) /\ g + (k - g) = k
      BY <2>9, <2>10
    <3>2. (k <= g => k \in 1 .. g) /\ (k <= g <=> ~(k > g))
      BY <2>9, <2>10
    <3>. QED  BY <2>10, <3>1, <3>2
  <2>13. \A k \in DOMAIN events : events[k].type = "ENTITY_DESTROYED" <=> k <= g
    BY <2>6, <2>9, <2>12, SMTT(60) DEF Naming
  <2>. DEFINE G == {events[k].eid : k \in {j \in DOMAIN events : j <= g}}
              T == {events[k].eid : k \in {j \in DOMAIN events : j > g}}
  <2>14. G = body.del \cap K
    <3>1. ASSUME NEW i \in body.del \cap K PROVE i \in G
      <4>1. PICK k \in 1 .. g : gone[k].eid = i
        BY <2>6, <2>9 DEF Naming
      <4>2. k \in DOMAIN events /\ k <= g /\ events[k].eid = i
        BY <2>9, <2>10, <4>1
      <4>. QED  BY <4>2
    <3>. QED  BY <2>6, <2>9, <2>12, <3>1 DEF Naming
  <2>15. T = N
    <3>1. ASSUME NEW i \in N PROVE i \in T
      <4>1. PICK k \in 1 .. Len(told) : told[k].eid = i
        BY <2>6, <2>9 DEF Naming
      <4>2. g + k \in DOMAIN events /\ g + k > g /\ events[g + k].eid = i
        BY <2>9, <2>10, <4>1, SMTT(60)
      <4>. QED  BY <4>2
    <3>. QED  BY <2>6, <2>9, <2>12, <3>1, SMTT(60) DEF Naming
  <2>16. /\ DOMAIN all = (DOMAIN c.known \ G) \cup T
         /\ all = [i \in DOMAIN all |-> all[i]]
         /\ \A i \in DOMAIN all \ T : all[i] = c.known[i]
         /\ \A i \in T : \E k \in DOMAIN events :
              k > g /\ events[k].eid = i /\ all[i] = events[k].entity
    <3>. DEFINE known == c.known
    <3>1. known = [i \in DOMAIN known |-> known[i]]
      BY <2>8
    <3>. HIDE DEF known
    <3>2. events \in Seq(S) /\ g \in Nat
      BY <2>9, <2>10
    <3>3. KnownAfter(ToldAll(known, events), known, events, g)
      BY <2>13, <3>1, <3>2, ToldAllExact
    <3>. QED  BY <3>3 DEF KnownAfter, known
  <2>. HIDE DEF all, G, T
  <2>17. \A k \in DOMAIN events :
           events[k].entity = IF events[k].eid \in DOMAIN values THEN values[events[k].eid]
                              ELSE <<>>
    <3>. TAKE k \in DOMAIN events
    <3>1. events[k] \in S
      BY <2>10, <2>11
    <3>. QED  BY <3>1 DEF Event, EntityEvent, S
  <2>18. DOMAIN all = DOMAIN ents
    BY <2>2, <2>4, <2>8, <2>14, <2>15, <2>16
  <2>19. ASSUME NEW i \in DOMAIN ents
         PROVE  all[i] = values[i]
    <3>1. CASE i \in T
      <4>1. PICK k \in DOMAIN events : events[k].eid = i /\ all[i] = events[k].entity
        BY <2>16, <3>1
      <4>. QED  BY <2>7, <2>17, <4>1
    <3>2. CASE i \notin T
      <4>1. i \in K /\ all[i] = c.known[i]
        BY <2>4, <2>15, <2>16, <2>18, <3>2
      <4>2. ents[i].type = c.ents[i].type /\ ents[i].next = c.ents[i].next
        BY <2>5, <2>15, <3>2
      <4>. QED  BY <2>7, <2>8, <4>1, <4>2
    <3>. QED  BY <3>1, <3>2
  <2>20. all = values
    <3>1. values = [i \in DOMAIN ents |-> values[i]]
      BY DEF values, Values
    <3>2. all = [i \in DOMAIN ents |-> all[i]]
      BY <2>16, <2>18
    <3>3. [i \in DOMAIN ents |-> all[i]] = [i \in DOMAIN ents |-> values[i]]
      BY <2>19
    <3>. QED  BY <3>1, <3>2, <3>3
  <2>21. c'.known = all /\ c'.ents = ents
    BY <2>1
  <2>. QED  BY <2>20, <2>21 DEF EventsTellAll, values
<1>. QED  BY <1>3, <1>4

\* An application that takes an entity in or looks at it again only when an event
\* names it has every entity, with its newest values: of each packet the events
\* (SnapFuncImpl) name all that was destroyed, created or changed, in an order in
\* which nothing that is there is dropped.
THEOREM EventsAreEnough == Spec => []EventsTellAll
<1>1. Init => EventsTellAll
  BY DEF Init, NewGameState, EventsTellAll, Values
<1>2. DInv /\ EventsTellAll /\ [Next]_vars => EventsTellAll'
  <2>. SUFFICES ASSUME DInv, EventsTellAll, [Next]_vars PROVE EventsTellAll'
    OBVIOUS
  <2>1. CASE UNCHANGED c
    BY <2>1 DEF EventsTellAll
  <2>2. CASE \E p \in toClient : ClientRecv(p)
    BY <2>2, ClientRecvEvents
  <2>3. UNCHANGED c \/ \E p \in toClient : ClientRecv(p)
    BY DEF Next, vars, RegisterEntity, SetField, UnregisterEntity, Change, Tick, Abort,
           ServerRecv, ClientUpdate
  <2>. QED  BY <2>1, <2>2, <2>3
<1>. QED  BY <1>1, <1>2, DataInvariance, PTL DEF Spec
=============================================================================

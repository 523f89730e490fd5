----------------------------- MODULE Snapshots -----------------------------
(***************************************************************************)
(* Snapshot, DeltaSnapshot and RingBuffer as operators on their values     *)
(* (nrg_snapshot.cpp, nrg_deltasnapshot.cpp, nrg_ringbuffer.h), and what   *)
(* they put into a packet.                                                 *)
(*                                                                         *)
(* A field's value v is encoded in Size[v] cells <<v, 1>>, <<v, 2>>, ...;  *)
(* a packet is kept in its three sections:                                 *)
(*   del   the ids of deleted entities                                     *)
(*   full  id -> its type and the cells of all its fields                  *)
(*   upd   id -> number -> value, the fields named by the bit mask         *)
(***************************************************************************)
EXTENDS Naturals, Sequences, FiniteSets, FiniteSetsExt, SequencesExt, Lists

CONSTANTS
  NumFields,   \* getNumFields, the same for every entity
  Size         \* value -> number of cells it is encoded in

ASSUME SnapshotsAssumption ==
  NumFields \in Nat \ {0} /\ \A v \in DOMAIN Size : Size[v] \in Nat \ {0}

Field == 1 .. NumFields

Cells(v) == [k \in 1 .. Size[v] |-> <<v, k>>]
AllCells(f) == FlattenSeq([n \in Field |-> Cells(f[n])])

\* The values that decoding all fields of an entity yields: none when the
\* cells are not those of NumFields values.
Decodings(cells) == {f \in [Field -> DOMAIN Size] : AllCells(f) = cells}

-----------------------------------------------------------------------------
(* Snapshot: id -> the type, the sizes and the cells of an entity's fields *)

\* getFieldOffset
Offset(sizes, n) ==
  LET upTo[k \in 0 .. NumFields] == IF k = 0 THEN 0 ELSE upTo[k - 1] + sizes[k]
  IN upTo[n - 1]

\* writeArray of size cells of the old data; beyond its end lies other memory.
OldCells(buffer, off, size) ==
  [k \in 1 .. size |-> IF off + k \in DOMAIN buffer THEN buffer[off + k] ELSE <<>>]

\* Mutant: only the updated fields are written.
AddEntityUpdatesOnly(data, e) ==
  [type |-> e.type, sizes |-> [n \in Field |-> Size[e.f[n]]],
   cells |-> FlattenSeq([n \in Field |-> IF n \in e.upd THEN Cells(e.f[n]) ELSE <<>>])]

\* addEntity: e's updated fields are written, the others copied from the old
\* data, where getFieldOffset looks for them with sizes some of which are new.
AddEntity(data, e) ==
  LET sizes == [n \in Field |-> IF n \in e.upd THEN Size[e.f[n]] ELSE data.sizes[n]]
      write(n) == IF n \in e.upd THEN Cells(e.f[n])
                  ELSE OldCells(data.cells, Offset(sizes, n), sizes[n])
  IN [type |-> e.type, sizes |-> sizes, cells |-> FlattenSeq([n \in Field |-> write(n)])]

NoData == [type |-> 0, sizes |-> [n \in Field |-> 0], cells |-> <<>>]

\* addEntity or removeEntityByID for each of ids, by what is registered.
Snapshot(edata, entities, ids) ==
  [i \in (DOMAIN edata \ ids) \cup (DOMAIN entities \cap ids) |->
     IF i \notin ids THEN edata[i]
     ELSE AddEntity(IF i \in DOMAIN edata THEN edata[i] ELSE NoData, entities[i])]

SnapshotPacket(edata) ==
  [del |-> {}, upd |-> <<>>,
   full |-> [i \in DOMAIN edata |-> [type |-> edata[i].type, cells |-> edata[i].cells]]]

-----------------------------------------------------------------------------
(* DeltaSnapshot: id, its entities (id -> info) and the sequence of its fields *)

EmptyDelta == [id |-> 0, ents |-> <<>>, fields |-> <<>>, overrun |-> FALSE, sorted |-> TRUE]

\* The order lower_bound needs.
InEntityOrder(fields) == \A k \in 2 .. Len(fields) : fields[k - 1].e <= fields[k].e

\* addEntity and removeEntityByID for each of ids, in order.
DeltaOf(id, entities, ids) ==
  LET info(i) ==
        IF i \in DOMAIN entities
          THEN [num |-> NumFields, type |-> entities[i].type, full |-> entities[i].upd = Field]
          ELSE [num |-> 0, type |-> 0, full |-> FALSE]
      written(i) ==
        IF i \in DOMAIN entities
          THEN LET numbers == Ascending(entities[i].upd)
               IN [k \in DOMAIN numbers |->
                     [e |-> i, n |-> numbers[k], v |-> entities[i].f[numbers[k]]]]
          ELSE <<>>
      order == Ascending(ids)
  IN [id |-> id, ents |-> [i \in ids |-> info(i)], overrun |-> FALSE, sorted |-> TRUE,
      fields |-> FlattenSeq([k \in DOMAIN order |-> written(order[k])])]

\* lower_bound: a binary search, whatever the order of the fields; search[len] is
\* its result for the len fields from place "first" on.
LowerBound(fields, e) ==
  LET search[len \in 0 .. Len(fields)] ==
        [first \in 1 .. Len(fields) + 1 - len |->
           IF len = 0 THEN first
           ELSE LET half == len \div 2 IN
                IF fields[first + half].e < e THEN search[len - half - 1][first + half + 1]
                ELSE search[half][first]]
  IN search[Len(fields)][1]

\* The fields of entity e that lie together from place "from" on.
Run(fields, from, e) ==
  LET last == CHOOSE k \in from - 1 .. Len(fields) :
                /\ \A j \in from .. k : fields[j].e = e
                /\ k < Len(fields) => fields[k + 1].e # e
  IN SubSeq(fields, from, last)

SortedRun(fields, e) == Run(fields, LowerBound(fields, e), e)

\* find, wherever they lie.
FoundRun(fields, e) ==
  Run(fields, CHOOSE k \in 1 .. Len(fields) + 1 :
                /\ k <= Len(fields) => fields[k].e = e
                /\ \A j \in 1 .. k - 1 : fields[j].e # e, e)

\* The numbers of the fields in a run, and the value of one of them.
Numbers(run) == {run[k].n : k \in DOMAIN run}
Named(run, n) == run[CHOOSE k \in DOMAIN run : run[k].n = n]

\* At place k of fields, which may be the end, is one of e's.
At(fields, k, e) == k <= Len(fields) /\ fields[k].e = e

\* Mutant: a number that both have counts as the older one's.
MergeRoundOfOlder(old, new, e, s) ==
  LET ob == At(old, s.old_it, e)
      nb == At(new, s.new_it, e)
  IN IF ob /\ (nb => old[s.old_it].n <= new[s.new_it].n)
       THEN [s EXCEPT !.old_it = @ + 1, !.run = Append(@, old[s.old_it]),
                      !.new_it = IF nb /\ new[@].n = old[s.old_it].n THEN @ + 1 ELSE @]
     ELSE IF nb THEN [s EXCEPT !.new_it = @ + 1, !.run = Append(@, new[s.new_it])]
     ELSE s

\* A round of mergeWithNext's loop over an entity e of both deltas: s is the places of
\* old_it and new_it in their fields, and what is written.  The number at old_it is
\* compared whether e's field is there or not: it may be a following entity's, which is
\* stepped over, or memory past the end (overrun), which this takes for another number.
MergeRound(old, new, e, s) ==
  LET ob == At(old, s.old_it, e)
      nb == At(new, s.new_it, e)
      steps == s.old_it <= Len(old) /\ new[s.new_it].n = old[s.old_it].n
  IN IF nb /\ (ob => new[s.new_it].n <= old[s.old_it].n)
       THEN [old_it |-> IF steps THEN s.old_it + 1 ELSE s.old_it, new_it |-> s.new_it + 1,
             run |-> Append(s.run, new[s.new_it]),
             overrun |-> s.overrun \/ s.old_it > Len(old)]
     ELSE IF ob THEN [s EXCEPT !.old_it = @ + 1, !.run = Append(@, old[s.old_it])]
     ELSE s

\* Its rounds from the lower bounds on, as many as there are fields at most.
MergeLoop(old, new, e) ==
  LET after[k \in 0 .. Len(old) + Len(new)] ==
        IF k = 0 THEN [old_it |-> LowerBound(old, e), new_it |-> LowerBound(new, e),
                       run |-> <<>>, overrun |-> FALSE]
        ELSE MergeRound(old, new, e, after[k - 1])
  IN after[Len(old) + Len(new)]

\* Mutant: unique keeps the entity infos of the older delta.
OlderInfos(this, that) ==
  [i \in DOMAIN this.ents \cup DOMAIN that.ents |->
     IF i \in DOMAIN this.ents THEN this.ents[i] ELSE that.ents[i]]

\* inplace_union
NewerInfos(this, that) ==
  [i \in DOMAIN this.ents \cup DOMAIN that.ents |->
     IF i \in DOMAIN that.ents THEN that.ents[i] ELSE this.ents[i]]

\* The entities of both deltas that the newer one does not delete.
ChangedInBoth(this, that) ==
  {e \in DOMAIN this.ents \cap DOMAIN that.ents : that.ents[e].num # 0}

\* First the fields of the entities that only one of the two has, then those
\* of both, each time by id; so they are no longer sorted by entity.
MergedFields(this, that) ==
  LET one == (DOMAIN this.ents \cup DOMAIN that.ents) \ (DOMAIN this.ents \cap DOMAIN that.ents)
      single(e) ==
        FoundRun(IF \E k \in DOMAIN this.fields : this.fields[k].e = e
                   THEN this.fields ELSE that.fields, e)
      ones  == Ascending(one)
      boths == Ascending(ChangedInBoth(this, that))
  IN FlattenSeq([k \in DOMAIN ones |-> single(ones[k])])
     \o FlattenSeq([k \in DOMAIN boths |-> MergeLoop(this.fields, that.fields, boths[k]).run])

\* mergeWithNext.  (overrun and sorted are history: whether any merge read past
\* the end, and left the fields in order.)
MergeWithNext(this, that) ==
  [id      |-> that.id,
   ents    |-> NewerInfos(this, that),
   fields  |-> MergedFields(this, that),
   sorted  |-> this.sorted /\ InEntityOrder(MergedFields(this, that)),
   overrun |-> this.overrun \/ \E e \in ChangedInBoth(this, that) :
                                 MergeLoop(this.fields, that.fields, e).overrun]

\* One delta after the other merged into an empty one.
Merged(deltas) ==
  LET upTo[k \in 0 .. Len(deltas)] ==
        IF k = 0 THEN EmptyDelta ELSE MergeWithNext(upTo[k - 1], deltas[k])
  IN upTo[Len(deltas)]

\* writeToPacket's mask of an updated entity names its fields as far as their
\* numbers ascend, but the values of all of them follow: too many, if an entity's older
\* fields were written behind its newer ones.
MaskTooShort(d) ==
  \E e \in DOMAIN d.ents :
    /\ d.ents[e].num # 0 /\ ~d.ents[e].full
    /\ LET run == SortedRun(d.fields, e)
       IN \E k \in 2 .. Len(run) : run[k].n <= run[k - 1].n

\* writeToPacket
DeltaPacket(d) ==
  LET del  == {e \in DOMAIN d.ents : d.ents[e].num = 0}
      full == {e \in DOMAIN d.ents : d.ents[e].full}
      cells(run) == FlattenSeq([k \in DOMAIN run |-> Cells(run[k].v)])
      values(run) == [n \in Numbers(run) |-> Named(run, n).v]
  IN [del  |-> del,
      full |-> [e \in full |-> [type  |-> d.ents[e].type,
                                cells |-> cells(SortedRun(d.fields, e))]],
      upd  |-> [e \in DOMAIN d.ents \ (del \cup full) |-> values(SortedRun(d.fields, e))]]

-----------------------------------------------------------------------------
(* RingBuffer of N slots, as the sequence from start_idx to end_idx *)

\* Mutant: every slot is used, and start_idx equals end_idx in a full ring.
NextInRingAllSlots(ring, d, N) ==
  IF Len(ring) < N THEN Append(ring, d) ELSE Append(Tail(ring), d)

\* next: a ring of N slots holds N - 1 elements, then drops its oldest.
NextInRing(ring, d, N) ==
  IF Len(ring) < N - 1 THEN Append(ring, d) ELSE Append(Tail(ring), d)

\* find from the back, then everything after it.
FoundInRing(ring, id) == \E k \in DOMAIN ring : ring[k].id = id
After(ring, id) == SubSeq(ring, Max({k \in DOMAIN ring : ring[k].id = id}) + 1, Len(ring))
=============================================================================

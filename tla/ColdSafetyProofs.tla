-------------------------- MODULE ColdSafetyProofs --------------------------
(* What the cold tier never loses and never forgets, for every number of   *)
(* streams, bytes, objects and incarnations.                               *)
EXTENDS ColdTierProofs

---------------------------------------------------------------------------
(* How each command changes the streams' records.                          *)

Others(s) == \A t \in Streams : t # s => slot'[t] = slot[t]

LEMMA OneRecord ==
    ASSUME IInv, NEW s \in Streams, NEW v, slot' = [slot EXCEPT ![s] = v]
    PROVE  slot'[s] = v /\ Others(s)
BY DEF IInv, SlotOK, Others

LEMMA CreateShape ==
    ASSUME IInv, NEW s \in Streams, Create(s)
    PROVE  /\ limbo = NoCommand /\ ~slot[s].live /\ slot[s] = Vacant /\ Others(s)
           /\ slot'[s].live /\ slot'[s].gen = lastGen + 1 /\ slot'[s].tail = 0
           /\ slot'[s].retained = 0 /\ slot'[s].snapshot = 0
           /\ slot'[s].hot = {} /\ slot'[s].chunks = {} /\ slot'[s].external = {}
           /\ lastGen' = lastGen + 1
           /\ UNCHANGED <<refs, gc, store, pages, lastPath>>
           /\ UNCHANGED <<flusher, compactor, offloader, collector, limbo, orphans>>
<1> DEFINE v == [Vacant EXCEPT !.live = TRUE, !.gen = lastGen + 1]
<1>1. slot' = [slot EXCEPT ![s] = v]
  BY DEF Create
<1>2. slot'[s] = v /\ Others(s)
  BY <1>1, OneRecord
<1>. QED
  BY <1>2, SlotTyped DEF Create, Settled, Vacant, workers, outcome

LEMMA InlineShape ==
    ASSUME IInv, NEW s \in Streams, AppendInline(s)
    PROVE  /\ limbo = NoCommand /\ slot[s].live /\ Others(s)
           /\ slot'[s].live /\ slot'[s].gen = slot[s].gen /\ slot'[s].tail = slot[s].tail + 1
           /\ slot'[s].retained = slot[s].retained /\ slot'[s].snapshot = slot[s].snapshot
           /\ slot'[s].hot = slot[s].hot \cup {slot[s].tail}
           /\ slot'[s].chunks = slot[s].chunks /\ slot'[s].external = slot[s].external
           /\ UNCHANGED <<refs, gc, lastGen, store, pages, lastPath>>
           /\ UNCHANGED <<flusher, compactor, offloader, collector, limbo, orphans>>
<1> DEFINE v == [slot[s] EXCEPT !.hot = @ \cup {slot[s].tail}, !.tail = @ + 1]
<1>0. slot \in [Streams -> Slot] /\ slot[s] \in Slot
  BY DEF IInv, SlotOK
<1>1. slot' = [slot EXCEPT ![s] = v]
  BY <1>0 DEF AppendInline
<1>2. slot'[s] = v /\ Others(s)
  BY <1>1, OneRecord
<1>3. /\ v.live = slot[s].live /\ v.gen = slot[s].gen /\ v.tail = slot[s].tail + 1
      /\ v.retained = slot[s].retained /\ v.snapshot = slot[s].snapshot
      /\ v.hot = slot[s].hot \cup {slot[s].tail}
      /\ v.chunks = slot[s].chunks /\ v.external = slot[s].external
  BY <1>0 DEF Slot
<1> HIDE DEF v
<1>. QED
  BY <1>2, <1>3 DEF AppendInline, Settled, workers, outcome

LEMMA ExternalShape ==
    ASSUME IInv, NEW s \in Streams, AppendExternal(s)
    PROVE  LET r == [start |-> slot[s].tail, end |-> slot[s].tail + 1, path |-> lastPath + 1] IN
           /\ limbo = NoCommand /\ slot[s].live /\ Others(s)
           /\ slot'[s].live /\ slot'[s].gen = slot[s].gen /\ slot'[s].tail = slot[s].tail + 1
           /\ slot'[s].retained = slot[s].retained /\ slot'[s].snapshot = slot[s].snapshot
           /\ slot'[s].hot = slot[s].hot
           /\ slot'[s].chunks = slot[s].chunks /\ slot'[s].external = slot[s].external \cup {r}
           /\ lastPath < MaxPath /\ lastPath' = lastPath + 1
           /\ store' = [store EXCEPT ![lastPath + 1] = [dir |-> 0, bytes |-> BytesOf(slot[s].gen, r)]]
           /\ UNCHANGED <<refs, gc, lastGen, pages>>
           /\ UNCHANGED <<flusher, compactor, offloader, collector, limbo, orphans>>
<1> DEFINE r == [start |-> slot[s].tail, end |-> slot[s].tail + 1, path |-> lastPath + 1]
           v == [slot[s] EXCEPT !.external = @ \cup {r}, !.tail = @ + 1]
<1>0. slot \in [Streams -> Slot] /\ slot[s] \in Slot
  BY DEF IInv, SlotOK
<1>1. slot' = [slot EXCEPT ![s] = v]
  BY <1>0 DEF AppendExternal
<1>2. slot'[s] = v /\ Others(s)
  BY <1>1, OneRecord
<1>3. /\ v.live = slot[s].live /\ v.gen = slot[s].gen /\ v.tail = slot[s].tail + 1
      /\ v.retained = slot[s].retained /\ v.snapshot = slot[s].snapshot
      /\ v.hot = slot[s].hot
      /\ v.chunks = slot[s].chunks /\ v.external = slot[s].external \cup {r}
  BY <1>0 DEF Slot
<1>4. /\ lastPath < MaxPath /\ lastPath' = lastPath + 1
      /\ store' = [store EXCEPT ![lastPath + 1] = [dir |-> 0, bytes |-> BytesOf(slot[s].gen, r)]]
  BY DEF AppendExternal
<1> HIDE DEF v, r
<1>5. slot'[s].external = slot[s].external \cup {r}
  BY <1>2, <1>3
<1>. QED
  BY <1>2, <1>3, <1>4, <1>5 DEF AppendExternal, Settled, workers, outcome, r

LEMMA SnapshotShape ==
    ASSUME IInv, NEW s \in Streams, NEW o \in 1 .. MaxRetain, PublishSnapshot(s, o)
    PROVE  /\ limbo = NoCommand /\ slot[s].live /\ Others(s)
           /\ slot'[s].live /\ slot'[s].gen = slot[s].gen /\ slot'[s].tail = slot[s].tail
           /\ slot'[s].retained = slot[s].retained
           /\ slot'[s].hot = slot[s].hot
           /\ slot'[s].chunks = slot[s].chunks /\ slot'[s].external = slot[s].external
           /\ UNCHANGED <<refs, gc, lastGen, store, pages, lastPath>>
           /\ UNCHANGED <<flusher, compactor, offloader, collector, limbo, orphans>>
<1> DEFINE v == [slot[s] EXCEPT !.snapshot = o]
<1>0. slot \in [Streams -> Slot] /\ slot[s] \in Slot
  BY DEF IInv, SlotOK
<1>1. slot' = [slot EXCEPT ![s] = v]
  BY <1>0 DEF PublishSnapshot
<1>2. slot'[s] = v /\ Others(s)
  BY <1>1, OneRecord
<1>3. /\ v.live = slot[s].live /\ v.gen = slot[s].gen /\ v.tail = slot[s].tail
      /\ v.retained = slot[s].retained /\ v.hot = slot[s].hot
      /\ v.chunks = slot[s].chunks /\ v.external = slot[s].external
  BY <1>0 DEF Slot
<1> HIDE DEF v
<1>. QED
  BY <1>2, <1>3 DEF PublishSnapshot, Settled, workers, outcome

LEMMA RetentionShape ==
    ASSUME IInv, NEW s \in Streams, NEW o \in 1 .. MaxRetain, AdvanceRetention(s, o)
    PROVE  LET chunks == {r \in slot[s].chunks : r.end <= o}
               external == {r \in slot[s].external : r.end <= o}
           IN
           /\ limbo = NoCommand /\ slot[s].live /\ Others(s)
           /\ slot[s].retained < o /\ o <= slot[s].tail
           /\ slot'[s].live /\ slot'[s].gen = slot[s].gen /\ slot'[s].tail = slot[s].tail
           /\ slot'[s].retained = o /\ slot'[s].snapshot = slot[s].snapshot
           /\ slot'[s].hot = {b \in slot[s].hot : b >= o}
           /\ slot'[s].chunks = slot[s].chunks \ chunks
           /\ slot'[s].external = slot[s].external \ external
           /\ refs' = Released(PathsOf(chunks))
           /\ gc' = QueueUnless(QueueReleased(gc, PathsOf(chunks), TRUE), PathsOf(external), TRUE)
           /\ UNCHANGED <<lastGen, store, pages, lastPath>>
           /\ UNCHANGED <<flusher, compactor, offloader, collector, limbo, orphans>>
<1> DEFINE chunks == {r \in slot[s].chunks : r.end <= o}
           external == {r \in slot[s].external : r.end <= o}
           v == [slot[s] EXCEPT !.retained = o, !.chunks = @ \ chunks,
                                !.external = @ \ external, !.hot = {b \in @ : b >= o}]
<1>0. slot \in [Streams -> Slot] /\ slot[s] \in Slot
  BY DEF IInv, SlotOK
<1>1. slot' = [slot EXCEPT ![s] = v]
  BY <1>0 DEF AdvanceRetention
<1>2. slot'[s] = v /\ Others(s)
  BY <1>1, OneRecord
<1>3. /\ v.live = slot[s].live /\ v.gen = slot[s].gen /\ v.tail = slot[s].tail
      /\ v.retained = o /\ v.snapshot = slot[s].snapshot
      /\ v.hot = {b \in slot[s].hot : b >= o}
      /\ v.chunks = slot[s].chunks \ chunks /\ v.external = slot[s].external \ external
  BY <1>0 DEF Slot
<1>4. /\ slot[s].live /\ slot[s].retained < o /\ o <= slot[s].snapshot
      /\ refs' = Released(PathsOf(chunks))
      /\ gc' = QueueUnless(QueueReleased(gc, PathsOf(chunks), TRUE), PathsOf(external), TRUE)
  BY DEF AdvanceRetention
<1>5. o <= slot[s].tail
  BY <1>4, SlotTyped
<1> HIDE DEF v, chunks, external
<1>6. /\ limbo = NoCommand /\ UNCHANGED <<lastGen, store, pages, lastPath>>
      /\ UNCHANGED <<flusher, compactor, offloader, collector, limbo, orphans>>
  BY DEF AdvanceRetention, Settled, workers, outcome
<1>. QED
  BY <1>2, <1>3, <1>4, <1>5, <1>6 DEF chunks, external

LEMMA DeleteShape ==
    ASSUME IInv, NEW s \in Streams, Delete(s)
    PROVE  /\ limbo = NoCommand /\ slot[s].live /\ slot'[s] = Vacant /\ Others(s)
           /\ "delete" \in Duties /\ refs' = Released(PathsOf(slot[s].chunks))
           /\ UNCHANGED <<lastGen, store, pages, lastPath>>
           /\ UNCHANGED <<flusher, compactor, offloader, collector, limbo, orphans>>
<1>1. slot' = [slot EXCEPT ![s] = Vacant]
  BY DEF Delete
<1>2. slot'[s] = Vacant /\ Others(s)
  BY <1>1, OneRecord
<1>. QED
  BY <1>2 DEF Delete, Settled, workers, outcome

LEMMA FlushColdShape ==
    ASSUME IInv, NEW c \in Candidate, NEW path, NEW shared \in BOOLEAN, FlushFits(c),
           FlushCold(c, path, shared)
    PROVE  LET s == c.stream
               new == IF shared THEN {[start |-> c.start, end |-> c.end, path |-> path]} ELSE {}
           IN
           /\ s \in Streams /\ slot[s].live /\ Others(s)
           /\ slot'[s].live /\ slot'[s].gen = slot[s].gen /\ slot'[s].tail = slot[s].tail
           /\ slot'[s].retained = slot[s].retained /\ slot'[s].snapshot = slot[s].snapshot
           /\ slot'[s].hot = {b \in slot[s].hot : b >= c.end}
           /\ slot'[s].chunks = slot[s].chunks \cup new
           /\ slot'[s].external = slot[s].external
           /\ refs' = IF shared THEN [refs EXCEPT ![path] = @ + 1] ELSE refs
           /\ gc' = gc /\ lastGen' = lastGen
<1> DEFINE s == c.stream
           new == IF shared THEN {[start |-> c.start, end |-> c.end, path |-> path]} ELSE {}
           v == [slot[s] EXCEPT !.hot = {b \in @ : b >= c.end}, !.chunks = @ \cup new]
<1>0. slot \in [Streams -> Slot] /\ slot[s] \in Slot /\ s \in Streams /\ slot[s].live
  BY DEF IInv, SlotOK, Candidate, Plan, FlushFits
<1>1. slot' = [slot EXCEPT ![s] = v]
  BY <1>0 DEF FlushCold
<1>2. slot'[s] = v /\ Others(s)
  BY <1>0, <1>1, OneRecord
<1>3. /\ v.live = slot[s].live /\ v.gen = slot[s].gen /\ v.tail = slot[s].tail
      /\ v.retained = slot[s].retained /\ v.snapshot = slot[s].snapshot
      /\ v.hot = {b \in slot[s].hot : b >= c.end}
      /\ v.chunks = slot[s].chunks \cup new /\ v.external = slot[s].external
  BY <1>0 DEF Slot
<1>4. /\ refs' = IF shared THEN [refs EXCEPT ![path] = @ + 1] ELSE refs
      /\ gc' = gc /\ lastGen' = lastGen
  BY DEF FlushCold
<1> HIDE DEF v, new, s
<1>. QED
  BY <1>0, <1>2, <1>3, <1>4 DEF new, s

(* Refs that leave a stream's record through compaction or offload. *)
LEMMA RefsShape ==
    ASSUME IInv, NEW s \in Streams, NEW rs
    PROVE  /\ slot' = [slot EXCEPT ![s].chunks = @ \ rs] =>
                /\ Others(s) /\ slot'[s].live = slot[s].live /\ slot'[s].gen = slot[s].gen
                /\ slot'[s].tail = slot[s].tail /\ slot'[s].retained = slot[s].retained
                /\ slot'[s].snapshot = slot[s].snapshot /\ slot'[s].hot = slot[s].hot
                /\ slot'[s].chunks = slot[s].chunks \ rs /\ slot'[s].external = slot[s].external
           /\ slot' = [slot EXCEPT ![s].external = @ \ rs] =>
                /\ Others(s) /\ slot'[s].live = slot[s].live /\ slot'[s].gen = slot[s].gen
                /\ slot'[s].tail = slot[s].tail /\ slot'[s].retained = slot[s].retained
                /\ slot'[s].snapshot = slot[s].snapshot /\ slot'[s].hot = slot[s].hot
                /\ slot'[s].chunks = slot[s].chunks /\ slot'[s].external = slot[s].external \ rs
<1>0. slot \in [Streams -> Slot] /\ slot[s] \in Slot
  BY DEF IInv, SlotOK
<1>1. ASSUME slot' = [slot EXCEPT ![s].chunks = @ \ rs]
      PROVE  /\ Others(s) /\ slot'[s].live = slot[s].live /\ slot'[s].gen = slot[s].gen
             /\ slot'[s].tail = slot[s].tail /\ slot'[s].retained = slot[s].retained
             /\ slot'[s].snapshot = slot[s].snapshot /\ slot'[s].hot = slot[s].hot
             /\ slot'[s].chunks = slot[s].chunks \ rs /\ slot'[s].external = slot[s].external
  <2> DEFINE v == [slot[s] EXCEPT !.chunks = @ \ rs]
  <2>1. slot'[s] = v /\ Others(s)
    BY <1>1, OneRecord
  <2>. QED
    BY <1>0, <2>1 DEF Slot
<1>2. ASSUME slot' = [slot EXCEPT ![s].external = @ \ rs]
      PROVE  /\ Others(s) /\ slot'[s].live = slot[s].live /\ slot'[s].gen = slot[s].gen
             /\ slot'[s].tail = slot[s].tail /\ slot'[s].retained = slot[s].retained
             /\ slot'[s].snapshot = slot[s].snapshot /\ slot'[s].hot = slot[s].hot
             /\ slot'[s].chunks = slot[s].chunks /\ slot'[s].external = slot[s].external \ rs
  <2> DEFINE v == [slot[s] EXCEPT !.external = @ \ rs]
  <2>1. slot'[s] = v /\ Others(s)
    BY <1>2, OneRecord
  <2>. QED
    BY <1>0, <2>1 DEF Slot
<1>. QED
  BY <1>1, <1>2

---------------------------------------------------------------------------
(* The packs' reference counts.                                            *)

(* No slice leaves a record behind the back of a compaction of slices: a   *)
(* run of which only a part is still there is removed without a release    *)
(* (the run cold_trimmed_run).                                             *)
SliceLimits ==
    "shared" \in Duties => "delete" \notin Duties /\ MaxRetain = 0 /\ "shared" \notin Lossy

Slicers(p) == {s \in Streams : p \in PathsOf(slot[s].chunks)}

Counted == \A p \in Paths : IsFiniteSet(Slicers(p)) /\ refs[p] = Cardinality(Slicers(p))

OneSlice == \A s \in Streams : \A r, q \in slot[s].chunks : r.path = q.path => r = q

(* A pack has no slice yet of the streams it is still to be published for. *)
PackOpen ==
    flusher # Idle /\ flusher.shared =>
      /\ \A i \in 1 .. Len(flusher.todo) :
           flusher.path \notin PathsOf(slot[flusher.todo[i].stream].chunks)
      /\ \A i, j \in 1 .. Len(flusher.todo) :
           i # j => flusher.todo[i].stream # flusher.todo[j].stream

SliceOpen ==
    limbo.kind = "flush" /\ limbo.shared =>
      /\ limbo.path \notin PathsOf(slot[limbo.candidate.stream].chunks)
      /\ flusher # Idle => flusher.path # limbo.path

RunThere ==
    compactor # Idle /\ compactor.shared =>
      "shared" \in Duties /\ compactor.run \subseteq slot[compactor.stream].chunks

LostRaw == limbo.kind = "compact" => ~limbo.job.shared

RInv == Counted /\ OneSlice /\ PackOpen /\ SliceOpen /\ RunThere /\ LostRaw

SameChunks == \A s \in Streams : slot'[s].chunks = slot[s].chunks

LEMMA CountsStay ==
    ASSUME IInv, RInv, SameChunks, refs' = refs
    PROVE  Counted' /\ OneSlice'
<1>1. \A p : Slicers(p)' = Slicers(p)
  BY DEF SameChunks, Slicers
<1>. QED
  BY <1>1 DEF RInv, Counted, OneSlice, SameChunks

FlusherLike ==
    \/ flusher' \in {flusher, Idle}
    \/ flusher # Idle /\ flusher'.path = flusher.path /\ ~flusher'.shared

CompactorLike ==
    \/ compactor' = Idle \/ ~compactor'.shared
    \/ /\ compactor # Idle /\ compactor.shared /\ compactor'.run = compactor.run
       /\ compactor'.stream = compactor.stream

LimboLike ==
    limbo' \in {limbo, NoCommand} \/ limbo'.kind \in {"ack", "defer", "offload"}

LEMMA OpenStays ==
    ASSUME IInv, RInv,
           \A s \in Streams : PathsOf(slot'[s].chunks) \subseteq PathsOf(slot[s].chunks)
    PROVE  /\ FlusherLike => PackOpen'
           /\ FlusherLike /\ LimboLike => SliceOpen'
           /\ LimboLike => LostRaw'
<1>1. ASSUME FlusherLike PROVE PackOpen'
  <2>1. SUFFICES ASSUME flusher' = flusher, flusher # Idle, flusher.shared PROVE PackOpen'
    BY <1>1 DEF PackOpen, FlusherLike
  <2>2. \A i \in 1 .. Len(flusher.todo) : flusher.todo[i].stream \in Streams
    BY <2>1, FlusherTyped DEF Candidate, Plan
  <2>. QED
    BY <2>1, <2>2 DEF RInv, PackOpen
<1>2. ASSUME FlusherLike, LimboLike PROVE SliceOpen'
  <2>1. SUFFICES ASSUME limbo' = limbo, limbo.kind = "flush", limbo.shared PROVE SliceOpen'
    BY <1>2 DEF SliceOpen, NoCommand, LimboLike
  <2>2. limbo.candidate.stream \in Streams
    BY <2>1 DEF IInv, LimboOK, NoCommand, LostCommand, Candidate, Plan
  <2>. QED
    BY <1>2, <2>1, <2>2 DEF RInv, SliceOpen, FlusherLike
<1>3. LimboLike => LostRaw'
  BY DEF RInv, LostRaw, NoCommand, LimboLike
<1>. QED
  BY <1>1, <1>2, <1>3

(* A step that publishes, releases and compacts nothing. *)
LEMMA CountsQuiet ==
    ASSUME IInv, RInv, SameChunks, refs' = refs, FlusherLike, CompactorLike, LimboLike
    PROVE  RInv'
<1>1. Counted' /\ OneSlice'
  BY CountsStay
<1>2. PackOpen' /\ SliceOpen' /\ LostRaw'
  BY OpenStays DEF SameChunks
<1>3. RunThere'
  <2>1. SUFFICES ASSUME compactor' # Idle, compactor'.shared PROVE RunThere'
    BY DEF RunThere
  <2>2. /\ compactor # Idle /\ compactor.shared /\ compactor'.run = compactor.run
        /\ compactor'.stream = compactor.stream
    BY <2>1 DEF CompactorLike
  <2>3. compactor.stream \in Streams
    BY <2>2, CompactorTyped
  <2>. QED
    BY <2>1, <2>2, <2>3 DEF RInv, RunThere, SameChunks
<1>. QED
  BY <1>1, <1>2, <1>3 DEF RInv

(* Slices leave a stream's record, and their packs are released. *)
LEMMA CountsRelease ==
    ASSUME IInv, RInv, NEW s \in Streams, NEW rs \in SUBSET slot[s].chunks, Others(s),
           slot'[s].chunks = slot[s].chunks \ rs, refs' = Released(PathsOf(rs))
    PROVE  Counted' /\ OneSlice'
<1>1. slot[s].chunks \in SUBSET Ref
  BY SlotTyped
<1>2. ASSUME NEW p \in Paths
      PROVE  IsFiniteSet(Slicers(p)') /\ refs'[p] = Cardinality(Slicers(p)')
  <2>1. IsFiniteSet(Slicers(p)) /\ refs[p] = Cardinality(Slicers(p)) /\ refs[p] \in Nat
    BY FS_CardinalityType DEF RInv, Counted
  <2>2. refs'[p] = IF p \in PathsOf(rs) /\ refs[p] > 0 THEN refs[p] - 1 ELSE refs[p]
    BY DEF Released
  <2>3. CASE p \in PathsOf(rs)
    <3>1. p \notin PathsOf(slot'[s].chunks)
      BY <2>3 DEF RInv, OneSlice, PathsOf
    <3>2. Slicers(p)' = Slicers(p) \ {s} /\ s \in Slicers(p)
      BY <2>3, <3>1 DEF Slicers, Others, PathsOf
    <3>3. IsFiniteSet(Slicers(p)') /\ Cardinality(Slicers(p)') = refs[p] - 1
      BY <2>1, <3>2, FS_RemoveElement
    <3>4. refs[p] > 0
      BY <2>1, <3>2, FS_EmptySet
    <3>. QED
      BY <2>2, <2>3, <3>3, <3>4
  <2>4. CASE p \notin PathsOf(rs)
    <3>1. p \in PathsOf(slot'[s].chunks) <=> p \in PathsOf(slot[s].chunks)
      BY <2>4 DEF PathsOf
    <3>2. Slicers(p)' = Slicers(p)
      BY <3>1 DEF Slicers, Others
    <3>. QED
      BY <2>1, <2>2, <2>4, <3>2
  <2>. QED
    BY <2>3, <2>4
<1>3. OneSlice'
  BY DEF RInv, OneSlice, Others
<1>. QED
  BY <1>2, <1>3 DEF Counted

(* A slice of a pack enters the record of a stream that had none of it. *)
LEMMA CountsPublish ==
    ASSUME IInv, RInv, NEW s \in Streams, NEW r, Others(s), r.path \in Paths,
           r.path \notin PathsOf(slot[s].chunks),
           slot'[s].chunks = slot[s].chunks \cup {r}, refs' = [refs EXCEPT ![r.path] = @ + 1]
    PROVE  Counted' /\ OneSlice'
<1>0. refs \in [Paths -> Nat]
  BY DEF IInv, CountersOK
<1>1. ASSUME NEW p \in Paths
      PROVE  IsFiniteSet(Slicers(p)') /\ refs'[p] = Cardinality(Slicers(p)')
  <2>1. IsFiniteSet(Slicers(p)) /\ refs[p] = Cardinality(Slicers(p))
    BY DEF RInv, Counted
  <2>2. CASE p = r.path
    <3>1. Slicers(p)' = Slicers(p) \cup {s} /\ s \notin Slicers(p)
      BY <2>2 DEF Slicers, Others, PathsOf
    <3>2. IsFiniteSet(Slicers(p)') /\ Cardinality(Slicers(p)') = refs[p] + 1
      BY <2>1, <3>1, FS_AddElement
    <3>. QED
      BY <1>0, <2>2, <3>2
  <2>3. CASE p # r.path
    <3>1. Slicers(p)' = Slicers(p)
      BY <2>3 DEF Slicers, Others, PathsOf
    <3>. QED
      BY <1>0, <2>1, <2>3, <3>1
  <2>. QED
    BY <2>2, <2>3
<1>2. OneSlice'
  BY DEF RInv, OneSlice, Others, PathsOf
<1>. QED
  BY <1>1, <1>2 DEF Counted

LEMMA CompactorStill ==
    ASSUME IInv, compactor' = compactor
    PROVE  CompactorLike
<1>1. compactor # Idle => compactor.shared \in BOOLEAN
  BY CompactorTyped
<1>. QED
  BY <1>1 DEF CompactorLike

LEMMA CommandsCounted ==
    ASSUME SliceLimits, IInv, RInv, NEW s \in Streams,
           \/ Create(s) \/ AppendInline(s) \/ AppendExternal(s)
           \/ \E o \in 1 .. MaxRetain : PublishSnapshot(s, o)
    PROVE  RInv'
<1>1. /\ Others(s) /\ slot'[s].chunks = slot[s].chunks
      /\ UNCHANGED <<refs, flusher, compactor, limbo>>
  <2>1. CASE Create(s)
    BY <2>1, CreateShape DEF Vacant
  <2>2. CASE AppendInline(s)
    BY <2>2, InlineShape
  <2>3. CASE AppendExternal(s)
    BY <2>3, ExternalShape
  <2>4. CASE \E o \in 1 .. MaxRetain : PublishSnapshot(s, o)
    BY <2>4, SnapshotShape
  <2>. QED
    BY <2>1, <2>2, <2>3, <2>4
<1>2. SameChunks
  BY <1>1 DEF SameChunks, Others
<1>. QED
  BY <1>1, <1>2, CompactorStill, CountsQuiet DEF FlusherLike, LimboLike

LEMMA RemovalsCounted ==
    ASSUME SliceLimits, IInv, RInv, NEW s \in Streams,
           Delete(s) \/ \E o \in 1 .. MaxRetain : AdvanceRetention(s, o)
    PROVE  RInv'
<1>1. PICK rs \in SUBSET slot[s].chunks :
        /\ Others(s) /\ slot'[s].chunks = slot[s].chunks \ rs /\ refs' = Released(PathsOf(rs))
        /\ UNCHANGED <<flusher, compactor, limbo>>
        /\ "delete" \in Duties \/ MaxRetain # 0
  <2>1. CASE Delete(s)
    <3>1. slot'[s].chunks = slot[s].chunks \ slot[s].chunks
      BY <2>1, DeleteShape DEF Vacant
    <3>. QED
      BY <2>1, <3>1, DeleteShape
  <2>2. ASSUME NEW o \in 1 .. MaxRetain, AdvanceRetention(s, o)
        PROVE  \E rs \in SUBSET slot[s].chunks :
                 /\ Others(s) /\ slot'[s].chunks = slot[s].chunks \ rs
                 /\ refs' = Released(PathsOf(rs))
                 /\ UNCHANGED <<flusher, compactor, limbo>>
                 /\ MaxRetain # 0
    <3> DEFINE rs == {r \in slot[s].chunks : r.end <= o}
    <3>1. MaxRetain # 0
      OBVIOUS
    <3>2. /\ Others(s) /\ slot'[s].chunks = slot[s].chunks \ rs
          /\ refs' = Released(PathsOf(rs))
          /\ UNCHANGED <<flusher, compactor, limbo>>
      BY <2>2, RetentionShape
    <3>3. rs \in SUBSET slot[s].chunks
      OBVIOUS
    <3> HIDE DEF rs
    <3>. QED
      BY <3>1, <3>2, <3>3
  <2>. QED
    BY <2>1, <2>2
<1>2. Counted' /\ OneSlice'
  BY <1>1, CountsRelease
<1>3. \A t \in Streams : PathsOf(slot'[t].chunks) \subseteq PathsOf(slot[t].chunks)
  BY <1>1 DEF Others, PathsOf
<1>4. PackOpen' /\ SliceOpen' /\ LostRaw'
  BY <1>1, <1>3, OpenStays DEF FlusherLike, LimboLike
<1>5. RunThere'
  BY <1>1 DEF RInv, RunThere, SliceLimits
<1>. QED
  BY <1>2, <1>4, <1>5 DEF RInv

LEMMA WorkersCounted ==
    ASSUME SliceLimits, IInv, RInv,
           \/ \E s \in Streams : IndexOffload(s) \/ StrandExternal(s)
           \/ RefuseOffload \/ LoseOffload
           \/ PlanGc \/ ReclaimPaths \/ ReclaimObjects \/ ReclaimPages
           \/ AckGc \/ LoseAck \/ AbandonGc \/ FailEntry \/ DiscardLimbo
    PROVE  RInv'
<1>1. slot' = slot /\ refs' = refs /\ flusher' = flusher /\ compactor' = compactor
  BY DEF IndexOffload, StrandExternal, RefuseOffload, LoseOffload, PlanGc, ReclaimPaths,
         ReclaimObjects, ReclaimPages, AckGc, LoseAck, AbandonGc, FailEntry, DiscardLimbo,
         replicated, workers
<1>2. limbo' = limbo \/ limbo'.kind \in {"offload", "ack", "defer"} \/ limbo' = NoCommand
  <2>1. CASE FailEntry
    BY <2>1 DEF FailEntry, outcome
  <2>2. CASE LoseOffload \/ LoseAck \/ DiscardLimbo
    BY <2>2 DEF LoseOffload, LoseAck, DiscardLimbo
  <2>3. CASE \/ \E s \in Streams : IndexOffload(s) \/ StrandExternal(s)
             \/ RefuseOffload \/ PlanGc \/ ReclaimPaths \/ ReclaimObjects \/ ReclaimPages
             \/ AckGc \/ AbandonGc
    BY <2>3 DEF IndexOffload, StrandExternal, RefuseOffload, PlanGc, ReclaimPaths, ReclaimObjects,
                ReclaimPages, AckGc, AbandonGc, outcome
  <2>. QED
    BY <2>1, <2>2, <2>3
<1>3. SameChunks
  BY <1>1 DEF SameChunks
<1>. QED
  BY <1>1, <1>2, <1>3, CompactorStill, CountsQuiet DEF FlusherLike, LimboLike

LEMMA OffloadCounted ==
    ASSUME SliceLimits, IInv, RInv, PublishOffload
    PROVE  RInv'
<1>1. offloader.stream \in Streams
  BY DEF PublishOffload, IInv, OffloaderOK, Offload
<1>2. /\ slot' = [slot EXCEPT ![offloader.stream].external = @ \ offloader.refs]
      /\ UNCHANGED <<refs, flusher, compactor, limbo>>
  BY DEF PublishOffload, outcome
<1>3. Others(offloader.stream) /\ slot'[offloader.stream].chunks = slot[offloader.stream].chunks
  BY <1>1, <1>2, RefsShape
<1>4. SameChunks
  BY <1>3 DEF SameChunks, Others
<1>. QED
  BY <1>2, <1>4, CompactorStill, CountsQuiet DEF FlusherLike, LimboLike

(* The candidates of a pass are of the streams in the order given. *)
LEMMA PlannedStreams ==
    ASSUME IInv, NEW order \in Seq(Streams)
    PROVE  \A i \in 1 .. Len(order) : Planned(order)[i].stream = order[i]
<1>1. PICK g : Planned(order) = g[Len(order)] /\ \A k \in Nat : Passes(g, k, order)
  BY PlannedPasses
<1> DEFINE n == Len(order)
           good(i) == /\ g[i] \in Seq(Plan) /\ Len(g[i]) = i
                      /\ \A j \in 1 .. i : g[i][j].stream = order[j]
           bad == {i \in Nat : i <= n /\ ~good(i)}
<1>2. n \in Nat
  OBVIOUS
<1>3. SUFFICES ASSUME bad # {} PROVE FALSE
  BY <1>1, <1>2
<1>4. PICK i \in bad : \A j \in bad : i <= j
  <2> HIDE DEF bad
  <2>1. bad \in SUBSET Nat
    BY DEF bad
  <2>. QED
    BY <1>3, <2>1, SmallestExists
<1>5. i \in Nat /\ i <= n /\ ~good(i)
  BY <1>4
<1>6. i # 0
  <2>1. g[0] = <<>>
    BY <1>1 DEF Passes
  <2>2. good(0)
    BY <2>1
  <2>. QED
    BY <1>5, <2>2
<1>7. i - 1 \in Nat /\ i - 1 <= n /\ i - 1 < i /\ (i - 1) + 1 = i /\ ~(i <= i - 1) /\ i \in 1 .. n
  BY <1>2, <1>5, <1>6
<1>8. good(i - 1)
  BY <1>4, <1>7
<1>9. g[i] = Extended(order, i, g[i - 1])
  BY <1>1, <1>5, <1>7 DEF Passes
<1> DEFINE c == Prefix(order[i], MaxFlush - Cardinality(Payload(g[i - 1])))
<1>10. c \in Plan /\ c.stream = order[i]
  <2>1. Cardinality(Payload(g[i - 1])) \in Nat
    BY <1>8, PayloadFinite
  <2>2. MaxFlush - Cardinality(Payload(g[i - 1])) \in Int
    BY <2>1, ColdConstants
  <2>3. order[i] \in Streams
    BY <1>7
  <2>4. c \in Plan
    BY <2>2, <2>3, PrefixType DEF IInv
  <2>. QED
    BY <2>4 DEF Prefix
<1>11. g[i] = Append(g[i - 1], c)
  BY <1>9 DEF Extended
<1> HIDE DEF c
<1>12. /\ g[i] \in Seq(Plan) /\ Len(g[i]) = i /\ g[i][i] = c
       /\ \A j \in 1 .. i - 1 : g[i][j] = g[i - 1][j]
  BY <1>7, <1>8, <1>10, <1>11
<1>13. good(i)
  BY <1>7, <1>8, <1>10, <1>12
<1>. QED
  BY <1>5, <1>13

LEMMA PlanFlushCounted ==
    ASSUME IInv, RInv, NEW todo \in Seq(Plan), NEW shared \in BOOLEAN, PlanFlush(todo, shared),
           \A i, j \in 1 .. Len(todo) : i # j => todo[i].stream # todo[j].stream
    PROVE  RInv'
<1>1. /\ lastPath' = lastPath + 1 /\ lastPath \in Nat
      /\ flusher' = [stage |-> "uploaded", path |-> lastPath', shared |-> shared,
                     todo |-> todo, published |-> FALSE, gen |-> 0, saved |-> {}]
      /\ UNCHANGED <<slot, refs, compactor, limbo>>
  BY DEF PlanFlush, replicated, outcome, IInv, CountersOK
<1>2. SameChunks
  BY <1>1 DEF SameChunks
<1>3. Counted' /\ OneSlice'
  BY <1>1, <1>2, CountsStay
<1>4. ASSUME NEW s \in Streams PROVE lastPath' \notin PathsOf(slot[s].chunks)
  <2>1. ASSUME NEW r \in slot[s].chunks PROVE r.path # lastPath'
    BY <1>1, <2>1, SlotTyped, RefType DEF Written, Paths
  <2>. QED
    BY <2>1 DEF PathsOf
<1>5. PackOpen'
  <2>1. \A i \in 1 .. Len(todo) : todo[i].stream \in Streams
    <3>1. \A i \in 1 .. Len(todo) : todo[i] \in Plan
      OBVIOUS
    <3>. QED
      BY <3>1 DEF Plan
  <2>. QED
    BY <1>1, <1>4, <2>1 DEF PackOpen
<1>6. SliceOpen'
  <2>1. limbo.kind = "flush" => limbo.path # lastPath' /\ limbo.candidate.stream \in Streams
    <3>1. ASSUME limbo.kind = "flush" PROVE limbo.path \in Paths /\ limbo.candidate.stream \in Streams
      BY <3>1 DEF IInv, LimboOK, NoCommand, LostCommand, Candidate, Plan
    <3>. QED
      BY <1>1, <3>1 DEF IInv, LimboOK, Paths
  <2>. QED
    BY <1>1, <2>1 DEF RInv, SliceOpen
<1>7. RunThere' /\ LostRaw'
  BY <1>1 DEF RInv, RunThere, LostRaw
<1>. QED
  BY <1>3, <1>5, <1>6, <1>7 DEF RInv

LEMMA PlansCounted ==
    ASSUME IInv, RInv, PlanExclusive \/ PlanPack
    PROVE  RInv'
<1>1. SlotOK
  BY DEF IInv
<1>2. CASE PlanExclusive
  <2>1. PICK s \in Live : PlanFlush(Planned(<<s>>), FALSE)
    BY <1>2 DEF PlanExclusive
  <2>2. <<s>> \in Seq(Streams) /\ Len(<<s>>) = 1
    BY DEF Live
  <2>3. Planned(<<s>>) \in Seq(Plan) /\ Len(Planned(<<s>>)) = 1
    BY <1>1, <2>2, PlannedType
  <2>4. \A i, j \in 1 .. Len(Planned(<<s>>)) : i = j
    BY <2>3
  <2>. QED
    BY <2>1, <2>3, <2>4, PlanFlushCounted
<1>3. CASE PlanPack
  <2>1. PICK T \in SUBSET Live : /\ Cardinality(T) \in 1 .. PackWidth
                                 /\ \E order \in SetToSeqs(T) : PlanFlush(Planned(order), TRUE)
    BY <1>3 DEF PlanPack
  <2>2. PICK order \in SetToSeqs(T) : PlanFlush(Planned(order), TRUE)
    BY <2>1
  <2>3. /\ order \in [1 .. Cardinality(T) -> T]
        /\ \A i, j \in 1 .. Cardinality(T) : i # j => order[i] # order[j]
    BY DEF SetToSeqs
  <2>4. Cardinality(T) \in Nat
    BY <2>1
  <2>5. T \subseteq Streams
    BY DEF Live
  <2>6. order \in Seq(Streams) /\ Len(order) = Cardinality(T)
    BY <2>3, <2>4, <2>5
  <2>7. Planned(order) \in Seq(Plan) /\ Len(Planned(order)) = Len(order)
    BY <1>1, <2>6, PlannedType
  <2>8. \A i, j \in 1 .. Len(order) : i # j => order[i] # order[j]
    BY <2>3, <2>6
  <2>9. \A i, j \in 1 .. Len(Planned(order)) :
          i # j => Planned(order)[i].stream # Planned(order)[j].stream
    BY <2>6, <2>7, <2>8, PlannedStreams
  <2>. QED
    BY <2>2, <2>7, <2>9, PlanFlushCounted
<1>. QED
  BY <1>2, <1>3

LEMMA FlushesCounted ==
    ASSUME IInv, RInv, IndexFlush \/ RefuseFlush \/ LoseFlush \/ AbandonFlush
    PROVE  RInv'
<1>1. flusher # Idle /\ UNCHANGED <<slot, refs, compactor>>
  BY DEF IndexFlush, RefuseFlush, LoseFlush, AbandonFlush, replicated, Idle
<1>2. SameChunks
  BY <1>1 DEF SameChunks
<1>3. CASE IndexFlush \/ RefuseFlush \/ AbandonFlush
  <2>1. limbo' = limbo
    BY <1>3 DEF IndexFlush, RefuseFlush, AbandonFlush
  <2>2. FlusherLike
    <3>1. CASE flusher' = Idle
      BY <3>1 DEF FlusherLike
    <3>2. CASE flusher' # Idle
      <4>1. /\ ~flusher.shared
            /\ flusher' = [flusher EXCEPT !.stage = "indexed", !.saved = pages[slot[flusher.todo[1].stream].gen],
                                          !.gen = slot[flusher.todo[1].stream].gen]
        BY <1>3, <3>2 DEF IndexFlush, RefuseFlush, AbandonFlush, FlushRefused
      <4>2. flusher \in Flush
        BY <1>1, FlusherTyped
      <4>3. flusher'.path = flusher.path /\ flusher'.shared = flusher.shared
        BY <4>1, <4>2 DEF Flush
      <4>. QED
        BY <1>1, <4>1, <4>3 DEF FlusherLike
    <3>. QED
      BY <3>1, <3>2
  <2>. QED
    BY <1>1, <1>2, <2>1, <2>2, CompactorStill, CountsQuiet DEF LimboLike
<1>4. CASE LoseFlush
  <2>1. /\ limbo' = [kind |-> "flush", candidate |-> flusher.todo[1],
                     path |-> flusher.path, shared |-> flusher.shared]
        /\ flusher' = Idle
    BY <1>4 DEF LoseFlush
  <2>2. Counted' /\ OneSlice'
    BY <1>1, <1>2, CountsStay
  <2>3. 1 \in 1 .. Len(flusher.todo)
    BY <1>1, FlusherTyped
  <2>4. PackOpen' /\ SliceOpen' /\ LostRaw' /\ RunThere'
    BY <1>1, <2>1, <2>3 DEF RInv, PackOpen, SliceOpen, LostRaw, RunThere
  <2>. QED
    BY <2>2, <2>4 DEF RInv
<1>. QED
  BY <1>3, <1>4

LEMMA PublishFlushCounted ==
    ASSUME IInv, RInv, PublishFlush
    PROVE  RInv'
<1> DEFINE c == flusher.todo[1]
           s == c.stream
<1>1. /\ flusher # Idle /\ limbo = NoCommand /\ UNCHANGED <<compactor, limbo>>
      /\ flusher.shared \in BOOLEAN /\ flusher.path \in Paths
      /\ flusher.todo \in Seq(Candidate) /\ flusher.todo # <<>> /\ c \in Candidate /\ flusher \in Flush
  BY FlusherTyped DEF PublishFlush, Settled, outcome
<1>2. CASE ~FlushFits(c) /\ ~flusher.shared
  <2>1. flusher' = Idle /\ UNCHANGED <<slot, refs>>
    BY <1>2 DEF PublishFlush, FlushRefused, replicated
  <2>. QED
    BY <1>1, <2>1, CompactorStill, CountsQuiet DEF FlusherLike, LimboLike, SameChunks
<1>3. ASSUME NEW published \in BOOLEAN, NextSlice(published)
      PROVE  \/ flusher' = Idle
             \/ /\ flusher' # Idle /\ flusher'.path = flusher.path /\ flusher'.shared = flusher.shared
                /\ Len(flusher'.todo) = Len(flusher.todo) - 1 /\ Len(flusher.todo) \in Nat
                /\ \A i \in 1 .. Len(flusher.todo) - 1 : flusher'.todo[i] = flusher.todo[i + 1]
  <2>1. CASE Len(flusher.todo) > 1
    <3>1. flusher' = [flusher EXCEPT !.todo = Tail(flusher.todo), !.published = published]
      BY <1>3, <2>1 DEF NextSlice
    <3>2. flusher'.path = flusher.path /\ flusher'.shared = flusher.shared /\ flusher'.todo = Tail(flusher.todo)
          /\ flusher'.stage = flusher.stage
      BY <1>1, <3>1 DEF Flush
    <3>3. flusher' # Idle
      BY <1>1, <3>2 DEF Flush, Idle
    <3>. QED
      BY <1>1, <3>2, <3>3
  <2>2. CASE ~(Len(flusher.todo) > 1)
    BY <1>3, <2>2 DEF NextSlice
  <2>. QED
    BY <2>1, <2>2
<1>4. CASE ~FlushFits(c) /\ flusher.shared
  <2>1. NextSlice(flusher.published) /\ UNCHANGED <<slot, refs>> /\ flusher.published \in BOOLEAN
    BY <1>1, <1>4 DEF PublishFlush, replicated, Flush
  <2>2. Counted' /\ OneSlice'
    BY <2>1, CountsStay DEF SameChunks
  <2>3. PackOpen'
    <3>1. CASE flusher' = Idle
      BY <3>1 DEF PackOpen
    <3>2. CASE flusher' # Idle
      <4>1. /\ flusher'.path = flusher.path
            /\ Len(flusher'.todo) = Len(flusher.todo) - 1 /\ Len(flusher.todo) \in Nat
            /\ \A i \in 1 .. Len(flusher.todo) - 1 : flusher'.todo[i] = flusher.todo[i + 1]
        BY <1>3, <2>1, <3>2
      <4>2. ASSUME NEW i \in 1 .. Len(flusher'.todo)
            PROVE  i + 1 \in 1 .. Len(flusher.todo) /\ flusher'.todo[i] = flusher.todo[i + 1]
        BY <4>1
      <4>3. ASSUME NEW i \in 1 .. Len(flusher'.todo), NEW j \in 1 .. Len(flusher'.todo), i # j
            PROVE  flusher'.todo[i].stream # flusher'.todo[j].stream
        <5>1. /\ i + 1 # j + 1 /\ i + 1 \in 1 .. Len(flusher.todo) /\ j + 1 \in 1 .. Len(flusher.todo)
              /\ flusher'.todo[i] = flusher.todo[i + 1] /\ flusher'.todo[j] = flusher.todo[j + 1]
          BY <4>1, <4>3
        <5>2. \A x, y \in 1 .. Len(flusher.todo) :
                 x # y => flusher.todo[x].stream # flusher.todo[y].stream
          BY <1>1, <1>4 DEF RInv, PackOpen
        <5>. QED
          BY <5>1, <5>2
      <4>4. ASSUME NEW i \in 1 .. Len(flusher'.todo)
            PROVE  flusher.path \notin PathsOf(slot[flusher'.todo[i].stream].chunks)
        BY <1>1, <1>4, <4>2 DEF PackOpen, RInv
      <4>. QED
        BY <2>1, <4>1, <4>3, <4>4 DEF PackOpen
    <3>. QED
      BY <3>1, <3>2
  <2>4. SliceOpen' /\ LostRaw' /\ RunThere'
    BY <1>1, <2>1 DEF RInv, SliceOpen, LostRaw, RunThere, NoCommand
  <2>. QED
    BY <2>2, <2>3, <2>4 DEF RInv
<1>5. CASE FlushFits(c)
  <2>1. FlushCold(c, flusher.path, flusher.shared) /\ NextSlice(TRUE)
    BY <1>5 DEF PublishFlush
  <2> DEFINE r == [start |-> c.start, end |-> c.end, path |-> flusher.path]
  <2>2. /\ s \in Streams /\ Others(s)
        /\ slot'[s].chunks = slot[s].chunks \cup (IF flusher.shared THEN {r} ELSE {})
        /\ refs' = IF flusher.shared THEN [refs EXCEPT ![flusher.path] = @ + 1] ELSE refs
    <3> HIDE DEF c
    <3>1. c \in Candidate /\ flusher.shared \in BOOLEAN /\ FlushFits(c)
      BY <1>1, <1>5
    <3>. QED
      BY <2>1, <3>1, FlushColdShape
  <2>3. 1 \in 1 .. Len(flusher.todo)
    BY <1>1
  <2>4. r.path = flusher.path
    OBVIOUS
  <2> HIDE DEF r
  <2>5. CASE ~flusher.shared
    <3>1. SameChunks /\ refs' = refs
      BY <2>2, <2>5 DEF SameChunks, Others
    <3>2. FlusherLike
      BY <1>1, <1>3, <2>1, <2>5 DEF FlusherLike
    <3>. QED
      BY <1>1, <3>1, <3>2, CompactorStill, CountsQuiet DEF LimboLike
  <2>6. CASE flusher.shared
    <3>1. flusher.path \notin PathsOf(slot[s].chunks)
      BY <1>1, <2>3, <2>6 DEF RInv, PackOpen
    <3>2. Counted' /\ OneSlice'
      BY <1>1, <2>2, <2>4, <2>6, <3>1, CountsPublish
    <3>3. PackOpen'
      <4>1. CASE flusher' = Idle
        BY <4>1 DEF PackOpen
      <4>2. CASE flusher' # Idle
        <5>1. /\ flusher'.path = flusher.path
              /\ Len(flusher'.todo) = Len(flusher.todo) - 1 /\ Len(flusher.todo) \in Nat
              /\ \A i \in 1 .. Len(flusher.todo) - 1 : flusher'.todo[i] = flusher.todo[i + 1]
          BY <1>3, <2>1, <4>2
        <5>2. \A i, j \in 1 .. Len(flusher.todo) :
                 i # j => flusher.todo[i].stream # flusher.todo[j].stream
          BY <1>1, <2>6 DEF RInv, PackOpen
        <5>3. ASSUME NEW i \in 1 .. Len(flusher'.todo), NEW j \in 1 .. Len(flusher'.todo), i # j
              PROVE  flusher'.todo[i].stream # flusher'.todo[j].stream
          <6>1. /\ i + 1 # j + 1 /\ i + 1 \in 1 .. Len(flusher.todo) /\ j + 1 \in 1 .. Len(flusher.todo)
                /\ flusher'.todo[i] = flusher.todo[i + 1] /\ flusher'.todo[j] = flusher.todo[j + 1]
            BY <5>1, <5>3
          <6>. QED
            BY <5>2, <6>1
        <5>4. ASSUME NEW i \in 1 .. Len(flusher'.todo)
              PROVE  flusher.path \notin PathsOf(slot'[flusher'.todo[i].stream].chunks)
          <6>1. i + 1 \in 1 .. Len(flusher.todo) /\ i + 1 # 1 /\ flusher'.todo[i] = flusher.todo[i + 1]
            BY <5>1
          <6>2. flusher.todo[i + 1].stream # s /\ flusher.todo[i + 1].stream \in Streams
            BY <1>1, <2>3, <5>2, <6>1 DEF Candidate, Plan
          <6>3. flusher.path \notin PathsOf(slot[flusher.todo[i + 1].stream].chunks)
            BY <1>1, <2>6, <6>1 DEF RInv, PackOpen
          <6>. QED
            BY <2>2, <6>1, <6>2, <6>3 DEF Others
        <5>. QED
          BY <5>1, <5>3, <5>4 DEF PackOpen
      <4>. QED
        BY <4>1, <4>2
    <3>4. SliceOpen' /\ LostRaw'
      BY <1>1 DEF RInv, SliceOpen, LostRaw, NoCommand
    <3>5. RunThere'
      <4>1. SUFFICES ASSUME compactor # Idle, compactor.shared PROVE RunThere'
        BY <1>1 DEF RunThere
      <4>2. compactor.stream \in Streams
        BY <4>1, CompactorTyped
      <4>. QED
        BY <1>1, <2>2, <4>1, <4>2 DEF RInv, RunThere, Others
    <3>. QED
      BY <3>2, <3>3, <3>4, <3>5 DEF RInv
  <2>. QED
    BY <1>1, <2>5, <2>6
<1>. QED
  BY <1>2, <1>4, <1>5

LEMMA PlanCompactionCounted ==
    ASSUME IInv, RInv, PlanShared \/ PlanRaw
    PROVE  RInv'
<1>1. UNCHANGED <<slot, refs, flusher, limbo>>
  BY DEF PlanShared, PlanRaw, PlanCompaction, replicated, outcome
<1>2. SameChunks
  BY <1>1 DEF SameChunks
<1>3. Counted' /\ OneSlice'
  BY <1>1, <1>2, CountsStay
<1>4. PackOpen' /\ SliceOpen' /\ LostRaw'
  BY <1>1, OpenStays DEF FlusherLike, LimboLike
<1>5. RunThere'
  <2>1. CASE PlanShared
    <3>1. PICK s \in Live : slot[s].chunks # {} /\ PlanCompaction(s, SharedRun(s), TRUE)
      BY <2>1 DEF PlanShared
    <3>2. s \in Streams /\ "shared" \in Duties
      BY <2>1 DEF Live, PlanShared
    <3>3. SharedRun(s) \subseteq slot[s].chunks
      BY <3>1, <3>2, SharedRunType DEF IInv
    <3>4. compactor'.run = SharedRun(s) /\ compactor'.stream = s
      BY <3>1 DEF PlanCompaction
    <3>. QED
      BY <1>1, <3>2, <3>3, <3>4 DEF RunThere
  <2>2. CASE PlanRaw
    <3>1. PICK s \in Live : \E run : PlanCompaction(s, run, FALSE)
      BY <2>2 DEF PlanRaw
    <3>2. ~compactor'.shared
      BY <3>1 DEF PlanCompaction
    <3>. QED
      BY <3>2 DEF RunThere
  <2>. QED
    BY <2>1, <2>2
<1>. QED
  BY <1>3, <1>4, <1>5 DEF RInv

LEMMA IndexCompactionCounted ==
    ASSUME SliceLimits, IInv, RInv,
           IndexCompaction \/ RefuseCompaction \/ LoseCompaction \/ AbandonCompaction
    PROVE  RInv'
<1>1. compactor # Idle /\ UNCHANGED <<slot, refs, flusher>> /\ compactor \in Compaction
  <2>1. compactor # Idle /\ UNCHANGED <<slot, refs, flusher>>
    BY DEF IndexCompaction, RefuseCompaction, LoseCompaction, AbandonCompaction, replicated, Idle
  <2>. QED
    BY <2>1, CompactorTyped
<1>2. SameChunks
  BY <1>1 DEF SameChunks
<1>3. CASE IndexCompaction \/ RefuseCompaction \/ AbandonCompaction
  <2>1. limbo' = limbo
    BY <1>3 DEF IndexCompaction, RefuseCompaction, AbandonCompaction
  <2>2. CompactorLike
    <3>1. CASE compactor' = Idle
      BY <3>1 DEF CompactorLike
    <3>2. CASE compactor' # Idle
      <4>1. compactor' = [compactor EXCEPT !.stage = "indexed", !.gen = slot[compactor.stream].gen,
                                           !.saved = pages[slot[compactor.stream].gen]]
        BY <1>3, <3>2 DEF IndexCompaction, RefuseCompaction, AbandonCompaction, CompactionRefused
      <4>2. /\ compactor'.run = compactor.run /\ compactor'.shared = compactor.shared
            /\ compactor'.stream = compactor.stream /\ compactor.shared \in BOOLEAN
        BY <1>1, <4>1 DEF Compaction
      <4>. QED
        BY <1>1, <4>2 DEF CompactorLike
    <3>. QED
      BY <3>1, <3>2
  <2>. QED
    BY <1>1, <1>2, <2>1, <2>2, CountsQuiet DEF FlusherLike, LimboLike
<1>4. CASE LoseCompaction
  <2>1. /\ limbo' = [kind |-> "compact", job |-> compactor] /\ compactor' = Idle
        /\ CompactDuty \in Lossy
    BY <1>4 DEF LoseCompaction
  <2>2. ~compactor.shared
    BY <1>1, <2>1, ColdConstants DEF RInv, RunThere, SliceLimits, CompactDuty
  <2>3. Counted' /\ OneSlice'
    BY <1>1, <1>2, CountsStay
  <2>4. PackOpen'
    BY <1>1, OpenStays DEF FlusherLike
  <2>5. SliceOpen' /\ LostRaw' /\ RunThere'
    BY <2>1, <2>2 DEF SliceOpen, LostRaw, RunThere
  <2>. QED
    BY <2>3, <2>4, <2>5 DEF RInv
<1>. QED
  BY <1>3, <1>4

LEMMA PublishCompactionCounted ==
    ASSUME SliceLimits, IInv, RInv, PublishCompaction
    PROVE  RInv'
<1>1. /\ compactor # Idle /\ compactor' = Idle /\ UNCHANGED <<flusher, limbo>>
      /\ CompactCold(compactor)
  BY DEF PublishCompaction, CompactionRefused, outcome, Idle
<1>2. compactor \in Compaction /\ compactor.stream \in Streams /\ compactor.run # {}
  BY <1>1, CompactorTyped
<1>3. CASE compactor.shared
  <2> DEFINE s == compactor.stream
             run == compactor.run
  <2>1. CompactShared(s, run)
    BY <1>1, <1>3 DEF CompactCold
  <2>2. run \subseteq slot[s].chunks
    BY <1>1, <1>3 DEF RInv, RunThere
  <2>3. slot[s].live
    BY <1>2, <2>2, SlotTyped DEF Vacant
  <2>4. slot' = [slot EXCEPT ![s].chunks = @ \ run] /\ refs' = Released(PathsOf(run))
    BY <2>1, <2>2, <2>3 DEF CompactShared, SharedRunMatches
  <2>5. Others(s) /\ slot'[s].chunks = slot[s].chunks \ run
    BY <1>2, <2>4, RefsShape
  <2>6. Counted' /\ OneSlice'
    BY <1>2, <2>2, <2>4, <2>5, CountsRelease
  <2>7. \A t \in Streams : PathsOf(slot'[t].chunks) \subseteq PathsOf(slot[t].chunks)
    BY <2>5 DEF Others, PathsOf
  <2>8. PackOpen' /\ SliceOpen' /\ LostRaw'
    BY <1>1, <2>7, OpenStays DEF FlusherLike, LimboLike
  <2>. QED
    BY <1>1, <2>6, <2>8 DEF RInv, RunThere
<1>4. CASE ~compactor.shared
  <2>1. UNCHANGED <<slot, refs>>
    BY <1>1, <1>4 DEF CompactCold, CompactRaw
  <2>. QED
    BY <1>1, <2>1, CountsQuiet DEF FlusherLike, LimboLike, CompactorLike, SameChunks
<1>. QED
  BY <1>2, <1>3, <1>4 DEF Compaction

LEMMA CommitCounted ==
    ASSUME IInv, RInv, CommitLimbo
    PROVE  RInv'
<1>1. limbo \in LostCommand /\ limbo' = NoCommand /\ UNCHANGED <<flusher, compactor>> /\ ApplyLimbo
  BY DEF CommitLimbo, IInv, LimboOK, workers
<1>2. CASE limbo.kind = "flush"
  <2> DEFINE c == limbo.candidate
             s == c.stream
             r == [start |-> c.start, end |-> c.end, path |-> limbo.path]
  <2>1. c \in Candidate /\ limbo.path \in Paths /\ limbo.shared \in BOOLEAN
    BY <1>1, <1>2 DEF LostCommand
  <2>2. IF FlushFits(c) THEN FlushCold(c, limbo.path, limbo.shared) ELSE UNCHANGED replicated
    BY <1>1, <1>2 DEF ApplyLimbo
  <2>3. CASE UNCHANGED <<slot, refs>>
    BY <1>1, <2>3, CompactorStill, CountsQuiet DEF FlusherLike, LimboLike, SameChunks
  <2>4. CASE FlushFits(c)
    <3>1. /\ s \in Streams /\ Others(s)
          /\ slot'[s].chunks = slot[s].chunks \cup (IF limbo.shared THEN {r} ELSE {})
          /\ refs' = IF limbo.shared THEN [refs EXCEPT ![limbo.path] = @ + 1] ELSE refs
      <4> HIDE DEF c
      <4>. QED
        BY <2>1, <2>2, <2>4, FlushColdShape
    <3>2. r.path = limbo.path
      OBVIOUS
    <3> HIDE DEF r, s, c
    <3>3. CASE ~limbo.shared
      <4>1. SameChunks /\ refs' = refs
        BY <3>1, <3>3 DEF SameChunks, Others
      <4>. QED
        BY <1>1, <4>1, CompactorStill, CountsQuiet DEF FlusherLike, LimboLike
    <3>4. CASE limbo.shared
      <4>1. limbo.path \notin PathsOf(slot[s].chunks) /\ (flusher # Idle => flusher.path # limbo.path)
        BY <1>2, <3>4 DEF RInv, SliceOpen, s, c
      <4>2. Counted' /\ OneSlice'
        BY <2>1, <3>1, <3>2, <3>4, <4>1, CountsPublish
      <4>3. SliceOpen' /\ LostRaw'
        BY <1>1 DEF SliceOpen, LostRaw, NoCommand
      <4>4. PackOpen'
        <5>1. SUFFICES ASSUME flusher # Idle, flusher.shared PROVE PackOpen'
          BY <1>1 DEF PackOpen
        <5>2. \A i \in 1 .. Len(flusher.todo) : flusher.todo[i].stream \in Streams
          BY <5>1, FlusherTyped DEF Candidate, Plan
        <5>3. \A t \in Streams : flusher.path \notin PathsOf(slot[t].chunks) =>
                                 flusher.path \notin PathsOf(slot'[t].chunks)
          BY <3>1, <3>2, <3>4, <4>1, <5>1 DEF Others, PathsOf
        <5>. QED
          BY <1>1, <5>1, <5>2, <5>3 DEF RInv, PackOpen
      <4>5. RunThere'
        <5>1. SUFFICES ASSUME compactor # Idle, compactor.shared PROVE RunThere'
          BY <1>1 DEF RunThere
        <5>2. compactor.stream \in Streams
          BY <5>1, CompactorTyped
        <5>. QED
          BY <1>1, <3>1, <5>1, <5>2 DEF RInv, RunThere, Others
      <4>. QED
        BY <4>2, <4>3, <4>4, <4>5 DEF RInv
    <3>. QED
      BY <2>1, <3>3, <3>4
  <2>. QED
    BY <2>2, <2>3, <2>4 DEF replicated
<1>3. CASE limbo.kind # "flush"
  <2>1. SameChunks /\ refs' = refs
    <3>1. CASE limbo.kind = "compact"
      <4>1. ~limbo.job.shared /\ CompactCold(limbo.job)
        BY <1>1, <3>1 DEF RInv, LostRaw, ApplyLimbo
      <4>. QED
        BY <4>1 DEF CompactCold, CompactRaw, SameChunks
    <3>2. CASE limbo.kind = "offload"
      <4>1. limbo.stream \in Streams
        BY <1>1, <3>2 DEF LostCommand
      <4>2. slot' = [slot EXCEPT ![limbo.stream].external = @ \ limbo.refs] /\ refs' = refs
        BY <1>1, <3>2 DEF ApplyLimbo
      <4>3. Others(limbo.stream) /\ slot'[limbo.stream].chunks = slot[limbo.stream].chunks
        BY <4>1, <4>2, RefsShape
      <4>. QED
        BY <4>2, <4>3 DEF SameChunks, Others
    <3>3. CASE limbo.kind \in {"ack", "defer"}
      BY <1>1, <3>3 DEF ApplyLimbo, SameChunks
    <3>. QED
      BY <1>1, <1>3, <3>1, <3>2, <3>3 DEF LostCommand
  <2>. QED
    BY <1>1, <2>1, CompactorStill, CountsQuiet DEF FlusherLike, LimboLike
<1>. QED
  BY <1>2, <1>3

LEMMA InitCounted == Init => RInv
<1>1. SUFFICES ASSUME Init PROVE RInv
  OBVIOUS
<1>2. \A p : Slicers(p) = {}
  BY <1>1 DEF Init, Slicers, Vacant, PathsOf
<1>3. Counted
  BY <1>1, <1>2, FS_EmptySet DEF Counted, Init
<1>4. OneSlice
  BY <1>1 DEF Init, OneSlice, Vacant
<1>. QED
  BY <1>1, <1>3, <1>4 DEF RInv, Init, PackOpen, SliceOpen, RunThere, LostRaw, NoCommand

LEMMA NextCounted ==
    ASSUME SliceLimits, IInv, RInv, [Next]_vars
    PROVE  RInv'
<1>1. CASE Next
  <2>1. CASE \E s \in Streams : \/ Create(s) \/ AppendInline(s) \/ AppendExternal(s)
                                \/ \E o \in 1 .. MaxRetain : PublishSnapshot(s, o)
    BY <2>1, CommandsCounted
  <2>2. CASE \E s \in Streams : Delete(s) \/ \E o \in 1 .. MaxRetain : AdvanceRetention(s, o)
    BY <2>2, RemovalsCounted
  <2>3. CASE \/ \E s \in Streams : IndexOffload(s) \/ StrandExternal(s)
             \/ RefuseOffload \/ LoseOffload
             \/ PlanGc \/ ReclaimPaths \/ ReclaimObjects \/ ReclaimPages
             \/ AckGc \/ LoseAck \/ AbandonGc \/ FailEntry \/ DiscardLimbo
    BY <2>3, WorkersCounted
  <2>4. CASE PlanExclusive \/ PlanPack \/ IndexFlush \/ PublishFlush \/ RefuseFlush \/ LoseFlush
             \/ AbandonFlush
    BY <2>4, PlansCounted, FlushesCounted, PublishFlushCounted
  <2>5. CASE PlanShared \/ PlanRaw \/ IndexCompaction \/ PublishCompaction
             \/ RefuseCompaction \/ LoseCompaction \/ AbandonCompaction
    BY <2>5, PlanCompactionCounted, IndexCompactionCounted, PublishCompactionCounted
  <2>6. CASE PublishOffload \/ CommitLimbo
    BY <2>6, OffloadCounted, CommitCounted
  <2>. QED
    BY <1>1, <2>1, <2>2, <2>3, <2>4, <2>5, <2>6 DEF Next
<1>2. CASE UNCHANGED vars
  <2>1. UNCHANGED <<slot, refs, flusher, compactor, limbo>>
    BY <1>2 DEF vars, replicated, workers, outcome
  <2>. QED
    BY <2>1, CompactorStill, CountsQuiet DEF FlusherLike, LimboLike, SameChunks
<1>. QED
  BY <1>1, <1>2

(* The count of a pack is the number of live streams with a slice of it,   *)
(* for packs of any width and whatever is refused, lost or deleted, unless *)
(* slices are compacted while retention, a delete or a lost answer can     *)
(* take some of the run (flush_cold, release_shared_cold_objects,          *)
(* remove_shared_chunks).                                                  *)
THEOREM RefsAlwaysCounted ==
    ASSUME SliceLimits
    PROVE  Spec => []RefsCounted
<1>1. IInv /\ RInv /\ [Next]_vars => RInv'
  BY NextCounted
<1>2. IInv /\ RInv => RefsCounted
  <2> SUFFICES ASSUME IInv, RInv PROVE RefsCounted
    OBVIOUS
  <2>1. \A s \in Streams : ~slot[s].live => slot[s].chunks = {}
    BY SlotTyped DEF Vacant
  <2>2. \A p \in Paths : Slicers(p) = {s \in Live : p \in PathsOf(slot[s].chunks)}
    BY <2>1 DEF Slicers, Live, PathsOf
  <2>. QED
    BY <2>2 DEF RInv, Counted, RefsCounted
<1>. QED
  BY <1>1, <1>2, InitCounted, Inductive, PTL DEF Spec

---------------------------------------------------------------------------
(* What the objects are for.                                               *)

(* One stream a pack; no page is written while a lost command is undecided; *)
(* nothing is deleted or trimmed where runs are compacted, and no answer    *)
(* to a compaction of slices is lost; no answer to a flush is lost where    *)
(* chunks are compacted.                                                    *)
Limits ==
    /\ PackWidth <= 1 /\ ~Overtaking
    /\ {"shared", "raw"} \cap Duties # {} =>
         "delete" \notin Duties /\ MaxRetain = 0 /\ "shared" \notin Lossy
    /\ "raw" \in Duties => "flush" \notin Lossy

(* A claim: what the object at a path is to hold.  A slice is of a pack, a *)
(* chunk is exclusive, an external one was staged by the front door.       *)
Claim(kind, gen, start, end, path) ==
    [kind |-> kind, gen |-> gen, start |-> start, end |-> end, path |-> path]

OfRef(kind, gen, r) == Claim(kind, gen, r.start, r.end, r.path)
OfEntry(gen, e) == OfRef(IF e.external THEN "external" ELSE "chunk", gen, e)
OfFlush(c, path, shared) ==
    Claim(IF shared THEN "slice" ELSE "chunk", c.gen, c.start, c.end, path)
OfRun(gen, run, path) == Claim("chunk", gen, First(run), Beyond(run), path)

OfSlot(v) == {OfRef("slice", v.gen, r) : r \in v.chunks}
             \cup {OfRef("external", v.gen, r) : r \in v.external}

(* The pages of a generation, and the page a worker would roll back to. *)
Saved(w, g) == IF w.stage = "indexed" /\ w.gen = g THEN {w.saved} ELSE {}
Views(g) == {pages[g]} \cup Saved(flusher, g) \cup Saved(compactor, g)

SlotClaims == UNION {OfSlot(slot[s]) : s \in Streams}
PageClaims == UNION {{OfEntry(g, e) : e \in UNION Views(g)} : g \in 0 .. MaxGen}
FlusherClaims ==
    IF flusher = Idle THEN {} ELSE {OfFlush(flusher.todo[1], flusher.path, flusher.shared)}
CompactorClaims ==
    IF compactor = Idle THEN {}
    ELSE {OfRun(slot[compactor.stream].gen, compactor.run, compactor.path)}
LimboClaims ==
    IF limbo.kind = "flush" THEN {OfFlush(limbo.candidate, limbo.path, limbo.shared)} ELSE {}
Claims == SlotClaims \cup PageClaims \cup FlusherClaims \cup CompactorClaims \cup LimboClaims

(* An object serves one purpose. *)
OnePurpose == \A a, b \in Claims : a.path = b.path => a = b

(* A byte appended by locator is of no chunk or slice, and of one locator. *)
ExternalApart ==
    \A a, b \in Claims : a.gen = b.gen /\ a.kind = "external" /\ Overlap(a, b) => a = b

HandedOut == \A c \in Claims : c.path \in 1 .. lastPath /\ c.gen \in 1 .. lastGen

InPlace ==
    \A s \in Live : \A c \in Claims : c.gen = slot[s].gen =>
      c.end <= slot[s].tail /\ (c.kind = "external" => Span(c) \cap slot[s].hot = {})

(* A chunk is in the directory of its incarnation. *)
Housed ==
    \A c \in Claims : Stored(c.path) =>
      store[c.path].dir = IF c.kind = "chunk" THEN c.gen ELSE 0

(* What the GC worker will delete, or may once a lost compaction commits. *)
Todo == IF collector = Idle THEN {} ELSE {collector.todo[i] : i \in 1 .. Len(collector.todo)}
Doomed ==
    (UNION {e.paths : e \in Entries(gc) \cup Todo})
    \cup (IF limbo.kind = "compact" THEN PathsOf(limbo.job.run) ELSE {})

(* What a live stream has a claim on at or above its retention is there,   *)
(* and will not be deleted.                                                *)
Held(c) == BytesOf(c.gen, c) \subseteq store[c.path].bytes /\ c.path \notin Doomed
WantedHeld ==
    \A s \in Live : \A c \in Claims :
      c.gen = slot[s].gen /\ c.end > slot[s].retained => Held(c)

TodoDead ==
    \A e \in Todo : /\ e.gen \in 0 .. lastGen /\ ~LiveGen(e.gen)
                    /\ \A p \in e.paths : p <= lastPath

Core ==
    /\ OnePurpose /\ ExternalApart /\ HandedOut /\ InPlace /\ Housed
    /\ WantedHeld /\ TodoDead

(* Slices and the hot buffer share no byte. *)
Laid ==
    \A s \in Streams :
      /\ \A b \in slot[s].hot : b >= slot[s].retained
      /\ \A r \in slot[s].chunks \cup slot[s].external : r.end > slot[s].retained
      /\ \A r \in slot[s].chunks : Span(r) \cap slot[s].hot = {}
      /\ \A r, q \in slot[s].chunks : r # q => ~Overlap(r, q)

(* A path is named other than by the entry a worker wrote. *)
InSlots(p) == \E s \in Streams : \E r \in slot[s].chunks \cup slot[s].external : r.path = p
InPages(w, p) ==
    \E g \in 0 .. MaxGen : ~(w.stage = "indexed" /\ w.gen = g) /\ \E e \in pages[g] : e.path = p
InSaves(p) ==
    \/ flusher.stage = "indexed" /\ \E e \in flusher.saved : e.path = p
    \/ compactor.stage = "indexed" /\ \E e \in compactor.saved : e.path = p
Elsewhere(w, p) == InSlots(p) \/ InPages(w, p) \/ InSaves(p)

(* An upload is named by nothing but the entry its worker wrote. *)
Own ==
    /\ flusher # Idle => ~Elsewhere(flusher, flusher.path)
    /\ compactor # Idle => ~Elsewhere(compactor, compactor.path)
    /\ flusher # Idle /\ compactor # Idle => flusher.path # compactor.path
    /\ limbo.kind = "flush" =>
         /\ flusher # Idle => flusher.path # limbo.path
         /\ compactor # Idle => compactor.path # limbo.path

(* One worker at a time is between its page write and the answer to its    *)
(* proposal, and none while a command that relies on a page is undecided.  *)
Indexing == "indexed" \in {flusher.stage, compactor.stage, offloader.stage}
Turns ==
    /\ ~(flusher.stage = "indexed" /\ compactor.stage = "indexed")
    /\ ~(flusher.stage = "indexed" /\ offloader.stage = "indexed")
    /\ ~(compactor.stage = "indexed" /\ offloader.stage = "indexed")
    /\ limbo.kind \in {"offload", "compact"} => ~Indexing
    /\ limbo.kind = "flush" /\ ~limbo.shared => ~Indexing

FlusherAt ==
    flusher # Idle => /\ Len(flusher.todo) = 1 /\ ~flusher.published
                      /\ FlushDuty \in Duties
                      /\ flusher.stage = "indexed" =>
                           ~flusher.shared /\ flusher.gen = flusher.todo[1].gen

CompactorAt ==
    compactor # Idle =>
      /\ CompactDuty \in Duties /\ slot[compactor.stream].live /\ Contiguous(compactor.run)
      /\ compactor.shared => compactor.run \subseteq slot[compactor.stream].chunks
      /\ compactor.stage = "indexed" => compactor.gen = slot[compactor.stream].gen

LimboAt ==
    /\ limbo.kind = "compact" => ~limbo.job.shared /\ "raw" \in Duties
    /\ limbo.kind = "offload" => Written(limbo.refs)
    /\ limbo.kind = "flush" => limbo.path \in orphans /\ (~limbo.shared => "flush" \in Lossy)

Untrimmed == MaxRetain = 0 => \A s \in Streams : slot[s].retained = 0

Modes ==
    /\ Turns /\ FlusherAt /\ CompactorAt /\ LimboAt /\ Untrimmed
    /\ offloader # Idle => Written(offloader.refs)

(* The entry a page write left is there as long as the incarnation is. *)
Paged(stream, rs) ==
    \A r \in rs \cap slot[stream].external : Entry(r, TRUE) \in pages[slot[stream].gen]

LimboEntry ==
    Entry([start |-> limbo.candidate.start, end |-> limbo.candidate.end, path |-> limbo.path], FALSE)

Indexed ==
    /\ flusher.stage = "indexed" /\ LiveGen(flusher.gen) => FlushEntry \in pages[flusher.gen]
    /\ limbo.kind = "flush" /\ ~limbo.shared /\ LiveGen(limbo.candidate.gen) =>
         LimboEntry \in pages[limbo.candidate.gen]
    /\ compactor.stage = "indexed" =>
         /\ Replacement \in pages[compactor.gen]
         /\ ~compactor.shared => /\ compactor.run \subseteq compactor.saved
                                 /\ compactor.run \cap pages[compactor.gen] = {}
    /\ offloader # Idle => Paged(offloader.stream, offloader.refs)
    /\ limbo.kind = "offload" => Paged(limbo.stream, limbo.refs)

(* An entry that no page write for hot bytes or slices of the stream clips. *)
Robust(e, v) == Span(e) \cap v.hot = {} /\ \A r \in v.chunks : ~Overlap(e, r)

(* Every retained byte is hot, named by a ref, or by such an entry. *)
Covers(P, v) ==
    \A o \in v.retained .. v.tail - 1 :
      \/ o \in v.hot
      \/ \E r \in v.chunks \cup v.external : o \in Span(r)
      \/ \E e \in P : o \in Span(e) /\ Robust(e, v)

Served == \A s \in Live : \A P \in Views(slot[s].gen) : Covers(P, slot[s])

(* A chunk's entry that would be clipped is a worker's own, or of a flush  *)
(* without an answer.                                                      *)
Clear ==
    \A s \in Live : \A e \in UNION Views(slot[s].gen) :
      \/ e.external \/ Robust(e, slot[s])
      \/ flusher.stage = "indexed" /\ e = FlushEntry
      \/ compactor.stage = "indexed" /\ e = Replacement
      \/ e.path \in orphans /\ "raw" \notin Duties

CInv == Core /\ Laid /\ Own /\ Modes /\ Indexed /\ Served /\ Clear

---------------------------------------------------------------------------
(* How the claims may change.                                              *)

LEMMA ClaimParts ==
    ASSUME NEW kind, NEW gen, NEW start, NEW end, NEW path
    PROVE  LET c == Claim(kind, gen, start, end, path) IN
           c.kind = kind /\ c.gen = gen /\ c.start = start /\ c.end = end /\ c.path = path
BY DEF Claim

(* The ranges of two claims or entries are compared by their ends only. *)
Ranged(c) == c.start \in 0 .. MaxTail /\ c.end \in 0 .. MaxTail /\ c.start < c.end

LEMMA EntryRanged == \A e \in Ref \cup PageEntry : Ranged(e) /\ e.path \in Paths
BY RefType DEF Ranged

LEMMA ClaimsTyped ==
    ASSUME IInv
    PROVE  \A c \in Claims : Ranged(c) /\ c.path \in Paths
<1>1. ASSUME NEW c \in SlotClaims PROVE Ranged(c) /\ c.path \in Paths
  <2>1. PICK s \in Streams : c \in OfSlot(slot[s])
    BY <1>1 DEF SlotClaims
  <2>2. PICK r \in slot[s].chunks \cup slot[s].external : c = OfRef(c.kind, slot[s].gen, r)
    BY <2>1 DEF OfSlot, OfRef, Claim
  <2>3. r \in Ref
    BY <2>2, SlotTyped
  <2>. QED
    BY <2>2, <2>3, RefType DEF OfRef, Claim, Ranged
<1>2. ASSUME NEW c \in PageClaims PROVE Ranged(c) /\ c.path \in Paths
  <2>1. PICK g \in 0 .. MaxGen : \E e \in UNION Views(g) : c = OfEntry(g, e)
    BY <1>2 DEF PageClaims
  <2>2. PICK e \in UNION Views(g) : c = OfEntry(g, e)
    BY <2>1
  <2>3. PICK P \in Views(g) : e \in P
    BY <2>2
  <2>4. P \in SUBSET PageEntry
    <3>1. CASE P = pages[g]
      BY <3>1 DEF IInv, ObjectsOK
    <3>2. CASE P \in Saved(flusher, g)
      BY <3>2, FlusherTyped DEF Saved, Idle
    <3>3. CASE P \in Saved(compactor, g)
      BY <3>3, CompactorTyped DEF Saved, Idle
    <3>. QED
      BY <2>3, <3>1, <3>2, <3>3 DEF Views
  <2>. QED
    BY <2>2, <2>3, <2>4, RefType DEF OfEntry, OfRef, Claim, Ranged
<1>3. ASSUME NEW c \in FlusherClaims PROVE Ranged(c) /\ c.path \in Paths
  <2>1. flusher # Idle /\ c = OfFlush(flusher.todo[1], flusher.path, flusher.shared)
    BY <1>3 DEF FlusherClaims
  <2>. QED
    BY <2>1, FlusherTyped DEF OfFlush, Claim, Ranged, Candidate, Plan
<1>4. ASSUME NEW c \in CompactorClaims PROVE Ranged(c) /\ c.path \in Paths
  <2>1. compactor # Idle /\ c = OfRun(slot[compactor.stream].gen, compactor.run, compactor.path)
    BY <1>4 DEF CompactorClaims
  <2>2. compactor.run \in (SUBSET Ref) \cup (SUBSET PageEntry) /\ compactor.run # {} /\ compactor.path \in Paths
    BY <2>1, CompactorTyped
  <2>. QED
    BY <2>1, <2>2, RunBounds DEF OfRun, Claim, Ranged
<1>5. ASSUME NEW c \in LimboClaims PROVE Ranged(c) /\ c.path \in Paths
  <2>1. limbo.kind = "flush" /\ c = OfFlush(limbo.candidate, limbo.path, limbo.shared)
    BY <1>5 DEF LimboClaims
  <2>2. limbo.candidate \in Candidate /\ limbo.path \in Paths
    BY <2>1 DEF IInv, LimboOK, NoCommand, LostCommand
  <2>. QED
    BY <2>1, <2>2 DEF OfFlush, Claim, Ranged, Candidate, Plan
<1>. QED
  BY <1>1, <1>2, <1>3, <1>4, <1>5 DEF Claims

LEMMA DoomedIs ==
    \A p : p \in Doomed <=>
             \/ \E e \in Entries(gc) \cup Todo : p \in e.paths
             \/ limbo.kind = "compact" /\ p \in PathsOf(limbo.job.run)
<1> DEFINE A == UNION {e.paths : e \in Entries(gc) \cup Todo}
           B == IF limbo.kind = "compact" THEN PathsOf(limbo.job.run) ELSE {}
<1>1. \A p : p \in A <=> \E e \in Entries(gc) \cup Todo : p \in e.paths
  BY Zenon
<1>2. \A p : p \in B <=> limbo.kind = "compact" /\ p \in PathsOf(limbo.job.run)
  OBVIOUS
<1>3. Doomed = A \cup B
  BY DEF Doomed
<1> HIDE DEF A, B
<1>. QED
  BY <1>1, <1>2, <1>3

LEMMA DoomedOld ==
    ASSUME IInv, TodoDead
    PROVE  \A p \in Doomed : p \in Paths /\ p <= lastPath
<1>1. ASSUME NEW e \in Entries(gc), NEW p \in e.paths PROVE p \in Paths /\ p <= lastPath
  BY EntriesType DEF IInv, QueueOK
<1>2. ASSUME NEW e \in Todo, NEW p \in e.paths PROVE p \in Paths /\ p <= lastPath
  BY CollectorTyped DEF Todo, TodoDead
<1>3. ASSUME limbo.kind = "compact", NEW p \in PathsOf(limbo.job.run)
      PROVE  p \in Paths /\ p <= lastPath
  <2>1. limbo.job \in Compaction /\ Written(limbo.job.run)
    BY <1>3 DEF IInv, LimboOK, NoCommand, LostCommand
  <2>2. limbo.job.run \in (SUBSET Ref) \cup (SUBSET PageEntry)
    BY <2>1 DEF Compaction
  <2>. QED
    BY <1>3, <2>1, <2>2, RefType DEF PathsOf, Written
<1>. QED
  BY <1>1, <1>2, <1>3, DoomedIs

(* A live stream goes on where it was, or is a new incarnation. *)
Continues ==
    \A s \in Streams : slot'[s].live =>
      \/ slot'[s].gen > lastGen
      \/ /\ slot[s].live /\ slot'[s].gen = slot[s].gen
         /\ slot[s].retained <= slot'[s].retained /\ slot[s].tail <= slot'[s].tail
         /\ \A b \in slot'[s].hot : b \in slot[s].hot \/ b >= slot[s].tail

(* No live stream has a claim on the object after the step. *)
Unneeded(p) ==
    \A s \in Live' : \A c \in Claims' :
      c.path = p /\ c.gen = slot'[s].gen => ~(c.end > slot'[s].retained)

StoreKeeps ==
    \A p \in Paths : \/ store'[p] = store[p] \/ p > lastPath
                     \/ store'[p] = NoObject /\ Unneeded(p)

DoomKeeps == \A p \in Doomed' : p \in Doomed \/ Unneeded(p)

(* A claim on the object the step wrote. *)
Fits(n) ==
    /\ Ranged(n) /\ n.path = lastPath + 1 /\ lastPath' = lastPath + 1 /\ n.gen \in 1 .. lastGen
    /\ \A c \in Claims :
         c.gen = n.gen /\ (c.kind = "external" \/ n.kind = "external") =>
           ~Overlap(c, n) /\ ~Overlap(n, c)
    /\ \A s \in Live' : slot'[s].gen = n.gen =>
         n.end <= slot'[s].tail /\ (n.kind = "external" => Span(n) \cap slot'[s].hot = {})
    /\ store'[n.path].dir = IF n.kind = "chunk" THEN n.gen ELSE 0
    /\ BytesOf(n.gen, n) \subseteq store'[n.path].bytes

LEMMA CoreGrows ==
    ASSUME IInv, IInv', Core, Continues, StoreKeeps, DoomKeeps, TodoDead',
           NEW N, Claims' \subseteq Claims \cup N,
           \A n \in N : Fits(n), \A n, m \in N : n = m,
           lastPath <= lastPath', lastGen <= lastGen'
    PROVE  Core'
<1>1. /\ lastPath \in Nat /\ lastPath' \in Nat /\ lastGen \in Nat /\ lastGen' \in Nat
  BY DEF IInv, CountersOK
<1>2. \A c \in Claims : /\ Ranged(c) /\ c.path \in Paths /\ c.path <= lastPath
                        /\ c.path \in 1 .. lastPath /\ c.gen \in 1 .. lastGen
  BY ClaimsTyped DEF Core, HandedOut
<1>3. \A n \in N : n.path > lastPath /\ n.path \in 1 .. lastPath' /\ n.gen \in 1 .. lastGen'
  BY <1>1 DEF Fits
<1>4. OnePurpose'
  <2>1. SUFFICES ASSUME NEW a \in Claims', NEW b \in Claims', a.path = b.path PROVE a = b
    BY DEF OnePurpose
  <2>2. CASE a \in Claims /\ b \in Claims
    BY <2>1, <2>2 DEF Core, OnePurpose
  <2>3. CASE a \in N /\ b \in N
    BY <2>3
  <2>4. CASE (a \in Claims /\ b \in N) \/ (b \in Claims /\ a \in N)
    BY <1>1, <1>2, <1>3, <2>1, <2>4
  <2>. QED
    BY <2>1, <2>2, <2>3, <2>4
<1>5. ExternalApart'
  <2>1. SUFFICES ASSUME NEW a \in Claims', NEW b \in Claims', a.gen = b.gen, a.kind = "external",
                        Overlap(a, b)
                 PROVE  a = b
    BY DEF ExternalApart
  <2>2. CASE a \in Claims /\ b \in Claims
    BY <2>1, <2>2 DEF Core, ExternalApart
  <2>3. CASE a \in N /\ b \in N
    BY <2>3
  <2>4. CASE (a \in Claims /\ b \in N) \/ (b \in Claims /\ a \in N)
    BY <2>1, <2>4 DEF Fits
  <2>. QED
    BY <2>1, <2>2, <2>3, <2>4
<1>6. HandedOut'
  <2>1. \A c \in Claims : c.path \in 1 .. lastPath' /\ c.gen \in 1 .. lastGen'
    BY <1>1, <1>2
  <2>. QED
    BY <1>3, <2>1 DEF HandedOut
<1>7. ASSUME NEW s \in Live', NEW c \in Claims, c.gen = slot'[s].gen
      PROVE  /\ s \in Live /\ slot[s].gen = c.gen
             /\ slot[s].retained <= slot'[s].retained /\ slot[s].tail <= slot'[s].tail
             /\ \A b \in slot'[s].hot : b \in slot[s].hot \/ b >= slot[s].tail
  <2>1. s \in Streams /\ slot'[s].live /\ ~(slot'[s].gen > lastGen)
    BY <1>1, <1>2, <1>7 DEF Live
  <2>. QED
    BY <1>7, <2>1 DEF Continues, Live
<1>8. \A s \in Streams :
        /\ slot[s].tail \in Nat /\ slot'[s].tail \in Nat /\ slot[s].retained \in Nat
        /\ slot'[s].retained \in Nat /\ slot[s].hot \subseteq Nat /\ slot'[s].hot \subseteq Nat
  <2>1. ASSUME NEW s \in Streams
        PROVE  /\ slot[s].tail \in Nat /\ slot'[s].tail \in Nat /\ slot[s].retained \in Nat
               /\ slot'[s].retained \in Nat /\ slot[s].hot \subseteq Nat /\ slot'[s].hot \subseteq Nat
    <3>1. slot[s] \in Slot /\ slot'[s] \in Slot
      BY DEF IInv, SlotOK
    <3>. QED
      BY <3>1 DEF Slot
  <2>. QED
    BY <2>1
<1>9. InPlace'
  <2>1. SUFFICES ASSUME NEW s \in Live', NEW c \in Claims', c.gen = slot'[s].gen
                 PROVE  /\ c.end <= slot'[s].tail
                        /\ c.kind = "external" => Span(c) \cap slot'[s].hot = {}
    BY DEF InPlace
  <2>2. CASE c \in N
    BY <2>1, <2>2 DEF Fits
  <2>3. CASE c \in Claims
    <3>1. /\ s \in Live /\ slot[s].gen = c.gen /\ slot[s].tail <= slot'[s].tail
          /\ \A b \in slot'[s].hot : b \in slot[s].hot \/ b >= slot[s].tail
      BY <1>7, <2>1, <2>3
    <3>2. c.end <= slot[s].tail /\ (c.kind = "external" => Span(c) \cap slot[s].hot = {})
      BY <2>3, <3>1 DEF Core, InPlace
    <3>3. s \in Streams /\ c.end \in Nat /\ c.start \in Nat
      BY <1>2, <2>3, <3>1 DEF Live, Ranged
    <3>4. c.end <= slot'[s].tail
      BY <1>8, <3>1, <3>2, <3>3
    <3>5. ASSUME c.kind = "external", NEW b \in Span(c), b \in slot'[s].hot PROVE FALSE
      <4>1. b < slot[s].tail /\ b \in Nat
        BY <1>8, <3>2, <3>3, <3>5 DEF Span
      <4>. QED
        BY <1>8, <3>1, <3>2, <3>3, <3>5, <4>1
    <3>. QED
      BY <3>4, <3>5
  <2>. QED
    BY <2>1, <2>2, <2>3
<1>10. NoObject.dir = 0 /\ NoObject.bytes = {}
  BY DEF NoObject
<1>11. Housed'
  <2>1. SUFFICES ASSUME NEW c \in Claims', store'[c.path] # NoObject
                 PROVE  store'[c.path].dir = IF c.kind = "chunk" THEN c.gen ELSE 0
    BY DEF Housed, Stored
  <2>2. CASE c \in N
    BY <2>2 DEF Fits
  <2>3. CASE c \in Claims
    <3>1. store'[c.path] = store[c.path]
      BY <1>1, <1>2, <2>1, <2>3 DEF StoreKeeps, Paths
    <3>. QED
      BY <2>1, <2>3, <3>1 DEF Core, Housed, Stored
  <2>. QED
    BY <2>1, <2>2, <2>3
<1>12. WantedHeld'
  <2>1. SUFFICES ASSUME NEW s \in Live', NEW c \in Claims', c.gen = slot'[s].gen,
                        c.end > slot'[s].retained
                 PROVE  BytesOf(c.gen, c) \subseteq store'[c.path].bytes /\ c.path \notin Doomed'
    BY DEF WantedHeld, Held, BytesOf, Span
  <2>2. ~Unneeded(c.path)
    BY <2>1 DEF Unneeded
  <2>3. CASE c \in N
    <3>1. c.path \notin Doomed
      BY <1>1, <1>3, <2>3, DoomedOld DEF Core, Paths
    <3>. QED
      BY <2>2, <2>3, <3>1 DEF Fits, DoomKeeps
  <2>4. CASE c \in Claims
    <3>1. s \in Live /\ slot[s].gen = c.gen /\ slot[s].retained <= slot'[s].retained
      BY <1>7, <2>1, <2>4
    <3>2. s \in Streams /\ c.end \in Nat
      BY <1>2, <2>4, <3>1 DEF Live, Ranged
    <3>3. c.end > slot[s].retained
      BY <1>8, <2>1, <3>1, <3>2
    <3>4. Held(c)
      BY <2>4, <3>1, <3>3 DEF Core, WantedHeld
    <3>5. store'[c.path] = store[c.path]
      BY <1>1, <1>2, <2>2, <2>4 DEF StoreKeeps, Paths
    <3>. QED
      BY <2>2, <3>4, <3>5 DEF Held, DoomKeeps
  <2>. QED
    BY <2>1, <2>3, <2>4
<1>. QED
  BY <1>4, <1>5, <1>6, <1>9, <1>11, <1>12 DEF Core

LEMMA CoreKeeps ==
    ASSUME IInv, IInv', Core, Continues, StoreKeeps, DoomKeeps, TodoDead', Claims' \subseteq Claims,
           lastPath <= lastPath', lastGen <= lastGen'
    PROVE  Core'
<1>1. PICK N : N = {}
  OBVIOUS
<1>2. Claims' \subseteq Claims \cup N /\ (\A n \in N : Fits(n)) /\ (\A n, m \in N : n = m)
  BY <1>1
<1>. QED
  BY <1>2, CoreGrows

---------------------------------------------------------------------------
(* What has a claim.                                                       *)

LEMMA ClaimFields ==
    /\ \A kind, gen, r :
         LET c == OfRef(kind, gen, r) IN
         c.kind = kind /\ c.gen = gen /\ c.start = r.start /\ c.end = r.end /\ c.path = r.path
    /\ \A gen, e :
         LET c == OfEntry(gen, e) IN
         /\ c.kind = IF e.external THEN "external" ELSE "chunk"
         /\ c.gen = gen /\ c.start = e.start /\ c.end = e.end /\ c.path = e.path
    /\ \A f, path, shared :
         LET c == OfFlush(f, path, shared) IN
         /\ c.kind = IF shared THEN "slice" ELSE "chunk"
         /\ c.gen = f.gen /\ c.start = f.start /\ c.end = f.end /\ c.path = path
    /\ \A gen, run, path :
         LET c == OfRun(gen, run, path) IN
         c.kind = "chunk" /\ c.gen = gen /\ c.start = First(run) /\ c.end = Beyond(run) /\ c.path = path
BY DEF OfRef, OfEntry, OfFlush, OfRun, Claim

LEMMA EntryFields ==
    \A r, x : LET e == Entry(r, x) IN
              e.start = r.start /\ e.end = r.end /\ e.path = r.path /\ e.external = x
BY DEF Entry

(* A page entry has the claim of the ref, the flush or the run it is of. *)
LEMMA EntryClaims ==
    /\ \A g, r : OfEntry(g, Entry(r, TRUE)) = OfRef("external", g, r)
    /\ \A f, path : OfEntry(f.gen, Entry([start |-> f.start, end |-> f.end, path |-> path], FALSE))
                      = OfFlush(f, path, FALSE)
    /\ \A f, path : OfRef("slice", f.gen, [start |-> f.start, end |-> f.end, path |-> path])
                      = OfFlush(f, path, TRUE)
    /\ \A g, run, path :
         OfEntry(g, Entry([start |-> First(run), end |-> Beyond(run), path |-> path], FALSE))
           = OfRun(g, run, path)
BY DEF OfRef, OfEntry, OfFlush, OfRun, Claim, Entry

LEMMA EntryOf ==
    /\ \A e, f \in PageEntry :
         /\ e.external \in BOOLEAN
         /\ e.start = f.start /\ e.end = f.end /\ e.path = f.path /\ e.external = f.external => e = f
    /\ \A r, q \in Ref : r.start = q.start /\ r.end = q.end /\ r.path = q.path => r = q
<1>1. ASSUME NEW e \in PageEntry, NEW f \in PageEntry
      PROVE  /\ e.external \in BOOLEAN
             /\ e.start = f.start /\ e.end = f.end /\ e.path = f.path /\ e.external = f.external => e = f
  BY DEF PageEntry, Entry
<1>2. ASSUME NEW r \in Ref, NEW q \in Ref, r.start = q.start, r.end = q.end, r.path = q.path
      PROVE  r = q
  BY <1>2 DEF Ref
<1>. QED
  BY <1>1, <1>2

LEMMA OneEntry ==
    ASSUME NEW e \in PageEntry, NEW f \in PageEntry, NEW g, NEW h, OfEntry(g, e) = OfEntry(h, f)
    PROVE  g = h /\ e = f
<1>1. /\ g = h /\ e.start = f.start /\ e.end = f.end /\ e.path = f.path
      /\ (IF e.external THEN "external" ELSE "chunk") = IF f.external THEN "external" ELSE "chunk"
  BY ClaimFields
<1>2. e.external = f.external
  BY <1>1, EntryOf
<1>. QED
  BY <1>1, <1>2, EntryOf

LEMMA OneRef ==
    ASSUME NEW r \in Ref, NEW q \in Ref, NEW k, NEW l, NEW g, NEW h, OfRef(k, g, r) = OfRef(l, h, q)
    PROVE  k = l /\ g = h /\ r = q
<1>1. k = l /\ g = h /\ r.start = q.start /\ r.end = q.end /\ r.path = q.path
  BY ClaimFields
<1>. QED
  BY <1>1, EntryOf

LEMMA ViewsAre ==
    \A g, e : e \in UNION Views(g) <=>
                \/ e \in pages[g]
                \/ flusher.stage = "indexed" /\ flusher.gen = g /\ e \in flusher.saved
                \/ compactor.stage = "indexed" /\ compactor.gen = g /\ e \in compactor.saved
<1> SUFFICES ASSUME NEW g, NEW e
             PROVE  e \in UNION Views(g) <=>
                \/ e \in pages[g]
                \/ flusher.stage = "indexed" /\ flusher.gen = g /\ e \in flusher.saved
                \/ compactor.stage = "indexed" /\ compactor.gen = g /\ e \in compactor.saved
  OBVIOUS
<1>1. e \in UNION Views(g) <=> \E P \in Views(g) : e \in P
  OBVIOUS
<1>2. \A P : P \in Views(g) <=> P = pages[g] \/ P \in Saved(flusher, g) \/ P \in Saved(compactor, g)
  BY DEF Views
<1>3. \A w, P : P \in Saved(w, g) <=> w.stage = "indexed" /\ w.gen = g /\ P = w.saved
  BY DEF Saved
<1>. QED
  BY <1>1, <1>2, <1>3

(* Everything with a claim. *)
LEMMA ClaimIs ==
    ASSUME IInv
    PROVE  /\ \A s \in Streams : \A r \in slot[s].chunks : OfRef("slice", slot[s].gen, r) \in Claims
           /\ \A s \in Streams : \A r \in slot[s].external : OfRef("external", slot[s].gen, r) \in Claims
           /\ \A g \in 0 .. MaxGen : \A e \in pages[g] : OfEntry(g, e) \in Claims
           /\ flusher.stage = "indexed" => \A e \in flusher.saved : OfEntry(flusher.gen, e) \in Claims
           /\ compactor.stage = "indexed" =>
                \A e \in compactor.saved : OfEntry(compactor.gen, e) \in Claims
           /\ flusher # Idle => OfFlush(flusher.todo[1], flusher.path, flusher.shared) \in Claims
           /\ compactor # Idle =>
                OfRun(slot[compactor.stream].gen, compactor.run, compactor.path) \in Claims
           /\ limbo.kind = "flush" => OfFlush(limbo.candidate, limbo.path, limbo.shared) \in Claims
<1>1. \A s \in Streams : OfSlot(slot[s]) \subseteq Claims
  BY DEF SlotClaims, Claims
<1>2. /\ \A s \in Streams : \A r \in slot[s].chunks : OfRef("slice", slot[s].gen, r) \in Claims
      /\ \A s \in Streams : \A r \in slot[s].external : OfRef("external", slot[s].gen, r) \in Claims
  BY <1>1 DEF OfSlot
<1>3. \A g \in 0 .. MaxGen : \A e \in UNION Views(g) : OfEntry(g, e) \in Claims
  BY DEF PageClaims, Claims
<1>4. \A g \in 0 .. MaxGen : \A e \in pages[g] : OfEntry(g, e) \in Claims
  BY <1>3, ViewsAre
<1>5. flusher.stage = "indexed" => \A e \in flusher.saved : OfEntry(flusher.gen, e) \in Claims
  <2>1. flusher.stage = "indexed" => flusher.gen \in 0 .. MaxGen
    BY FlusherTyped DEF Idle
  <2>. QED
    BY <1>3, <2>1, ViewsAre
<1>6. compactor.stage = "indexed" => \A e \in compactor.saved : OfEntry(compactor.gen, e) \in Claims
  <2>1. compactor.stage = "indexed" => compactor.gen \in 0 .. MaxGen
    BY CompactorTyped DEF Idle
  <2>. QED
    BY <1>3, <2>1, ViewsAre
<1>7. flusher # Idle => OfFlush(flusher.todo[1], flusher.path, flusher.shared) \in Claims
  BY DEF FlusherClaims, Claims
<1>8. compactor # Idle => OfRun(slot[compactor.stream].gen, compactor.run, compactor.path) \in Claims
  BY DEF CompactorClaims, Claims
<1>9. limbo.kind = "flush" => OfFlush(limbo.candidate, limbo.path, limbo.shared) \in Claims
  BY DEF LimboClaims, Claims
<1>. QED
  BY <1>2, <1>4, <1>5, <1>6, <1>7, <1>8, <1>9

(* The claims after a step. *)
LEMMA ClaimsFrom ==
    ASSUME NEW S,
           \A s \in Streams : \A r \in slot'[s].chunks : OfRef("slice", slot'[s].gen, r) \in S,
           \A s \in Streams : \A r \in slot'[s].external : OfRef("external", slot'[s].gen, r) \in S,
           \A g \in 0 .. MaxGen : \A e \in pages'[g] : OfEntry(g, e) \in S,
           flusher'.stage = "indexed" => \A e \in flusher'.saved : OfEntry(flusher'.gen, e) \in S,
           compactor'.stage = "indexed" => \A e \in compactor'.saved : OfEntry(compactor'.gen, e) \in S,
           flusher' # Idle => OfFlush(flusher'.todo[1], flusher'.path, flusher'.shared) \in S,
           compactor' # Idle =>
             OfRun(slot'[compactor'.stream].gen, compactor'.run, compactor'.path) \in S,
           limbo'.kind = "flush" => OfFlush(limbo'.candidate, limbo'.path, limbo'.shared) \in S
    PROVE  Claims' \subseteq S
<1>1. SlotClaims' \subseteq S
  <2>1. \A s \in Streams : OfSlot(slot'[s]) \subseteq S
    BY DEF OfSlot
  <2>. QED
    BY <2>1 DEF SlotClaims
<1>2. PageClaims' \subseteq S
  <2>1. ASSUME NEW g \in 0 .. MaxGen, NEW P \in Views(g)', NEW e \in P PROVE OfEntry(g, e) \in S
    <3>1. CASE P = pages'[g]
      BY <2>1, <3>1
    <3>2. CASE P \in Saved(flusher, g)'
      BY <2>1, <3>2 DEF Saved
    <3>3. CASE P \in Saved(compactor, g)'
      BY <2>1, <3>3 DEF Saved
    <3>. QED
      BY <2>1, <3>1, <3>2, <3>3 DEF Views
  <2>2. \A g \in 0 .. MaxGen : \A e \in UNION Views(g)' : OfEntry(g, e) \in S
    BY <2>1
  <2>. QED
    BY <2>2 DEF PageClaims, OfEntry, OfRef, Claim
<1>3. FlusherClaims' \subseteq S
  BY DEF FlusherClaims, OfFlush, Claim, Idle
<1>4. CompactorClaims' \subseteq S
  BY DEF CompactorClaims, OfRun, Claim, Idle
<1>5. LimboClaims' \subseteq S
  BY DEF LimboClaims, OfFlush, Claim
<1>. QED
  BY <1>1, <1>2, <1>3, <1>4, <1>5 DEF Claims

LEMMA StageIs ==
    /\ flusher.stage = "indexed" => flusher # Idle
    /\ compactor.stage = "indexed" => compactor # Idle
    /\ offloader.stage = "indexed" => offloader # Idle
BY DEF Idle

LEMMA PageTyped ==
    ASSUME IInv
    PROVE  \A g \in 0 .. MaxGen : pages[g] \subseteq PageEntry
BY DEF IInv, ObjectsOK

LEMMA LiveTyped ==
    ASSUME IInv
    PROVE  \A s \in Live : s \in Streams /\ slot[s].live /\ slot[s].gen \in 0 .. MaxGen
                           /\ slot[s].gen \in 1 .. lastGen /\ LiveGen(slot[s].gen)
BY SlotTyped DEF Live, LiveGen

LEMMA OneLive ==
    ASSUME IInv
    PROVE  \A s, t \in Live : slot[s].gen = slot[t].gen => s = t
BY DEF IInv, SlotOK

LEMMA StillContinues ==
    ASSUME IInv, slot' = slot
    PROVE  Continues
<1>1. \A s \in Streams : slot[s].retained \in Nat /\ slot[s].tail \in Nat
  BY SlotTyped
<1>. QED
  BY <1>1 DEF Continues

LEMMA DeadStays ==
    ASSUME IInv, Continues, NEW g \in 0 .. lastGen, ~LiveGen(g)
    PROVE  ~LiveGen(g)'
<1>1. lastGen \in Nat /\ \A s \in Streams : slot'[s].gen > lastGen => slot'[s].gen # g
  BY DEF IInv, CountersOK
<1>. QED
  BY <1>1 DEF Continues, LiveGen, Live

LEMMA TodoStays ==
    ASSUME IInv, IInv', TodoDead, Continues, Todo' \subseteq Todo, lastPath <= lastPath',
           lastGen <= lastGen'
    PROVE  TodoDead'
<1>1. SUFFICES ASSUME NEW e \in Todo
               PROVE  e.gen \in 0 .. lastGen' /\ ~LiveGen(e.gen)' /\ \A p \in e.paths : p <= lastPath'
  BY DEF TodoDead
<1>2. e.gen \in 0 .. lastGen /\ ~LiveGen(e.gen) /\ \A p \in e.paths : p <= lastPath
  BY DEF TodoDead
<1>3. e.paths \subseteq Paths
  BY CollectorTyped DEF Todo
<1>4. lastPath \in Nat /\ lastPath' \in Nat /\ lastGen \in Nat /\ lastGen' \in Nat
  BY DEF IInv, CountersOK
<1>. QED
  BY <1>2, <1>3, <1>4, DeadStays DEF Paths

LEMMA DoomedNext ==
    \A p : p \in Doomed' <=>
             \/ \E e \in Entries(gc') \cup Todo' : p \in e.paths
             \/ limbo'.kind = "compact" /\ p \in PathsOf(limbo'.job.run)
<1> DEFINE A == UNION {e.paths : e \in Entries(gc') \cup Todo'}
           B == IF limbo'.kind = "compact" THEN PathsOf(limbo'.job.run) ELSE {}
<1>1. \A p : p \in A <=> \E e \in Entries(gc') \cup Todo' : p \in e.paths
  BY Zenon
<1>2. \A p : p \in B <=> limbo'.kind = "compact" /\ p \in PathsOf(limbo'.job.run)
  OBVIOUS
<1>3. Doomed' = A \cup B
  BY DEF Doomed, PathsOf, Entries
<1> HIDE DEF A, B
<1>. QED
  BY <1>1, <1>2, <1>3

LEMMA DoomStays ==
    ASSUME UNCHANGED <<gc, collector>>, limbo' = limbo \/ limbo'.kind # "compact"
    PROVE  DoomKeeps /\ Todo' = Todo
<1>1. Todo' = Todo
  BY DEF Todo
<1>. QED
  BY <1>1, DoomedIs, DoomedNext DEF DoomKeeps

LEMMA StoreStays ==
    ASSUME store' = store
    PROVE  StoreKeeps
BY DEF StoreKeeps

---------------------------------------------------------------------------
(* The GC worker, and lost commands that are discarded.                    *)

GcQuiet ==
    /\ UNCHANGED <<slot, lastGen, lastPath, orphans>>
    /\ UNCHANGED <<flusher, compactor, offloader>>
    /\ \A g \in 0 .. MaxGen : pages'[g] = pages[g] \/ (pages'[g] = {} /\ ~LiveGen(g))
    /\ limbo' = limbo \/ limbo'.kind \in {"none", "ack", "defer"}

LEMMA GcClaims ==
    ASSUME IInv, GcQuiet
    PROVE  Claims' \subseteq Claims
<1>1. \A g \in 0 .. MaxGen : \A e \in pages'[g] : e \in pages[g]
  BY DEF GcQuiet
<1>2. flusher' = flusher /\ compactor' = compactor /\ slot' = slot
  BY DEF GcQuiet
<1>3. limbo'.kind = "flush" => limbo' = limbo
  BY DEF GcQuiet
<1>. QED
  BY <1>1, <1>2, <1>3, ClaimIs, ClaimsFrom

LEMMA GcRest ==
    ASSUME IInv, CInv, GcQuiet
    PROVE  Laid' /\ Own' /\ Modes' /\ Indexed' /\ Served' /\ Clear'
<1>1. flusher' = flusher /\ compactor' = compactor /\ offloader' = offloader /\ slot' = slot
      /\ lastPath' = lastPath /\ orphans' = orphans
  BY DEF GcQuiet
<1>2. \A g \in 0 .. MaxGen : pages'[g] = pages[g] \/ (pages'[g] = {} /\ ~LiveGen(g))
  BY DEF GcQuiet
<1>3. limbo' = limbo \/ limbo'.kind \in {"none", "ack", "defer"}
  BY DEF GcQuiet
<1>4. Laid'
  BY <1>1 DEF CInv, Laid
<1>5. Own'
  <2>2. limbo'.kind = "flush" => limbo' = limbo
    BY <1>3
  <2>3. flusher # Idle => ~Elsewhere(flusher, flusher.path)'
    BY <1>1, <1>2 DEF CInv, Own, Elsewhere, InSlots, InPages, InSaves
  <2>4. compactor # Idle => ~Elsewhere(compactor, compactor.path)'
    BY <1>1, <1>2 DEF CInv, Own, Elsewhere, InSlots, InPages, InSaves
  <2>. QED
    BY <1>1, <2>2, <2>3, <2>4 DEF CInv, Own
<1>6. Modes'
  <2>1. Turns'
    BY <1>1, <1>3 DEF CInv, Modes, Turns, Indexing
  <2>2. FlusherAt' /\ CompactorAt'
    BY <1>1 DEF CInv, Modes, FlusherAt, CompactorAt, FlushDuty, CompactDuty, Contiguous, Covered, First, Beyond, Span
  <2>3. LimboAt' /\ Untrimmed' /\ (offloader' # Idle => Written(offloader.refs)')
    BY <1>1, <1>3 DEF CInv, Modes, LimboAt, Untrimmed, Written
  <2>. QED
    BY <1>1, <2>1, <2>2, <2>3 DEF Modes, Written
<1>7. \A g \in 0 .. MaxGen : LiveGen(g) => pages'[g] = pages[g]
  BY <1>2
<1>9. Indexed'
  <2>1. flusher'.stage = "indexed" /\ LiveGen(flusher.gen)' => FlushEntry' \in pages'[flusher'.gen]
    <3>1. FlushEntry' = FlushEntry
      BY <1>1 DEF FlushEntry
    <3>2. flusher.stage = "indexed" => flusher.gen \in 0 .. MaxGen
      BY StageIs, FlusherTyped
    <3>. QED
      BY <1>1, <1>7, <3>1, <3>2 DEF CInv, Indexed, LiveGen, Live
  <2>2. limbo'.kind = "flush" /\ ~limbo'.shared /\ LiveGen(limbo.candidate.gen)' =>
          LimboEntry' \in pages'[limbo'.candidate.gen]
    <3>1. SUFFICES ASSUME limbo' = limbo, limbo.kind = "flush", ~limbo.shared,
                          LiveGen(limbo.candidate.gen)
                   PROVE  LimboEntry' \in pages'[limbo.candidate.gen]
      BY <1>1, <1>3 DEF LiveGen, Live
    <3>2. LimboEntry' = LimboEntry
      BY <3>1 DEF LimboEntry
    <3>3. limbo.candidate.gen \in 0 .. MaxGen
      BY <3>1 DEF IInv, LimboOK, NoCommand, LostCommand, Candidate, Plan
    <3>. QED
      BY <1>7, <3>1, <3>2, <3>3 DEF CInv, Indexed
  <2>3. compactor'.stage = "indexed" =>
         /\ Replacement' \in pages'[compactor'.gen]
         /\ ~compactor'.shared => /\ compactor'.run \subseteq compactor'.saved
                                  /\ compactor'.run \cap pages'[compactor'.gen] = {}
    <3>1. Replacement' = Replacement
      BY <1>1 DEF Replacement, First, Beyond
    <3>2. compactor.stage = "indexed" => compactor.gen \in 0 .. MaxGen /\ LiveGen(compactor.gen)
      BY StageIs, CompactorTyped DEF CInv, Modes, CompactorAt, LiveGen, Live
    <3>. QED
      BY <1>1, <1>7, <3>1, <3>2 DEF CInv, Indexed
  <2>4. \A s \in Streams : \A rs : Paged(s, rs) => Paged(s, rs)'
    <3>1. \A s \in Streams : slot[s].external # {} => slot[s].gen \in 0 .. MaxGen /\ LiveGen(slot[s].gen)
      BY SlotTyped DEF LiveGen, Live, Vacant
    <3>. QED
      BY <1>1, <1>7, <3>1 DEF Paged
  <2>5. /\ offloader # Idle => offloader.stream \in Streams
        /\ limbo.kind = "offload" => limbo.stream \in Streams
    BY DEF IInv, OffloaderOK, Offload, LimboOK, LostCommand, NoCommand
  <2>6. /\ offloader' # Idle => Paged(offloader.stream, offloader.refs)'
        /\ limbo'.kind = "offload" => Paged(limbo.stream, limbo.refs)'
    BY <1>1, <1>3, <2>4, <2>5 DEF CInv, Indexed, Paged
  <2>. QED
    BY <2>1, <2>2, <2>3, <2>6 DEF Indexed
<1>10. \A s \in Live : Views(slot[s].gen)' = Views(slot[s].gen)
  BY <1>1, <1>7, LiveTyped DEF Views, Saved
<1>11. Live' = Live
  BY <1>1 DEF Live
<1>12. Served'
  BY <1>1, <1>10, <1>11 DEF CInv, Served, Views
<1>13. Clear'
  <2>1. FlushEntry' = FlushEntry /\ Replacement' = Replacement
    BY <1>1 DEF FlushEntry, Replacement, First, Beyond
  <2>. QED
    BY <1>1, <1>10, <1>11, <2>1 DEF CInv, Clear, Views
<1>. QED
  BY <1>4, <1>5, <1>6, <1>9, <1>12, <1>13

LEMMA GcKeeps ==
    ASSUME IInv, IInv', CInv, GcQuiet, StoreKeeps, DoomKeeps, TodoDead'
    PROVE  CInv'
<1>1. Claims' \subseteq Claims
  BY GcClaims
<1>2. slot' = slot /\ lastPath <= lastPath' /\ lastGen <= lastGen'
  BY DEF GcQuiet, IInv, CountersOK
<1>3. Continues
  BY <1>2, StillContinues
<1>4. Core'
  BY <1>1, <1>2, <1>3, CoreKeeps DEF CInv
<1>. QED
  BY <1>4, GcRest DEF CInv

LEMMA DoomShrinks ==
    ASSUME \A e \in Entries(gc') \cup Todo' : \E f \in Entries(gc) \cup Todo : e.paths \subseteq f.paths,
           limbo' = limbo \/ limbo'.kind # "compact"
    PROVE  DoomKeeps
BY DoomedIs, DoomedNext DEF DoomKeeps

LEMMA TodoShrinks ==
    ASSUME IInv, collector # Idle, collector' = Idle \/ collector'.todo = <<>>
                                   \/ collector'.todo = collector.todo
                                   \/ (collector.todo # <<>> /\ collector'.todo = Tail(collector.todo))
    PROVE  Todo' \subseteq Todo
<1>1. SUFFICES ASSUME collector' # Idle PROVE Todo' \subseteq Todo
  BY DEF Todo
<1>2. collector.todo \in Seq(GcEntry) /\ Len(collector.todo) \in Nat
  BY CollectorTyped
<1>3. CASE collector'.todo = <<>>
  BY <1>3 DEF Todo
<1>4. CASE collector'.todo = collector.todo
  BY <1>1, <1>4 DEF Todo
<1>5. CASE collector.todo # <<>> /\ collector'.todo = Tail(collector.todo)
  <2>1. /\ Len(collector'.todo) = Len(collector.todo) - 1
        /\ \A i \in 1 .. Len(collector.todo) - 1 : collector'.todo[i] = collector.todo[i + 1]
    BY <1>2, <1>5
  <2>2. \A i \in 1 .. Len(collector.todo) - 1 : i + 1 \in 1 .. Len(collector.todo)
    BY <1>2
  <2>. QED
    BY <1>1, <2>1, <2>2 DEF Todo
<1>. QED
  BY <1>1, <1>3, <1>4, <1>5

(* What is doomed no live stream has a claim on. *)
LEMMA DoomedUnneeded ==
    ASSUME IInv, CInv, GcQuiet
    PROVE  \A p \in Doomed : Unneeded(p)
<1>1. Claims' \subseteq Claims /\ slot' = slot /\ Live' = Live
  BY GcClaims DEF GcQuiet, Live
<1>2. \A s \in Live : \A c \in Claims :
        c.gen = slot[s].gen /\ c.end > slot[s].retained => c.path \notin Doomed
  BY DEF CInv, Core, WantedHeld, Held
<1>. QED
  BY <1>1, <1>2 DEF Unneeded

(* Nor on the objects of a removed incarnation. *)
LEMMA DeadUnneeded ==
    ASSUME IInv, CInv, GcQuiet, NEW g \in 1 .. MaxGen, ~LiveGen(g)
    PROVE  \A p \in IncarnationObjects(g) : Unneeded(p)
<1>1. Claims' \subseteq Claims /\ slot' = slot /\ Live' = Live
  BY GcClaims DEF GcQuiet, Live
<1>2. SUFFICES ASSUME NEW p \in IncarnationObjects(g), NEW c \in Claims, c.path = p PROVE c.gen = g
  BY <1>1 DEF Unneeded, LiveGen
<1>3. CASE \E e \in pages[g] : e.external /\ e.path = p
  <2>1. PICK e \in pages[g] : e.external /\ e.path = p
    BY <1>3
  <2>2. OfEntry(g, e) \in Claims
    BY <2>1, ClaimIs
  <2>. QED
    BY <1>2, <2>1, <2>2, ClaimFields DEF CInv, Core, OnePurpose
<1>4. CASE p \in Paths /\ store[p].dir = g
  <2>1. Stored(p)
    BY <1>4 DEF Stored, NoObject
  <2>. QED
    BY <1>2, <1>4, <2>1 DEF CInv, Core, Housed
<1>. QED
  BY <1>2, <1>3, <1>4 DEF IncarnationObjects, PathsOf

LEMMA DeleteKeeps ==
    ASSUME IInv, NEW objects, store' = Without(objects), \A p \in objects : Unneeded(p)
    PROVE  StoreKeeps
BY DEF StoreKeeps, Without

(* The entry a pass works on may be reclaimed. *)
LEMMA FirstUnneeded ==
    ASSUME IInv, CInv, GcQuiet, collector # Idle, collector.todo # <<>>
    PROVE  LET e == collector.todo[1] IN
           /\ \A p \in e.paths : Unneeded(p)
           /\ e.gen # 0 => /\ e.gen \in 1 .. MaxGen /\ ~LiveGen(e.gen)
                           /\ \A p \in IncarnationObjects(e.gen) : Unneeded(p)
<1> DEFINE e == collector.todo[1]
<1>1. 1 \in 1 .. Len(collector.todo)
  BY CollectorTyped
<1>2. e \in Todo /\ e.gen \in 0 .. MaxGen
  BY <1>1, CollectorTyped DEF Todo
<1> HIDE DEF e
<1>3. \A p \in e.paths : p \in Doomed
  BY <1>2, DoomedIs
<1>4. ~LiveGen(e.gen)
  BY <1>2 DEF CInv, Core, TodoDead
<1>5. e.gen # 0 => e.gen \in 1 .. MaxGen
  BY <1>2, ColdConstants
<1>. QED
  BY <1>3, <1>4, <1>5, DoomedUnneeded, DeadUnneeded DEF e

LEMMA PlanGcSafe ==
    ASSUME IInv, IInv', CInv, PlanGc
    PROVE  CInv'
<1>1. /\ UNCHANGED <<slot, refs, gc, lastGen, store, pages, lastPath>>
      /\ UNCHANGED <<flusher, compactor, offloader, limbo, orphans>>
      /\ collector' # Idle
      /\ collector'.todo = SubSeq(gc.pending, 1, Min({GcBatch, Len(gc.pending)}))
  BY DEF PlanGc, replicated, outcome, Idle
<1>2. GcQuiet
  BY <1>1 DEF GcQuiet
<1>3. \A e \in Todo' : e \in Entries(gc)
  <2>1. gc.pending \in Seq(GcEntry) /\ Len(gc.pending) \in Nat
    BY EntriesType DEF IInv, QueueOK
  <2>2. Min({GcBatch, Len(gc.pending)}) \in Nat /\ Min({GcBatch, Len(gc.pending)}) <= Len(gc.pending)
    <3>1. {GcBatch, Len(gc.pending)} \in SUBSET Nat
      BY <2>1, ColdConstants
    <3>. QED
      BY <3>1, MinType
  <2> DEFINE m == Min({GcBatch, Len(gc.pending)})
             todo == SubSeq(gc.pending, 1, m)
  <2>3. m \in Nat /\ m <= Len(gc.pending) /\ collector'.todo = todo
    BY <1>1, <2>2
  <2> HIDE DEF m
  <2>4. Len(todo) = m /\ \A i \in 1 .. m : todo[i] = gc.pending[i] /\ i \in 1 .. Len(gc.pending)
    BY <2>1, <2>3
  <2> HIDE DEF todo
  <2>. QED
    BY <1>1, <2>3, <2>4 DEF Todo, Entries
<1>4. DoomKeeps
  <2>1. Entries(gc') = Entries(gc)
    BY <1>1
  <2>. QED
    BY <1>1, <1>3, <2>1, DoomShrinks
<1>5. TodoDead'
  <2>1. ASSUME NEW e \in Entries(gc)
        PROVE  e.gen \in 0 .. lastGen' /\ ~LiveGen(e.gen)' /\ \A p \in e.paths : p <= lastPath'
    <3>1. e.gen \in Nat /\ lastGen \in Nat
      BY EntriesType, ColdConstants DEF IInv, QueueOK, CountersOK
    <3>2. e.gen <= lastGen /\ ~LiveGen(e.gen) /\ \A p \in e.paths : p <= lastPath
      BY DEF IInv, QueueOK
    <3>. QED
      BY <1>1, <3>1, <3>2 DEF LiveGen, Live
  <2>. QED
    BY <1>3, <2>1 DEF TodoDead
<1>. QED
  BY <1>1, <1>2, <1>4, <1>5, StoreStays, GcKeeps

(* A step of the pass. *)
LEMMA PassKeeps ==
    ASSUME IInv, IInv', CInv, GcQuiet, StoreKeeps, Todo' \subseteq Todo,
           \A e \in Entries(gc') : \E f \in Entries(gc) : SameTarget(e, f)
    PROVE  CInv'
<1>1. DoomKeeps
  <2>1. limbo' = limbo \/ limbo'.kind # "compact"
    BY DEF GcQuiet
  <2>. QED
    BY <2>1, DoomShrinks DEF SameTarget
<1>2. TodoDead'
  <2>1. slot' = slot /\ lastPath <= lastPath' /\ lastGen <= lastGen'
    BY DEF GcQuiet, IInv, CountersOK
  <2>. QED
    BY <2>1, StillContinues, TodoStays DEF CInv, Core
<1>. QED
  BY <1>1, <1>2, GcKeeps

LEMMA SameQueue ==
    ASSUME gc' = gc
    PROVE  \A e \in Entries(gc') : \E f \in Entries(gc) : SameTarget(e, f)
BY DEF SameTarget

LEMMA ReclaimSafe ==
    ASSUME IInv, IInv', CInv, ReclaimPaths \/ ReclaimObjects \/ ReclaimPages
    PROVE  CInv'
<1> DEFINE e == collector.todo[1]
<1>1. /\ UNCHANGED <<slot, refs, gc, lastGen, lastPath>>
      /\ UNCHANGED <<flusher, compactor, offloader, limbo, orphans>>
      /\ collector.todo # <<>>
  BY DEF ReclaimPaths, ReclaimObjects, ReclaimPages, Collecting, replicated, outcome
<1>2. collector # Idle
  BY DEF ReclaimPaths, ReclaimObjects, ReclaimPages, Collecting, Idle
<1>3. Reclaimed.todo = Tail(collector.todo)
  BY <1>2, ReclaimedIs
<1>4. Todo' \subseteq Todo
  <2>1. collector' = Reclaimed \/ collector'.todo = collector.todo
    <3>1. collector \in Collection
      BY <1>2, CollectorTyped
    <3>2. [collector EXCEPT !.stage = "pages"].todo = collector.todo
      BY <3>1 DEF Collection
    <3>. QED
      BY <3>2 DEF ReclaimPaths, ReclaimObjects, ReclaimPages
  <2>. QED
    BY <1>1, <1>2, <1>3, <2>1, TodoShrinks
<1>5. GcQuiet
  <2>1. pages' = pages \/ (~LiveGen(e.gen) /\ pages' = [pages EXCEPT ![e.gen] = {}])
    BY DEF ReclaimPaths, ReclaimObjects, ReclaimPages
  <2>2. \A g \in 0 .. MaxGen : pages'[g] = pages[g] \/ (pages'[g] = {} /\ ~LiveGen(g))
    <3>1. pages \in [0 .. MaxGen -> SUBSET PageEntry]
      BY DEF IInv, ObjectsOK
    <3> HIDE DEF e
    <3>. QED
      BY <2>1, <3>1
  <2>. QED
    BY <1>1, <2>2 DEF GcQuiet
<1>6. StoreKeeps
  <2>1. CASE ReclaimPaths
    <3>1. store' = Without(e.paths) /\ \A p \in e.paths : Unneeded(p)
      BY <1>1, <1>2, <1>5, <2>1, FirstUnneeded DEF ReclaimPaths
    <3>. QED
      BY <3>1, DeleteKeeps
  <2>2. CASE ReclaimObjects
    <3>1. e.gen # 0 /\ (store' = store \/ store' = Without(IncarnationObjects(e.gen)))
      BY <2>2 DEF ReclaimObjects
    <3>2. \A p \in IncarnationObjects(e.gen) : Unneeded(p)
      BY <1>1, <1>2, <1>5, <3>1, FirstUnneeded
    <3> HIDE DEF e
    <3>. QED
      BY <3>1, <3>2, DeleteKeeps, StoreStays
  <2>3. CASE ReclaimPages
    BY <2>3, StoreStays DEF ReclaimPages
  <2>. QED
    BY <2>1, <2>2, <2>3
<1>. QED
  BY <1>1, <1>4, <1>5, <1>6, SameQueue, PassKeeps

LEMMA DeferTargets ==
    ASSUME IInv, NEW seq \in Nat, gc' = Defer(gc, seq)
    PROVE  \A e \in Entries(gc') : \E f \in Entries(gc) : SameTarget(e, f)
<1>1. \A e \in Entries(Defer(gc, seq)) : e \in Entries(gc) \/ \E f \in Entries(gc) : SameTarget(e, f)
  BY DeferMoves DEF IInv, QueueOK
<1>. QED
  BY <1>1 DEF SameTarget

LEMMA AckTargets ==
    ASSUME IInv, NEW u \in Nat, gc' = Ack(gc, u)
    PROVE  \A e \in Entries(gc') : \E f \in Entries(gc) : SameTarget(e, f)
<1>1. Entries(Ack(gc, u)) \subseteq Entries(gc)
  BY AckPops DEF IInv, QueueOK
<1>. QED
  BY <1>1 DEF SameTarget

LEMMA FailEntrySafe ==
    ASSUME IInv, IInv', CInv, FailEntry
    PROVE  CInv'
<1> DEFINE e == collector.todo[1]
<1>1. /\ UNCHANGED <<slot, refs, lastGen, pages, lastPath, flusher, compactor, offloader>>
      /\ orphans' = orphans /\ collector # Idle /\ collector.todo # <<>> /\ limbo = NoCommand
  BY DEF FailEntry, Collecting, outcome, Idle, Settled
<1>2. PICK some \in SUBSET (IF e.gen = 0 THEN e.paths ELSE IncarnationObjects(e.gen)) :
        store' = Without(some)
  BY DEF FailEntry
<1>3. \/ gc' = Defer(gc, e.seq) /\ collector' = [collector EXCEPT !.todo = Tail(@)] /\ limbo' = limbo
      \/ /\ limbo' = [kind |-> "defer", seq |-> e.seq]
         /\ collector' = [collector EXCEPT !.todo = <<>>] /\ gc' = gc
  BY DEF FailEntry, outcome
<1>4. collector \in Collection /\ e.seq \in Nat
  <2>1. 1 \in 1 .. Len(collector.todo)
    BY <1>1, CollectorTyped
  <2>. QED
    BY <1>1, <2>1, CollectorTyped
<1>5. collector'.todo = <<>> \/ collector'.todo = Tail(collector.todo)
  BY <1>3, <1>4 DEF Collection
<1> HIDE DEF e
<1>6. GcQuiet
  BY <1>1, <1>3 DEF GcQuiet
<1>7. \A p \in some : Unneeded(p)
  BY <1>1, <1>2, <1>6, FirstUnneeded DEF e
<1>8. StoreKeeps
  BY <1>2, <1>7, DeleteKeeps
<1>9. Todo' \subseteq Todo
  BY <1>1, <1>5, TodoShrinks
<1>10. \A d \in Entries(gc') : \E f \in Entries(gc) : SameTarget(d, f)
  BY <1>3, <1>4, DeferTargets, SameQueue
<1>. QED
  BY <1>6, <1>8, <1>9, <1>10, PassKeeps

LEMMA EndGcSafe ==
    ASSUME IInv, IInv', CInv, AckGc \/ LoseAck \/ AbandonGc
    PROVE  CInv'
<1>1. /\ UNCHANGED <<slot, lastGen, store, pages, lastPath>>
      /\ UNCHANGED <<flusher, compactor, offloader, orphans>>
      /\ collector # Idle /\ collector' = Idle
      /\ gc' = gc \/ gc' = Ack(gc, collector.acked)
      /\ limbo' = limbo \/ limbo'.kind = "ack"
  BY DEF AckGc, LoseAck, AbandonGc, replicated, outcome, PassEnds, Idle
<1>2. GcQuiet
  BY <1>1 DEF GcQuiet
<1>3. Todo' \subseteq Todo
  BY <1>1, TodoShrinks
<1>4. \A d \in Entries(gc') : \E f \in Entries(gc) : SameTarget(d, f)
  BY <1>1, CollectorTyped, AckTargets, SameQueue
<1>. QED
  BY <1>1, <1>2, <1>3, <1>4, StoreStays, PassKeeps

(* A lost command that is discarded, or that concerns the queue only. *)
LEMMA QueueLimboSafe ==
    ASSUME IInv, IInv', CInv, DiscardLimbo \/ (CommitLimbo /\ limbo.kind \in {"ack", "defer"})
    PROVE  CInv'
<1>1. /\ UNCHANGED <<orphans, store, pages, lastPath>> /\ limbo' = NoCommand
      /\ UNCHANGED <<flusher, compactor, offloader, collector>> /\ limbo # NoCommand
  BY DEF DiscardLimbo, CommitLimbo, workers
<1>2. /\ UNCHANGED <<slot, lastGen>>
      /\ \/ gc' = gc
         \/ limbo.kind = "ack" /\ gc' = Ack(gc, limbo.upTo)
         \/ limbo.kind = "defer" /\ gc' = Defer(gc, limbo.seq)
  BY DEF DiscardLimbo, CommitLimbo, ApplyLimbo, replicated
<1>3. /\ limbo.kind = "ack" => limbo.upTo \in Nat
      /\ limbo.kind = "defer" => limbo.seq \in Nat
  BY <1>1 DEF IInv, LimboOK, LostCommand
<1>4. GcQuiet
  BY <1>1, <1>2 DEF GcQuiet, NoCommand
<1>5. Todo' \subseteq Todo
  BY <1>1 DEF Todo
<1>6. \A d \in Entries(gc') : \E f \in Entries(gc) : SameTarget(d, f)
  BY <1>2, <1>3, AckTargets, DeferTargets, SameQueue
<1>. QED
  BY <1>1, <1>4, <1>5, <1>6, StoreStays, PassKeeps

---------------------------------------------------------------------------
(* The commands on streams.                                                *)

(* The refs of a record are some of those it had, or new ones. *)
Narrows ==
    \A s \in Streams :
      /\ slot'[s].chunks \subseteq slot[s].chunks
      /\ \A r \in slot'[s].external : r \in slot[s].external \/ r.path > lastPath
      /\ slot'[s].chunks \cup slot'[s].external # {} => slot'[s].gen = slot[s].gen

CompactorFits ==
    compactor # Idle =>
      LET s == compactor.stream IN
      /\ slot'[s].live /\ slot'[s].gen = slot[s].gen
      /\ compactor.shared => compactor.run \subseteq slot'[s].chunks

CommandQuiet ==
    /\ UNCHANGED <<pages, flusher, compactor, offloader, limbo, orphans>>
    /\ lastPath <= lastPath' /\ lastGen <= lastGen' /\ limbo = NoCommand

LEMMA CommandClaims ==
    ASSUME IInv, CommandQuiet, Narrows, CompactorFits, NEW N,
           \A s \in Streams : \A r \in slot'[s].external :
             r \in slot[s].external \/ OfRef("external", slot'[s].gen, r) \in N
    PROVE  Claims' \subseteq Claims \cup N
<1> DEFINE S == Claims \cup N
<1>1. /\ \A s \in Streams : \A r \in slot[s].chunks : OfRef("slice", slot[s].gen, r) \in S
      /\ \A s \in Streams : \A r \in slot[s].external : OfRef("external", slot[s].gen, r) \in S
      /\ \A g \in 0 .. MaxGen : \A e \in pages[g] : OfEntry(g, e) \in S
      /\ flusher.stage = "indexed" => \A e \in flusher.saved : OfEntry(flusher.gen, e) \in S
      /\ compactor.stage = "indexed" => \A e \in compactor.saved : OfEntry(compactor.gen, e) \in S
      /\ flusher # Idle => OfFlush(flusher.todo[1], flusher.path, flusher.shared) \in S
      /\ compactor # Idle => OfRun(slot[compactor.stream].gen, compactor.run, compactor.path) \in S
  BY ClaimIs
<1>2. \A n \in N : n \in S
  OBVIOUS
<1> HIDE DEF S
<1>3. \A s \in Streams : \A r \in slot'[s].chunks : OfRef("slice", slot'[s].gen, r) \in S
  <2>1. SUFFICES ASSUME NEW s \in Streams, NEW r \in slot'[s].chunks
                 PROVE  OfRef("slice", slot'[s].gen, r) \in S
    OBVIOUS
  <2>2. slot'[s].gen = slot[s].gen /\ r \in slot[s].chunks
    BY DEF Narrows
  <2>. QED
    BY <1>1, <2>2
<1>4. \A s \in Streams : \A r \in slot'[s].external : OfRef("external", slot'[s].gen, r) \in S
  <2>1. SUFFICES ASSUME NEW s \in Streams, NEW r \in slot'[s].external, r \in slot[s].external
                 PROVE  OfRef("external", slot'[s].gen, r) \in S
    BY <1>2
  <2>2. slot'[s].gen = slot[s].gen
    BY <2>1 DEF Narrows
  <2>. QED
    BY <1>1, <2>1, <2>2
<1>5. /\ pages' = pages /\ flusher' = flusher /\ compactor' = compactor /\ limbo'.kind # "flush"
      /\ compactor # Idle => slot'[compactor.stream].gen = slot[compactor.stream].gen
  BY DEF CommandQuiet, CompactorFits, NoCommand
<1>6. Claims' \subseteq S
  BY <1>1, <1>3, <1>4, <1>5, ClaimsFrom
<1>. QED
  BY <1>6 DEF S

LEMMA OwnNarrows ==
    ASSUME IInv, CInv, Narrows, UNCHANGED <<pages, flusher, compactor>>,
           limbo' = limbo \/ limbo'.kind # "flush"
    PROVE  Own'
<1>1. lastPath \in Nat
  BY DEF IInv, CountersOK
<1>2. \A p \in Paths : p <= lastPath /\ InSlots(p)' => InSlots(p)
  <2>1. SUFFICES ASSUME NEW s \in Streams, NEW r \in slot'[s].chunks \cup slot'[s].external,
                        r.path \in Paths, r.path <= lastPath
                 PROVE  r \in slot[s].chunks \cup slot[s].external
    BY DEF InSlots
  <2>. QED
    BY <1>1, <2>1 DEF Narrows, Paths
<1>3. flusher # Idle => ~Elsewhere(flusher, flusher.path)'
  <2>1. SUFFICES ASSUME flusher # Idle PROVE ~Elsewhere(flusher, flusher.path)'
    OBVIOUS
  <2>2. flusher.path \in Paths /\ flusher.path <= lastPath /\ ~Elsewhere(flusher, flusher.path)
    BY <2>1, FlusherTyped DEF CInv, Own
  <2>. QED
    BY <1>2, <2>2 DEF Elsewhere, InPages, InSaves, InSlots
<1>4. compactor # Idle => ~Elsewhere(compactor, compactor.path)'
  <2>1. SUFFICES ASSUME compactor # Idle PROVE ~Elsewhere(compactor, compactor.path)'
    OBVIOUS
  <2>2. compactor.path \in Paths /\ compactor.path <= lastPath /\ ~Elsewhere(compactor, compactor.path)
    BY <2>1, CompactorTyped DEF CInv, Own
  <2>. QED
    BY <1>2, <2>2 DEF Elsewhere, InPages, InSaves, InSlots
<1>. QED
  BY <1>3, <1>4 DEF CInv, Own

LEMMA PagedNarrows ==
    ASSUME IInv, IInv', Narrows, pages' = pages, NEW s \in Streams, NEW rs, Written(rs), Paged(s, rs)
    PROVE  Paged(s, rs)'
<1>1. SUFFICES ASSUME NEW r \in rs \cap slot'[s].external
               PROVE  Entry(r, TRUE) \in pages[slot'[s].gen]
  BY DEF Paged, Entry
<1>2. r.path <= lastPath
  BY DEF Written
<1>3. r \in slot[s].external
  <2>1. r \in slot[s].external \/ r.path > lastPath
    BY DEF Narrows
  <2>2. slot'[s] \in Slot /\ lastPath \in Nat
    BY DEF IInv, SlotOK, CountersOK
  <2>3. r \in Ref
    BY <2>2 DEF Slot
  <2>. QED
    BY <1>2, <2>1, <2>2, <2>3, RefType DEF Paths
<1>4. slot'[s].gen = slot[s].gen
  BY DEF Narrows
<1>. QED
  BY <1>3, <1>4 DEF Paged

LEMMA ViewClaims ==
    ASSUME IInv, NEW g \in 0 .. MaxGen, NEW e \in UNION Views(g)
    PROVE  OfEntry(g, e) \in Claims /\ e \in PageEntry /\ Ranged(e)
<1>1. OfEntry(g, e) \in Claims
  BY ClaimIs, ViewsAre
<1>2. e \in PageEntry
  BY ViewsAre, PageTyped, StageIs, FlusherTyped, CompactorTyped
<1>. QED
  BY <1>1, <1>2, EntryRanged

(* An entry stays clear of the hot buffer and the slices. *)
LEMMA RobustKeeps ==
    ASSUME IInv, CInv, NEW s \in Live, NEW e \in UNION Views(slot[s].gen), Robust(e, slot[s]),
           NEW w, w.chunks \subseteq slot[s].chunks, w.hot \subseteq Nat,
           \A b \in w.hot : b \in slot[s].hot \/ b >= slot[s].tail
    PROVE  Robust(e, w)
<1>1. s \in Streams /\ slot[s].gen \in 0 .. MaxGen /\ slot[s].tail \in Nat
  BY LiveTyped, SlotTyped
<1>2. OfEntry(slot[s].gen, e) \in Claims /\ Ranged(e)
  BY <1>1, ViewClaims
<1>3. e.end <= slot[s].tail
  BY <1>2, ClaimFields DEF CInv, Core, InPlace
<1>4. \A b \in Span(e) : b \in Nat /\ b < slot[s].tail
  BY <1>1, <1>2, <1>3 DEF Span, Ranged
<1>5. \A b \in Span(e) : b \notin w.hot
  <2>1. SUFFICES ASSUME NEW b \in Span(e), b \in w.hot PROVE FALSE
    OBVIOUS
  <2>2. b \notin slot[s].hot
    BY <2>1 DEF Robust
  <2>. QED
    BY <1>1, <1>4, <2>1, <2>2
<1>. QED
  BY <1>5 DEF Robust

(* Every byte that was served still is. *)
Carries(v, w) ==
    /\ w.chunks \subseteq v.chunks
    /\ \A b \in w.hot : b \in v.hot \/ b >= v.tail
    /\ \A r \in v.chunks \cup v.external : r \in w.chunks \cup w.external \/ r.end <= w.retained
    /\ \A o \in w.retained .. w.tail - 1 :
         /\ \/ o \in v.retained .. v.tail - 1
            \/ o \in w.hot
            \/ \E r \in w.external : o \in Span(r)
         /\ o \in v.hot => o \in w.hot

LEMMA CommandRest ==
    ASSUME IInv, IInv', CInv, CommandQuiet, Continues, Narrows, CompactorFits, Untrimmed',
           \A s \in Streams : slot'[s].live =>
             \/ slot'[s].gen > lastGen /\ slot'[s].tail = 0
             \/ slot[s].live /\ slot'[s].gen = slot[s].gen /\ Carries(slot[s], slot'[s])
    PROVE  Own' /\ Modes' /\ Indexed' /\ Served' /\ Clear'
<1>1. /\ pages' = pages /\ flusher' = flusher /\ compactor' = compactor /\ offloader' = offloader
      /\ limbo' = limbo /\ limbo.kind = "none" /\ orphans' = orphans
      /\ lastPath <= lastPath' /\ lastPath \in Nat /\ lastPath' \in Nat /\ lastGen \in Nat
  BY DEF CommandQuiet, NoCommand, IInv, CountersOK
<1>2. Own'
  BY <1>1, OwnNarrows
<1>3. Modes'
  <2>1. Turns' /\ LimboAt'
    BY <1>1 DEF CInv, Modes, Turns, Indexing, LimboAt
  <2>2. FlusherAt'
    BY <1>1 DEF CInv, Modes, FlusherAt, FlushDuty
  <2>3. CompactorAt'
    BY <1>1 DEF CInv, Modes, CompactorAt, CompactorFits, CompactDuty, Contiguous, Covered, First, Beyond, Span
  <2>4. offloader' # Idle => Written(offloader.refs)'
    <3>1. SUFFICES ASSUME offloader # Idle PROVE Written(offloader.refs)'
      BY <1>1
    <3>2. offloader.refs \in SUBSET Ref /\ Written(offloader.refs)
      BY <3>1 DEF CInv, Modes, IInv, OffloaderOK, Offload
    <3>3. \A r \in offloader.refs : r.path \in Nat
      BY <3>2, RefType DEF Paths
    <3>. QED
      BY <1>1, <3>2, <3>3 DEF Written
  <2>. QED
    BY <2>1, <2>2, <2>3, <2>4 DEF Modes
<1>4. Indexed'
  <2>1. flusher'.stage = "indexed" /\ LiveGen(flusher.gen)' => FlushEntry' \in pages'[flusher'.gen]
    <3>1. SUFFICES ASSUME flusher.stage = "indexed", LiveGen(flusher.gen)'
                   PROVE  FlushEntry \in pages[flusher.gen]
      BY <1>1 DEF FlushEntry
    <3>2. flusher # Idle /\ flusher.gen = flusher.todo[1].gen
      BY <3>1, StageIs DEF CInv, Modes, FlusherAt
    <3>3. flusher.gen \in 1 .. lastGen
      BY <3>2, ClaimIs, ClaimFields DEF CInv, Core, HandedOut
    <3>4. LiveGen(flusher.gen)
      <4>1. PICK g \in 0 .. lastGen : g = flusher.gen
        BY <1>1, <3>3
      <4>2. LiveGen(g)'
        BY <1>1, <3>1, <4>1 DEF LiveGen, Live
      <4>. QED
        BY <4>1, <4>2, DeadStays
    <3>. QED
      BY <3>1, <3>4 DEF CInv, Indexed
  <2>2. compactor'.stage = "indexed" =>
         /\ Replacement' \in pages'[compactor'.gen]
         /\ ~compactor'.shared => /\ compactor'.run \subseteq compactor'.saved
                                  /\ compactor'.run \cap pages'[compactor'.gen] = {}
    <3>1. Replacement' = Replacement
      BY <1>1 DEF Replacement, First, Beyond
    <3>. QED
      BY <1>1, <3>1 DEF CInv, Indexed
  <2>3. offloader' # Idle => Paged(offloader.stream, offloader.refs)'
    <3>1. SUFFICES ASSUME offloader # Idle PROVE Paged(offloader.stream, offloader.refs)'
      BY <1>1
    <3>2. PICK s \in Streams : \E rs : s = offloader.stream /\ rs = offloader.refs
      BY <3>1 DEF IInv, OffloaderOK, Offload
    <3>3. PICK rs : s = offloader.stream /\ rs = offloader.refs
      BY <3>2
    <3>4. Written(rs) /\ Paged(s, rs)
      BY <3>1, <3>3 DEF CInv, Modes, Indexed
    <3>5. Paged(s, rs)'
      BY <1>1, <3>4, PagedNarrows
    <3>. QED
      BY <1>1, <3>3, <3>5 DEF Paged
  <2>. QED
    BY <1>1, <2>1, <2>2, <2>3 DEF Indexed
<1>5. \A g : Views(g)' = Views(g)
  BY <1>1 DEF Views, Saved
<1>6. ASSUME NEW s \in Live', slot'[s].gen > lastGen PROVE UNION Views(slot'[s].gen) = {}
  <2>1. slot'[s].gen \in 0 .. MaxGen /\ slot'[s].gen \in Nat
    BY DEF IInv, SlotOK, Slot, Live
  <2>2. SUFFICES ASSUME NEW e \in UNION Views(slot'[s].gen) PROVE FALSE
    OBVIOUS
  <2>3. OfEntry(slot'[s].gen, e) \in Claims
    BY <2>1, ViewClaims
  <2>4. slot'[s].gen \in 1 .. lastGen
    BY <2>3, ClaimFields DEF CInv, Core, HandedOut
  <2>. QED
    BY <1>1, <1>6, <2>1, <2>4
<1>7. ASSUME NEW s \in Live', ~(slot'[s].gen > lastGen)
      PROVE  /\ s \in Live /\ slot'[s].gen = slot[s].gen /\ Carries(slot[s], slot'[s])
             /\ \A e \in UNION Views(slot[s].gen) : Robust(e, slot[s]) => Robust(e, slot'[s])
  <2>1. s \in Streams /\ slot'[s].live /\ slot'[s].hot \subseteq Nat
    BY DEF Live, IInv, SlotOK, Slot
  <2>2. s \in Live /\ slot'[s].gen = slot[s].gen /\ Carries(slot[s], slot'[s])
    BY <1>7, <2>1 DEF Live
  <2>3. slot'[s].chunks \subseteq slot[s].chunks /\ \A b \in slot'[s].hot : b \in slot[s].hot \/ b >= slot[s].tail
    BY <2>2 DEF Carries
  <2>. QED
    BY <2>1, <2>2, <2>3, RobustKeeps
<1>8. Served'
  <2>1. SUFFICES ASSUME NEW s \in Live', NEW P \in Views(slot'[s].gen)
                 PROVE  Covers(P, slot'[s])
    BY <1>5 DEF Served, Views, Saved
  <2>2. CASE slot'[s].gen > lastGen
    <3>1. slot'[s].tail = 0 /\ slot'[s].retained \in Nat
      <4>1. s \in Streams /\ slot'[s].live /\ slot'[s] \in Slot
        BY DEF Live, IInv, SlotOK
      <4>2. slot[s].live => ~(slot'[s].gen = slot[s].gen)
        BY <1>1, <2>2, <4>1, SlotTyped
      <4>. QED
        BY <4>1, <4>2 DEF Slot
    <3>. QED
      BY <3>1 DEF Covers
  <2>3. CASE ~(slot'[s].gen > lastGen)
    <3>1. /\ s \in Live /\ slot'[s].gen = slot[s].gen /\ Carries(slot[s], slot'[s])
          /\ \A e \in UNION Views(slot[s].gen) : Robust(e, slot[s]) => Robust(e, slot'[s])
      BY <1>7, <2>3
    <3>2. Covers(P, slot[s]) /\ \A e \in P : e \in UNION Views(slot[s].gen)
      BY <2>1, <3>1 DEF CInv, Served
    <3>3. s \in Streams /\ slot[s] \in Slot /\ slot'[s] \in Slot
      BY <3>1 DEF Live, IInv, SlotOK
    <3>4. SUFFICES ASSUME NEW o \in slot'[s].retained .. slot'[s].tail - 1
                   PROVE  \/ o \in slot'[s].hot
                          \/ \E r \in slot'[s].chunks \cup slot'[s].external : o \in Span(r)
                          \/ \E e \in P : o \in Span(e) /\ Robust(e, slot'[s])
      BY DEF Covers
    <3>5. CASE o \in slot[s].retained .. slot[s].tail - 1
      <4>1. CASE o \in slot[s].hot
        BY <3>1, <3>4, <4>1 DEF Carries
      <4>2. CASE \E r \in slot[s].chunks \cup slot[s].external : o \in Span(r)
        <5>1. PICK r \in slot[s].chunks \cup slot[s].external : o \in Span(r)
          BY <4>2
        <5>2. Ranged(r) /\ slot'[s].retained \in Nat
          BY <3>3, EntryRanged DEF Slot
        <5>3. ~(r.end <= slot'[s].retained)
          BY <3>4, <5>1, <5>2 DEF Span, Ranged
        <5>. QED
          BY <3>1, <5>1, <5>3 DEF Carries
      <4>3. CASE \E e \in P : o \in Span(e) /\ Robust(e, slot[s])
        BY <3>1, <3>2, <4>3
      <4>. QED
        BY <3>2, <3>5, <4>1, <4>2, <4>3 DEF Covers
    <3>6. CASE ~(o \in slot[s].retained .. slot[s].tail - 1)
      BY <3>1, <3>4, <3>6 DEF Carries
    <3>. QED
      BY <3>5, <3>6
  <2>. QED
    BY <2>2, <2>3
<1>9. Clear'
  <2>1. FlushEntry' = FlushEntry /\ Replacement' = Replacement
    BY <1>1 DEF FlushEntry, Replacement, First, Beyond
  <2>2. SUFFICES ASSUME NEW s \in Live', NEW e \in UNION Views(slot'[s].gen)
                 PROVE  \/ e.external \/ Robust(e, slot'[s])
                        \/ flusher.stage = "indexed" /\ e = FlushEntry
                        \/ compactor.stage = "indexed" /\ e = Replacement
                        \/ e.path \in orphans /\ "raw" \notin Duties
    BY <1>1, <1>5, <2>1 DEF Clear, Views, Saved
  <2>3. ~(slot'[s].gen > lastGen)
    BY <1>6, <2>2
  <2>4. /\ s \in Live /\ slot'[s].gen = slot[s].gen
        /\ \A f \in UNION Views(slot[s].gen) : Robust(f, slot[s]) => Robust(f, slot'[s])
    BY <1>7, <2>3
  <2>. QED
    BY <2>2, <2>4 DEF CInv, Clear
<1>. QED
  BY <1>2, <1>3, <1>4, <1>8, <1>9

(* One stream's record changes. *)
OneChanges(s) ==
    /\ Others(s)
    /\ slot'[s].chunks \subseteq slot[s].chunks
    /\ \A r \in slot'[s].external : r \in slot[s].external \/ r.path > lastPath
    /\ slot'[s].chunks \cup slot'[s].external # {} => slot'[s].gen = slot[s].gen
    /\ slot'[s].live =>
         \/ slot'[s].gen > lastGen /\ slot'[s].tail = 0
         \/ /\ slot[s].live /\ slot'[s].gen = slot[s].gen /\ Carries(slot[s], slot'[s])
            /\ slot[s].retained <= slot'[s].retained /\ slot[s].tail <= slot'[s].tail
    /\ compactor # Idle /\ compactor.stream = s =>
         /\ slot'[s].live /\ slot'[s].gen = slot[s].gen
         /\ compactor.shared => compactor.run \subseteq slot'[s].chunks

LEMMA OneContinues ==
    ASSUME IInv, CInv, NEW s \in Streams, OneChanges(s)
    PROVE  /\ Continues /\ Narrows /\ CompactorFits
           /\ \A t \in Streams : slot'[t].live =>
             \/ slot'[t].gen > lastGen /\ slot'[t].tail = 0
             \/ slot[t].live /\ slot'[t].gen = slot[t].gen /\ Carries(slot[t], slot'[t])
<1>1. \A t \in Streams : t # s => slot'[t] = slot[t]
  BY DEF OneChanges, Others
<1>2. ASSUME NEW t \in Streams PROVE Carries(slot[t], slot[t]) /\ slot[t].retained \in Nat /\ slot[t].tail \in Nat
  BY SlotTyped DEF Carries
<1>3. Continues
  BY <1>1, <1>2 DEF Continues, OneChanges, Carries
<1>4. Narrows
  BY <1>1 DEF Narrows, OneChanges
<1>5. CompactorFits
  <2>1. SUFFICES ASSUME compactor # Idle PROVE CompactorFits
    BY DEF CompactorFits
  <2>2. compactor.stream \in Streams
    BY <2>1, CompactorTyped
  <2>. QED
    BY <1>1, <2>1, <2>2 DEF CompactorFits, OneChanges, CInv, Modes, CompactorAt
<1>6. ASSUME NEW t \in Streams, slot'[t].live
      PROVE  \/ slot'[t].gen > lastGen /\ slot'[t].tail = 0
             \/ slot[t].live /\ slot'[t].gen = slot[t].gen /\ Carries(slot[t], slot'[t])
  <2>1. CASE t = s
    BY <1>6, <2>1 DEF OneChanges
  <2>2. CASE t # s
    BY <1>1, <1>2, <1>6, <2>2
  <2>. QED
    BY <2>1, <2>2
<1>. QED
  BY <1>3, <1>4, <1>5, <1>6

LaidIn(v) ==
    /\ \A b \in v.hot : b >= v.retained
    /\ \A r \in v.chunks \cup v.external : r.end > v.retained
    /\ \A r \in v.chunks : Span(r) \cap v.hot = {}
    /\ \A r, q \in v.chunks : r # q => ~Overlap(r, q)

LEMMA OneCommand ==
    ASSUME IInv, IInv', CInv, CommandQuiet, collector' = collector, NEW s \in Streams, OneChanges(s),
           LaidIn(slot'[s]), MaxRetain = 0 => slot'[s].retained = 0, StoreKeeps, DoomKeeps,
           NEW N, \A n \in N : Fits(n), \A n, m \in N : n = m,
           \A r \in slot'[s].external : r \in slot[s].external \/ OfRef("external", slot'[s].gen, r) \in N
    PROVE  CInv'
<1>1. Continues /\ Narrows /\ CompactorFits
  BY OneContinues
<1>2. \A t \in Streams : t # s => slot'[t] = slot[t]
  BY DEF OneChanges, Others
<1>3. Claims' \subseteq Claims \cup N
  BY <1>1, <1>2, CommandClaims
<1>4. lastPath <= lastPath' /\ lastGen <= lastGen'
  BY DEF CommandQuiet
<1>5. TodoDead'
  BY <1>1, <1>4, TodoStays DEF CInv, Core, Todo
<1>6. Core'
  BY <1>1, <1>3, <1>4, <1>5, CoreGrows DEF CInv
<1>7. Laid'
  <2>1. ASSUME NEW t \in Streams PROVE LaidIn(slot'[t])
    BY <1>2 DEF CInv, Laid, LaidIn
  <2>. QED
    BY <2>1 DEF Laid, LaidIn
<1>8. Untrimmed'
  BY <1>2 DEF CInv, Modes, Untrimmed
<1>9. Own' /\ Modes' /\ Indexed' /\ Served' /\ Clear'
  BY <1>1, <1>8, OneContinues, CommandRest
<1>. QED
  BY <1>6, <1>7, <1>9 DEF CInv

LEMMA PlainCommand ==
    ASSUME IInv, IInv', CInv, CommandQuiet, collector' = collector, NEW s \in Streams, OneChanges(s),
           LaidIn(slot'[s]), MaxRetain = 0 => slot'[s].retained = 0, StoreKeeps, DoomKeeps,
           slot'[s].external \subseteq slot[s].external
    PROVE  CInv'
<1>1. PICK N : N = {}
  OBVIOUS
<1>2. (\A n \in N : Fits(n)) /\ (\A n, m \in N : n = m)
  BY <1>1
<1>. QED
  BY <1>2, OneCommand

LEMMA CreateSafe ==
    ASSUME IInv, IInv', CInv, NEW s \in Streams, Create(s)
    PROVE  CInv'
<1>1. /\ limbo = NoCommand /\ ~slot[s].live /\ Others(s)
      /\ slot'[s].live /\ slot'[s].gen = lastGen + 1 /\ slot'[s].tail = 0
      /\ slot'[s].retained = 0
      /\ slot'[s].hot = {} /\ slot'[s].chunks = {} /\ slot'[s].external = {}
      /\ lastGen' = lastGen + 1
      /\ UNCHANGED <<gc, store, pages, lastPath>>
      /\ UNCHANGED <<flusher, compactor, offloader, collector, limbo, orphans>>
  BY CreateShape
<1>2. lastGen \in Nat /\ lastPath \in Nat
  BY DEF IInv, CountersOK
<1>3. CommandQuiet
  BY <1>1, <1>2 DEF CommandQuiet
<1>4. OneChanges(s)
  BY <1>1, <1>2 DEF OneChanges, CInv, Modes, CompactorAt
<1>5. LaidIn(slot'[s])
  BY <1>1 DEF LaidIn
<1>. QED
  BY <1>1, <1>3, <1>4, <1>5, StoreStays, DoomStays, PlainCommand

(* A live stream's slices are below its tail. *)
LEMMA RefsBelow ==
    ASSUME IInv, CInv, NEW s \in Live, NEW r \in slot[s].chunks \cup slot[s].external
    PROVE  r.end <= slot[s].tail /\ Ranged(r) /\ r.path \in Paths
<1>1. s \in Streams /\ r \in Ref
  BY LiveTyped, SlotTyped
<1>2. PICK c \in Claims : c.gen = slot[s].gen /\ c.end = r.end
  BY <1>1, ClaimIs, ClaimFields
<1>. QED
  BY <1>1, <1>2, EntryRanged DEF CInv, Core, InPlace

LEMMA AppendInlineSafe ==
    ASSUME IInv, IInv', CInv, NEW s \in Streams, AppendInline(s)
    PROVE  CInv'
<1>1. /\ limbo = NoCommand /\ slot[s].live /\ Others(s)
      /\ slot'[s].live /\ slot'[s].gen = slot[s].gen /\ slot'[s].tail = slot[s].tail + 1
      /\ slot'[s].retained = slot[s].retained
      /\ slot'[s].hot = slot[s].hot \cup {slot[s].tail}
      /\ slot'[s].chunks = slot[s].chunks /\ slot'[s].external = slot[s].external
      /\ UNCHANGED <<gc, lastGen, store, pages, lastPath>>
      /\ UNCHANGED <<flusher, compactor, offloader, collector, limbo, orphans>>
  BY InlineShape
<1>2. lastGen \in Nat /\ lastPath \in Nat /\ slot[s].tail \in Nat /\ slot[s].retained \in Nat
      /\ slot[s].retained <= slot[s].tail
  BY SlotTyped DEF IInv, CountersOK
<1>3. CommandQuiet
  BY <1>1, <1>2 DEF CommandQuiet
<1>4. Carries(slot[s], slot'[s])
  BY <1>1, <1>2 DEF Carries
<1>5. OneChanges(s)
  BY <1>1, <1>2, <1>4 DEF OneChanges, CInv, Modes, CompactorAt
<1>6. LaidIn(slot'[s])
  <2>1. LaidIn(slot[s])
    BY DEF CInv, Laid, LaidIn
  <2>2. \A r \in slot[s].chunks : slot[s].tail \notin Span(r)
    <3>1. \A r \in slot[s].chunks : r.end <= slot[s].tail /\ Ranged(r)
      BY <1>1, RefsBelow DEF Live
    <3>. QED
      BY <1>2, <3>1 DEF Span, Ranged
  <2>. QED
    BY <1>1, <1>2, <2>1, <2>2 DEF LaidIn
<1>7. MaxRetain = 0 => slot'[s].retained = 0
  BY <1>1 DEF CInv, Modes, Untrimmed
<1>. QED
  BY <1>1, <1>3, <1>5, <1>6, <1>7, StoreStays, DoomStays, PlainCommand

LEMMA SnapshotSafe ==
    ASSUME IInv, IInv', CInv, NEW s \in Streams, NEW o \in 1 .. MaxRetain, PublishSnapshot(s, o)
    PROVE  CInv'
<1>1. /\ limbo = NoCommand /\ slot[s].live /\ Others(s)
      /\ slot'[s].live /\ slot'[s].gen = slot[s].gen /\ slot'[s].tail = slot[s].tail
      /\ slot'[s].retained = slot[s].retained
      /\ slot'[s].hot = slot[s].hot
      /\ slot'[s].chunks = slot[s].chunks /\ slot'[s].external = slot[s].external
      /\ UNCHANGED <<gc, lastGen, store, pages, lastPath>>
      /\ UNCHANGED <<flusher, compactor, offloader, collector, limbo, orphans>>
  BY SnapshotShape
<1>2. lastGen \in Nat /\ lastPath \in Nat /\ slot[s].tail \in Nat /\ slot[s].retained \in Nat
  BY SlotTyped DEF IInv, CountersOK
<1>3. CommandQuiet
  BY <1>1, <1>2 DEF CommandQuiet
<1>4. Carries(slot[s], slot'[s])
  BY <1>1, <1>2 DEF Carries
<1>5. OneChanges(s)
  BY <1>1, <1>2, <1>4 DEF OneChanges, CInv, Modes, CompactorAt
<1>6. LaidIn(slot'[s])
  BY <1>1 DEF CInv, Laid, LaidIn
<1>7. MaxRetain = 0 => slot'[s].retained = 0
  BY <1>1 DEF CInv, Modes, Untrimmed
<1>. QED
  BY <1>1, <1>3, <1>5, <1>6, <1>7, StoreStays, DoomStays, PlainCommand

LEMMA AppendExternalSafe ==
    ASSUME IInv, IInv', CInv, NEW s \in Streams, AppendExternal(s)
    PROVE  CInv'
<1> DEFINE r == [start |-> slot[s].tail, end |-> slot[s].tail + 1, path |-> lastPath + 1]
           n == OfRef("external", slot[s].gen, r)
<1>1. /\ limbo = NoCommand /\ slot[s].live /\ Others(s)
      /\ slot'[s].live /\ slot'[s].gen = slot[s].gen /\ slot'[s].tail = slot[s].tail + 1
      /\ slot'[s].retained = slot[s].retained /\ slot'[s].hot = slot[s].hot
      /\ slot'[s].chunks = slot[s].chunks /\ slot'[s].external = slot[s].external \cup {r}
      /\ lastPath < MaxPath /\ lastPath' = lastPath + 1
      /\ store' = [store EXCEPT ![lastPath + 1] = [dir |-> 0, bytes |-> BytesOf(slot[s].gen, r)]]
      /\ UNCHANGED <<gc, lastGen, pages>>
      /\ UNCHANGED <<flusher, compactor, offloader, collector, limbo, orphans>>
  BY ExternalShape
<1>2. lastGen \in Nat /\ lastPath \in Nat /\ slot[s].tail \in Nat /\ slot[s].retained \in Nat
      /\ slot[s].retained <= slot[s].tail /\ slot[s].gen \in 1 .. lastGen
      /\ slot[s].hot \subseteq 0 .. slot[s].tail - 1 /\ lastPath + 1 \in Paths
  <2>1. lastGen \in Nat /\ lastPath \in Nat /\ MaxPath \in Nat
    BY ColdConstants DEF IInv, CountersOK
  <2>2. lastPath + 1 \in Paths
    BY <1>1, <2>1 DEF Paths
  <2>3. slot[s].gen \in 1 .. lastGen /\ slot[s].hot \subseteq 0 .. slot[s].tail - 1
    BY <1>1, SlotTyped
  <2>. QED
    BY <2>1, <2>2, <2>3, SlotTyped
<1>3. r.start = slot[s].tail /\ r.end = slot[s].tail + 1 /\ r.path = lastPath + 1
  OBVIOUS
<1>4. n.kind = "external" /\ n.gen = slot[s].gen /\ n.start = slot[s].tail
      /\ n.end = slot[s].tail + 1 /\ n.path = lastPath + 1
  BY <1>3, ClaimFields
<1> HIDE DEF r
<1>5. CommandQuiet
  BY <1>1, <1>2 DEF CommandQuiet
<1>6. Carries(slot[s], slot'[s])
  <2>1. slot[s].tail \in Span(r)
    BY <1>2, <1>3 DEF Span
  <2>. QED
    BY <1>1, <1>2, <2>1 DEF Carries
<1>7. OneChanges(s)
  BY <1>1, <1>2, <1>3, <1>6 DEF OneChanges, CInv, Modes, CompactorAt
<1>8. LaidIn(slot'[s])
  <2>1. LaidIn(slot[s])
    BY DEF CInv, Laid, LaidIn
  <2>. QED
    BY <1>1, <1>2, <1>3, <2>1 DEF LaidIn
<1>9. MaxRetain = 0 => slot'[s].retained = 0
  BY <1>1 DEF CInv, Modes, Untrimmed
<1>10. StoreKeeps
  BY <1>1, <1>2 DEF StoreKeeps, IInv, ObjectsOK, Paths
<1>11. store'[lastPath + 1] = [dir |-> 0, bytes |-> BytesOf(slot[s].gen, r)]
  BY <1>1, <1>2 DEF IInv, ObjectsOK
<1>12. slot[s].tail + 1 \in 0 .. MaxTail
  <2>1. slot'[s].tail \in 0 .. MaxTail
    BY DEF IInv, SlotOK, Slot
  <2>. QED
    BY <1>1, <2>1
<1> HIDE DEF n
<1>13. Fits(n)
  <2>1. Ranged(n) /\ n.path = lastPath + 1 /\ lastPath' = lastPath + 1 /\ n.gen \in 1 .. lastGen
    BY <1>1, <1>2, <1>4, <1>12, ColdConstants DEF Ranged
  <2>2. \A c \in Claims : c.gen = n.gen => ~Overlap(c, n) /\ ~Overlap(n, c)
    <3>1. SUFFICES ASSUME NEW c \in Claims, c.gen = slot[s].gen PROVE ~Overlap(c, n) /\ ~Overlap(n, c)
      BY <1>4
    <3>2. c.end <= slot[s].tail /\ Ranged(c)
      BY <1>1, <3>1, ClaimsTyped DEF CInv, Core, InPlace, Live
    <3>. QED
      BY <1>2, <1>4, <3>2 DEF Overlap, Ranged
  <2>3. ASSUME NEW t \in Live', slot'[t].gen = n.gen
        PROVE  n.end <= slot'[t].tail /\ (n.kind = "external" => Span(n) \cap slot'[t].hot = {})
    <3>1. t = s
      BY <1>1, <1>4, <2>3 DEF IInv, SlotOK, Live
    <3>2. Span(n) \cap slot[s].hot = {}
      BY <1>2, <1>4 DEF Span
    <3>. QED
      BY <1>1, <1>2, <1>4, <3>1, <3>2
  <2>4. store'[n.path].dir = (IF n.kind = "chunk" THEN n.gen ELSE 0) /\ BytesOf(n.gen, n) \subseteq store'[n.path].bytes
    BY <1>3, <1>4, <1>11 DEF BytesOf, Span
  <2>. QED
    BY <2>1, <2>2, <2>3, <2>4 DEF Fits
<1>14. PICK N : N = {n}
  OBVIOUS
<1>15. \A q \in slot'[s].external : q \in slot[s].external \/ OfRef("external", slot'[s].gen, q) \in N
  BY <1>1, <1>14 DEF n
<1>16. (\A m \in N : Fits(m)) /\ (\A m, k \in N : m = k)
  BY <1>13, <1>14
<1>. QED
  BY <1>1, <1>5, <1>7, <1>8, <1>9, <1>10, <1>15, <1>16, DoomStays, OneCommand

LEMMA CompactorAlone ==
    ASSUME Limits, CInv, compactor # Idle
    PROVE  "delete" \notin Duties /\ MaxRetain = 0 /\ "shared" \notin Lossy
BY DEF Limits, CInv, Modes, CompactorAt, CompactDuty

LEMMA GrownDoom ==
    ASSUME NEW G, NEW P, Grown(gc, gc', G, P), \A p \in P : Unneeded(p),
           collector' = collector, limbo' = limbo \/ limbo'.kind # "compact"
    PROVE  DoomKeeps
<1>1. \A e \in Entries(gc') : e \in Entries(gc) \/ e.paths \subseteq P
  BY DEF Grown
<1>2. Todo' = Todo
  BY DEF Todo
<1>. QED
  BY <1>1, <1>2, DoomedIs, DoomedNext DEF DoomKeeps

LEMMA RefPaths ==
    ASSUME IInv, NEW s \in Streams
    PROVE  /\ \A rs \in SUBSET slot[s].chunks : PathsOf(rs) \in SUBSET Paths
           /\ \A rs \in SUBSET slot[s].external : PathsOf(rs) \in SUBSET Paths
BY SlotTyped, RefType DEF PathsOf

LEMMA RetentionGrows ==
    ASSUME IInv, NEW s \in Streams, NEW chunks \in SUBSET slot[s].chunks,
           NEW external \in SUBSET slot[s].external,
           gc' = QueueUnless(QueueReleased(gc, PathsOf(chunks), TRUE), PathsOf(external), TRUE)
    PROVE  Grown(gc, gc', {0} \cup {0}, PathsOf(chunks) \cup PathsOf(external))
<1> DEFINE q == QueueReleased(gc, PathsOf(chunks), TRUE)
<1>1. PathsOf(chunks) \in SUBSET Paths /\ PathsOf(external) \in SUBSET Paths
  BY RefPaths
<1>2. Grown(gc, q, {0}, PathsOf(chunks))
  BY <1>1, ReleaseGrows DEF IInv, QueueOK
<1>3. gc' = QueueUnless(q, PathsOf(external), TRUE)
  OBVIOUS
<1> HIDE DEF q
<1>4. Grown(q, gc', {0}, PathsOf(external))
  <2>1. q \in Queue /\ Ordered(q)
    BY <1>2 DEF Grown
  <2>. QED
    BY <1>1, <1>3, <2>1, UnlessGrows
<1>. QED
  BY <1>2, <1>4, GrownTransitive DEF IInv, QueueOK

(* Nothing but the stream has a claim on its objects. *)
LEMMA RefAlone ==
    ASSUME IInv, CInv, NEW s \in Streams, NEW r \in slot[s].chunks \cup slot[s].external,
           NEW c \in Claims, c.path = r.path
    PROVE  /\ c.gen = slot[s].gen /\ c.end = r.end /\ c.start = r.start
           /\ r \in slot[s].chunks => c = OfRef("slice", slot[s].gen, r)
           /\ r \in slot[s].external => c = OfRef("external", slot[s].gen, r)
<1>1. ASSUME NEW kind, OfRef(kind, slot[s].gen, r) \in Claims
      PROVE  c = OfRef(kind, slot[s].gen, r)
  BY <1>1, ClaimFields DEF CInv, Core, OnePurpose
<1>. QED
  BY <1>1, ClaimIs, ClaimFields

LEMMA RetentionSafe ==
    ASSUME Limits, IInv, IInv', CInv, NEW s \in Streams, NEW o \in 1 .. MaxRetain,
           AdvanceRetention(s, o)
    PROVE  CInv'
<1> DEFINE chunks == {r \in slot[s].chunks : r.end <= o}
           external == {r \in slot[s].external : r.end <= o}
<1>1. /\ limbo = NoCommand /\ slot[s].live /\ Others(s)
      /\ slot[s].retained < o /\ o <= slot[s].tail
      /\ slot'[s].live /\ slot'[s].gen = slot[s].gen /\ slot'[s].tail = slot[s].tail
      /\ slot'[s].retained = o
      /\ slot'[s].hot = {b \in slot[s].hot : b >= o}
      /\ slot'[s].chunks = slot[s].chunks \ chunks
      /\ slot'[s].external = slot[s].external \ external
      /\ gc' = QueueUnless(QueueReleased(gc, PathsOf(chunks), TRUE), PathsOf(external), TRUE)
      /\ UNCHANGED <<lastGen, store, pages, lastPath>>
      /\ UNCHANGED <<flusher, compactor, offloader, collector, limbo, orphans>>
  BY RetentionShape
<1>2. lastGen \in Nat /\ lastPath \in Nat /\ slot[s].tail \in Nat /\ slot[s].retained \in Nat
      /\ slot[s].hot \subseteq Nat /\ o \in Nat
  BY SlotTyped DEF IInv, CountersOK
<1>3. compactor = Idle /\ MaxRetain # 0
  <2>1. MaxRetain # 0
    OBVIOUS
  <2>. QED
    BY <2>1, CompactorAlone
<1>4. CommandQuiet
  BY <1>1, <1>2 DEF CommandQuiet
<1>5. Carries(slot[s], slot'[s])
  BY <1>1, <1>2 DEF Carries
<1>6. OneChanges(s)
  BY <1>1, <1>2, <1>3, <1>5 DEF OneChanges
<1>7. LaidIn(slot'[s])
  <2>1. LaidIn(slot[s]) /\ \A r \in slot[s].chunks \cup slot[s].external : r.end \in Nat
    BY SlotTyped, RefType DEF CInv, Laid, LaidIn
  <2>. QED
    BY <1>1, <1>2, <2>1 DEF LaidIn
<1>8. Claims' \subseteq Claims
  <2>1. Narrows /\ CompactorFits
    BY <1>6, OneContinues
  <2>2. PICK N : N = {}
    OBVIOUS
  <2>3. \A t \in Streams : \A r \in slot'[t].external :
          r \in slot[t].external \/ OfRef("external", slot'[t].gen, r) \in N
    BY <1>1 DEF Others
  <2>. QED
    BY <1>4, <2>1, <2>2, <2>3, CommandClaims
<1>9. \A p \in PathsOf(chunks) \cup PathsOf(external) : Unneeded(p)
  <2>1. SUFFICES ASSUME NEW r \in slot[s].chunks \cup slot[s].external, r.end <= o,
                        NEW t \in Live', NEW c \in Claims, c.path = r.path, c.gen = slot'[t].gen
                 PROVE  ~(c.end > slot'[t].retained)
    BY <1>8 DEF Unneeded, PathsOf
  <2>2. c.gen = slot[s].gen /\ c.end = r.end /\ r.end \in Nat
    BY <2>1, RefAlone, SlotTyped, RefType
  <2>3. t = s
    BY <1>1, <2>1, <2>2 DEF IInv, SlotOK, Live
  <2>. QED
    BY <1>1, <1>2, <2>1, <2>2, <2>3
<1>10. DoomKeeps
  <2>1. chunks \in SUBSET slot[s].chunks /\ external \in SUBSET slot[s].external
    OBVIOUS
  <2> HIDE DEF chunks, external
  <2>2. Grown(gc, gc', {0} \cup {0}, PathsOf(chunks) \cup PathsOf(external))
    BY <1>1, <2>1, RetentionGrows
  <2>. QED
    BY <1>1, <1>9, <2>2, GrownDoom
<1>11. slot'[s].external \subseteq slot[s].external
  BY <1>1
<1>. QED
  BY <1>1, <1>3, <1>4, <1>6, <1>7, <1>10, <1>11, StoreStays, PlainCommand

LEMMA DeleteGrows ==
    ASSUME IInv, NEW s \in Streams, Delete(s)
    PROVE  Grown(gc, gc', {slot[s].gen, 0} \cup {0},
                 PathsOf(slot[s].chunks) \cup PathsOf(slot[s].external) \cup PathsOf(slot[s].chunks))
<1> DEFINE hasColdObjects == \/ Cardinality(slot[s].hot) < slot[s].tail
                             \/ slot[s].chunks # {} \/ slot[s].external # {}
           q == EnqueueStream(gc, slot[s].gen)
           r == QueueUnless(q, PathsOf(slot[s].external), FALSE)
           queued == IF hasColdObjects THEN r ELSE gc
           P == PathsOf(slot[s].chunks) \cup PathsOf(slot[s].external)
<1>1. gc' = QueueReleased(queued, PathsOf(slot[s].chunks), FALSE)
  BY DEF Delete
<1>2. PathsOf(slot[s].chunks) \in SUBSET Paths /\ PathsOf(slot[s].external) \in SUBSET Paths
      /\ slot[s].gen \in 0 .. MaxGen
  BY RefPaths, SlotTyped
<1>3. gc \in Queue /\ Ordered(gc)
  BY DEF IInv, QueueOK
<1> HIDE DEF hasColdObjects
<1>4. Grown(gc, queued, {slot[s].gen, 0}, P)
  <2>1. CASE ~hasColdObjects
    BY <1>3, <2>1, GrownNot
  <2>2. CASE hasColdObjects
    <3>1. Grown(gc, q, {slot[s].gen}, {})
      BY <1>2, <1>3, PushGrows DEF EnqueueStream
    <3> HIDE DEF q
    <3>2. Grown(q, r, {0}, PathsOf(slot[s].external))
      <4>1. q \in Queue /\ Ordered(q)
        BY <3>1 DEF Grown
      <4>. QED
        BY <1>2, <4>1, UnlessGrows
    <3> HIDE DEF r
    <3>3. Grown(gc, r, {slot[s].gen} \cup {0}, {} \cup PathsOf(slot[s].external))
      BY <1>3, <3>1, <3>2, GrownTransitive
    <3>4. Grown(gc, r, {slot[s].gen, 0}, P)
      BY <3>3 DEF Grown
    <3>. QED
      BY <2>2, <3>4
  <2>. QED
    BY <2>1, <2>2
<1> HIDE DEF queued
<1>5. Grown(queued, gc', {0}, PathsOf(slot[s].chunks))
  BY <1>1, <1>2, <1>4, ReleaseGrows DEF Grown
<1>. QED
  BY <1>3, <1>4, <1>5, GrownTransitive

LEMMA DeleteSafe ==
    ASSUME Limits, IInv, IInv', CInv, NEW s \in Streams, Delete(s)
    PROVE  CInv'
<1>1. /\ limbo = NoCommand /\ slot[s].live /\ slot'[s] = Vacant /\ Others(s)
      /\ "delete" \in Duties
      /\ UNCHANGED <<lastGen, store, pages, lastPath>>
      /\ UNCHANGED <<flusher, compactor, offloader, collector, limbo, orphans>>
  BY DeleteShape
<1>2. lastGen \in Nat /\ lastPath \in Nat
  BY DEF IInv, CountersOK
<1>3. compactor = Idle
  BY <1>1, CompactorAlone
<1>4. CommandQuiet
  BY <1>1, <1>2 DEF CommandQuiet
<1>5. /\ ~slot'[s].live /\ slot'[s].retained = 0 /\ slot'[s].hot = {} /\ slot'[s].chunks = {}
      /\ slot'[s].external = {}
  BY <1>1 DEF Vacant
<1>6. OneChanges(s)
  BY <1>1, <1>3, <1>5 DEF OneChanges
<1>7. LaidIn(slot'[s])
  BY <1>5 DEF LaidIn
<1>8. Claims' \subseteq Claims
  <2>1. Narrows /\ CompactorFits
    BY <1>6, OneContinues
  <2>2. PICK N : N = {}
    OBVIOUS
  <2>3. \A t \in Streams : \A r \in slot'[t].external :
          r \in slot[t].external \/ OfRef("external", slot'[t].gen, r) \in N
    BY <1>1, <1>5 DEF Others
  <2>. QED
    BY <1>4, <2>1, <2>2, <2>3, CommandClaims
<1> DEFINE P == PathsOf(slot[s].chunks) \cup PathsOf(slot[s].external) \cup PathsOf(slot[s].chunks)
<1>9. \A p \in P : Unneeded(p)
  <2>1. SUFFICES ASSUME NEW r \in slot[s].chunks \cup slot[s].external,
                        NEW t \in Live', NEW c \in Claims, c.path = r.path, c.gen = slot'[t].gen
                 PROVE  FALSE
    BY <1>8 DEF Unneeded, PathsOf
  <2>2. c.gen = slot[s].gen
    BY <2>1, RefAlone
  <2>3. t \in Streams /\ t # s /\ slot'[t] = slot[t] /\ t \in Live
    BY <1>1, <1>5, <2>1 DEF Live, Others
  <2>. QED
    BY <1>1, <2>1, <2>2, <2>3, OneLive DEF Live
<1>10. DoomKeeps
  <2>1. Grown(gc, gc', {slot[s].gen, 0} \cup {0}, P)
    BY DeleteGrows
  <2> HIDE DEF P
  <2>. QED
    BY <1>1, <1>9, <2>1, GrownDoom
<1>. QED
  BY <1>1, <1>4, <1>5, <1>6, <1>7, <1>10, StoreStays, PlainCommand

---------------------------------------------------------------------------
(* Steps of the workers that leave the streams as they are.                *)

LEMMA WorkerCore ==
    ASSUME IInv, IInv', CInv, UNCHANGED <<slot, lastGen, collector>>, lastPath <= lastPath',
           StoreKeeps, DoomKeeps, NEW N, Claims' \subseteq Claims \cup N,
           \A n \in N : Fits(n), \A n, m \in N : n = m
    PROVE  Core' /\ Laid' /\ Untrimmed'
<1>1. Continues
  BY StillContinues
<1>2. lastGen <= lastGen'
  BY DEF IInv, CountersOK
<1>3. TodoDead'
  BY <1>1, <1>2, TodoStays DEF CInv, Core, Todo
<1>4. Core'
  BY <1>1, <1>2, <1>3, CoreGrows DEF CInv
<1>. QED
  BY <1>4 DEF CInv, Laid, Modes, Untrimmed

LEMMA WorkerKeeps ==
    ASSUME IInv, IInv', CInv, UNCHANGED <<slot, lastGen, collector>>, lastPath <= lastPath',
           StoreKeeps, DoomKeeps, Claims' \subseteq Claims
    PROVE  Core' /\ Laid' /\ Untrimmed'
<1>1. PICK N : N = {}
  OBVIOUS
<1>2. Claims' \subseteq Claims \cup N /\ (\A n \in N : Fits(n)) /\ (\A n, m \in N : n = m)
  BY <1>1
<1>. QED
  BY <1>2, WorkerCore

LEMMA WorkersStay ==
    ASSUME IInv, IInv', CInv, lastPath <= lastPath'
    PROVE  /\ flusher' \in {flusher, Idle} => FlusherAt'
           /\ compactor' \in {compactor, Idle} /\ slot' = slot => CompactorAt'
           /\ offloader' \in {offloader, Idle} => (offloader' # Idle => Written(offloader.refs)')
           /\ limbo' \in {limbo, NoCommand} /\ orphans \subseteq orphans' => LimboAt'
<1>1. lastPath \in Nat /\ lastPath' \in Nat
  BY DEF IInv, CountersOK
<1>2. flusher' \in {flusher, Idle} => FlusherAt'
  BY DEF CInv, Modes, FlusherAt, FlushDuty
<1>3. compactor' \in {compactor, Idle} /\ slot' = slot => CompactorAt'
  BY DEF CInv, Modes, CompactorAt, CompactDuty, Contiguous, Covered, First, Beyond, Span
<1>4. ASSUME NEW rs \in SUBSET Ref, Written(rs) PROVE \A r \in rs : r.path <= lastPath'
  <2>1. \A r \in rs : r.path \in Nat
    BY RefType DEF Paths
  <2>. QED
    BY <1>1, <1>4, <2>1 DEF Written
<1>5. offloader' \in {offloader, Idle} => (offloader' # Idle => Written(offloader.refs)')
  <2>1. SUFFICES ASSUME offloader' = offloader, offloader # Idle PROVE Written(offloader.refs)'
    OBVIOUS
  <2>2. offloader.refs \in SUBSET Ref /\ Written(offloader.refs)
    BY <2>1 DEF CInv, Modes, IInv, OffloaderOK, Offload
  <2>. QED
    BY <1>4, <2>1, <2>2 DEF Written
<1>6. limbo' \in {limbo, NoCommand} /\ orphans \subseteq orphans' => LimboAt'
  <2>1. SUFFICES ASSUME limbo' = limbo, orphans \subseteq orphans' PROVE LimboAt'
    BY DEF LimboAt, NoCommand
  <2>2. limbo.kind = "offload" => limbo.refs \in SUBSET Ref /\ Written(limbo.refs)
    BY DEF CInv, Modes, LimboAt, IInv, LimboOK, LostCommand, NoCommand
  <2>3. limbo.kind = "offload" => Written(limbo.refs)'
    BY <1>4, <2>1, <2>2 DEF Written
  <2>. QED
    BY <2>1, <2>3 DEF CInv, Modes, LimboAt
<1>. QED
  BY <1>2, <1>3, <1>5, <1>6

(* What relies on a page still finds it there, if the page did not change. *)
LEMMA IndexedStays ==
    ASSUME CInv, slot' = slot, pages' = pages
    PROVE  /\ flusher' = flusher => (flusher'.stage = "indexed" /\ LiveGen(flusher.gen)' =>
                                       FlushEntry' \in pages'[flusher'.gen])
           /\ limbo' = limbo => (limbo'.kind = "flush" /\ ~limbo'.shared /\ LiveGen(limbo.candidate.gen)' =>
                                   LimboEntry' \in pages'[limbo'.candidate.gen])
           /\ compactor' = compactor =>
                (compactor'.stage = "indexed" =>
                   /\ Replacement' \in pages'[compactor'.gen]
                   /\ ~compactor'.shared => /\ compactor'.run \subseteq compactor'.saved
                                            /\ compactor'.run \cap pages'[compactor'.gen] = {})
           /\ offloader' = offloader => (offloader' # Idle => Paged(offloader.stream, offloader.refs)')
           /\ limbo' = limbo => (limbo'.kind = "offload" => Paged(limbo.stream, limbo.refs)')
<1>1. flusher' = flusher => FlushEntry' = FlushEntry
  BY DEF FlushEntry
<1>2. compactor' = compactor => Replacement' = Replacement
  BY DEF Replacement, First, Beyond
<1>3. limbo' = limbo => LimboEntry' = LimboEntry
  BY DEF LimboEntry
<1>4. Live' = Live
  BY DEF Live
<1>5. flusher' = flusher => (flusher'.stage = "indexed" /\ LiveGen(flusher.gen)' =>
                                       FlushEntry' \in pages'[flusher'.gen])
  BY <1>1, <1>4 DEF CInv, Indexed, LiveGen
<1>6. limbo' = limbo => (limbo'.kind = "flush" /\ ~limbo'.shared /\ LiveGen(limbo.candidate.gen)' =>
                                   LimboEntry' \in pages'[limbo'.candidate.gen])
  BY <1>3, <1>4 DEF CInv, Indexed, LiveGen
<1>7. compactor' = compactor =>
                (compactor'.stage = "indexed" =>
                   /\ Replacement' \in pages'[compactor'.gen]
                   /\ ~compactor'.shared => /\ compactor'.run \subseteq compactor'.saved
                                            /\ compactor'.run \cap pages'[compactor'.gen] = {})
  BY <1>2 DEF CInv, Indexed
<1>8. /\ offloader' = offloader => (offloader' # Idle => Paged(offloader.stream, offloader.refs)')
      /\ limbo' = limbo => (limbo'.kind = "offload" => Paged(limbo.stream, limbo.refs)')
  BY DEF CInv, Indexed, Paged
<1>. QED
  BY <1>5, <1>6, <1>7, <1>8

LEMMA ViewsNext ==
    ASSUME NEW g, NEW P, P \in Views(g)'
    PROVE  \/ P = pages'[g]
           \/ flusher'.stage = "indexed" /\ flusher'.gen = g /\ P = flusher'.saved
           \/ compactor'.stage = "indexed" /\ compactor'.gen = g /\ P = compactor'.saved
BY DEF Views, Saved

LEMMA ViewsNow ==
    \A g : /\ pages[g] \in Views(g)
           /\ flusher.stage = "indexed" /\ flusher.gen = g => flusher.saved \in Views(g)
           /\ compactor.stage = "indexed" /\ compactor.gen = g => compactor.saved \in Views(g)
BY DEF Views, Saved

(* A byte served by a page is served by what the page became. *)
LEMMA ServedStays ==
    ASSUME CInv, slot' = slot,
           \A s \in Live : \A P \in Views(slot[s].gen)' : \E Q \in Views(slot[s].gen) :
             \A e \in Q : Robust(e, slot[s]) =>
               e \in P \/ \E f \in P : Span(e) \subseteq Span(f) /\ Robust(f, slot[s])
    PROVE  Served'
<1>1. SUFFICES ASSUME NEW s \in Live, NEW P \in Views(slot[s].gen)' PROVE Covers(P, slot[s])
  BY DEF Served, Live, Views
<1>2. PICK Q \in Views(slot[s].gen) :
        \A e \in Q : Robust(e, slot[s]) =>
          e \in P \/ \E f \in P : Span(e) \subseteq Span(f) /\ Robust(f, slot[s])
  BY <1>1
<1>3. Covers(Q, slot[s])
  BY DEF CInv, Served
<1>4. ASSUME NEW e \in Q, NEW o \in Span(e), Robust(e, slot[s])
      PROVE  \E f \in P : o \in Span(f) /\ Robust(f, slot[s])
  BY <1>2, <1>4
<1>. QED
  BY <1>3, <1>4 DEF Covers

LEMMA ClearStays ==
    ASSUME CInv, slot' = slot, orphans \subseteq orphans',
           \A s \in Live : \A e \in UNION Views(slot[s].gen)' :
             \/ /\ e \in UNION Views(slot[s].gen)
                /\ flusher.stage = "indexed" /\ e = FlushEntry => flusher' = flusher
                /\ compactor.stage = "indexed" /\ e = Replacement => compactor' = compactor
             \/ e.external \/ Robust(e, slot[s])
             \/ flusher'.stage = "indexed" /\ e = FlushEntry'
             \/ compactor'.stage = "indexed" /\ e = Replacement'
             \/ e.path \in orphans' /\ "raw" \notin Duties
    PROVE  Clear'
<1>1. SUFFICES ASSUME NEW s \in Live, NEW e \in UNION Views(slot[s].gen)'
               PROVE  \/ e.external \/ Robust(e, slot[s])
                      \/ flusher'.stage = "indexed" /\ e = FlushEntry'
                      \/ compactor'.stage = "indexed" /\ e = Replacement'
                      \/ e.path \in orphans' /\ "raw" \notin Duties
  BY DEF Clear, Live, Views, Saved
<1>2. flusher' = flusher => FlushEntry' = FlushEntry
  BY DEF FlushEntry
<1>3. compactor' = compactor => Replacement' = Replacement
  BY DEF Replacement, First, Beyond
<1>4. CASE /\ e \in UNION Views(slot[s].gen)
           /\ flusher.stage = "indexed" /\ e = FlushEntry => flusher' = flusher
           /\ compactor.stage = "indexed" /\ e = Replacement => compactor' = compactor
  BY <1>2, <1>3, <1>4 DEF CInv, Clear
<1>. QED
  BY <1>1, <1>4

(* A staged payload whose append did not apply. *)
LEMMA StrandExternalSafe ==
    ASSUME IInv, IInv', CInv, NEW s \in Streams, StrandExternal(s)
    PROVE  CInv'
<1>1. /\ lastPath < MaxPath /\ lastPath' = lastPath + 1 /\ orphans \subseteq orphans'
      /\ \A p \in Paths : p # lastPath + 1 => store'[p] = store[p]
      /\ UNCHANGED <<slot, gc, lastGen, pages>>
      /\ UNCHANGED <<flusher, compactor, offloader, collector, limbo>>
  BY DEF StrandExternal, replicated, workers, IInv, ObjectsOK
<1>2. lastPath \in Nat /\ lastPath <= lastPath' /\ lastPath + 1 > lastPath
  BY <1>1 DEF IInv, CountersOK
<1>3. StoreKeeps
  BY <1>1, <1>2 DEF StoreKeeps
<1>4. Claims' \subseteq Claims
  BY <1>1, ClaimIs, ClaimsFrom
<1>5. Core' /\ Laid' /\ Untrimmed'
  BY <1>1, <1>2, <1>3, <1>4, DoomStays, WorkerKeeps
<1>6. Own'
  <2>1. /\ flusher # Idle => ~Elsewhere(flusher, flusher.path)'
        /\ compactor # Idle => ~Elsewhere(compactor, compactor.path)'
    BY <1>1 DEF CInv, Own, Elsewhere, InSlots, InPages, InSaves
  <2>. QED
    BY <1>1, <2>1 DEF CInv, Own
<1>7. Modes'
  <2>1. Turns'
    BY <1>1 DEF CInv, Modes, Turns, Indexing
  <2>. QED
    BY <1>1, <1>2, <1>5, <2>1, WorkersStay DEF Modes
<1>8. Indexed'
  BY <1>1, IndexedStays DEF Indexed
<1>9. \A t \in Live : \A P \in Views(slot[t].gen)' : P \in Views(slot[t].gen)
  BY <1>1 DEF Views, Saved
<1>10. Served'
  BY <1>1, <1>9, ServedStays
<1>11. Clear'
  <2>1. \A t \in Live : \A e \in UNION Views(slot[t].gen)' : e \in UNION Views(slot[t].gen)
    BY <1>9
  <2>. QED
    BY <1>1, <2>1, ClearStays
<1>. QED
  BY <1>5, <1>6, <1>7, <1>8, <1>10, <1>11 DEF CInv

---------------------------------------------------------------------------
(* The flush worker.                                                       *)

(* A candidate is hot bytes of the stream it was planned from. *)
LEMMA PrefixIs ==
    ASSUME IInv, NEW s \in Streams, NEW cap \in Int, NEW c, c = Prefix(s, cap), c.start < c.end
    PROVE  /\ c.stream = s /\ c.gen = slot[s].gen /\ c.end <= slot[s].tail
           /\ Span(c) \subseteq slot[s].hot
<1> DEFINE start == HotStart(s)
           M == Min({slot[s].tail, start + cap})
           ends == {n \in start + 1 .. M : start .. n - 1 \subseteq slot[s].hot}
           end == IF ends = {} THEN start ELSE Max(ends)
<1>1. start \in 0 .. slot[s].tail /\ slot[s].tail \in 0 .. MaxTail /\ MaxTail \in Nat
  BY HotStartType, ColdConstants DEF IInv
<1>2. c = [stream |-> s, gen |-> slot[s].gen, start |-> start, end |-> end]
  BY DEF Prefix
<1> HIDE DEF start
<1>3. M \in Int /\ M <= slot[s].tail
  <2>1. slot[s].tail \in Int /\ start + cap \in Int
    BY <1>1
  <2>2. \E x \in {slot[s].tail, start + cap} : \A y \in {slot[s].tail, start + cap} : x <= y
    BY <2>1
  <2>. QED
    BY <2>1, <2>2 DEF Min
<1> HIDE DEF M
<1>4. ends \in SUBSET (0 .. MaxTail)
  BY <1>1, <1>3
<1>5. \A n \in ends : n \in Int /\ n <= slot[s].tail /\ start .. n - 1 \subseteq slot[s].hot
  BY <1>1, <1>3
<1> HIDE DEF ends
<1>6. ends # {}
  BY <1>1, <1>2
<1>7. end \in ends
  BY <1>1, <1>4, <1>6, MaxType
<1> HIDE DEF end
<1>8. c.start = start /\ c.end = end /\ c.stream = s /\ c.gen = slot[s].gen
  BY <1>2
<1>. QED
  BY <1>5, <1>7, <1>8 DEF Span

(* A pass over one stream has one candidate. *)
LEMMA PlannedOne ==
    ASSUME NEW order, Len(order) = 1
    PROVE  \E cap \in Int : Planned(order) = <<Prefix(order[1], cap)>>
<1>1. PICK g : Planned(order) = g[Len(order)] /\ \A k \in Nat : Passes(g, k, order)
  BY PlannedPasses
<1>2. g[0] = <<>> /\ g[1] = Extended(order, 1, g[0])
  BY <1>1 DEF Passes
<1>3. <<>> \in Seq(Plan)
  OBVIOUS
<1>4. Cardinality(Payload(<<>>)) \in Nat
  BY <1>3, PayloadFinite
<1>5. PICK cap \in Int : cap = MaxFlush - Cardinality(Payload(<<>>))
  BY <1>4, ColdConstants
<1>6. Planned(order) = Append(<<>>, Prefix(order[1], cap))
  BY <1>1, <1>2, <1>5 DEF Extended
<1>. QED
  BY <1>6

(* Hot bytes overlap no locator. *)
LEMMA HotApart ==
    ASSUME IInv, CInv, NEW s \in Live, NEW n, Ranged(n), Span(n) \subseteq slot[s].hot,
           NEW c \in Claims, c.gen = slot[s].gen, c.kind = "external"
    PROVE  ~Overlap(c, n) /\ ~Overlap(n, c)
<1>1. Span(c) \cap slot[s].hot = {} /\ Ranged(c)
  BY ClaimsTyped DEF CInv, Core, InPlace
<1>2. \A b : b \in Span(n) => b \notin Span(c)
  BY <1>1
<1>3. n.start \in Span(n) /\ c.start \in Span(c)
  BY <1>1 DEF Span, Ranged
<1>4. n.start \notin Span(c) /\ c.start \notin Span(n)
  BY <1>2, <1>3
<1>. QED
  BY <1>1, <1>4 DEF Overlap, Span, Ranged

(* An object that was just written is named by nothing. *)
LEMMA FreshNamed ==
    ASSUME IInv, NEW p, p = lastPath + 1
    PROVE  /\ ~InSlots(p) /\ ~InSaves(p) /\ \A w : ~InPages(w, p)
           /\ flusher # Idle => flusher.path # p
           /\ compactor # Idle => compactor.path # p
           /\ limbo.kind = "flush" => limbo.path # p
<1>1. lastPath \in Nat /\ \A q \in Paths : q <= lastPath => q # p
  BY DEF IInv, CountersOK, Paths
<1>2. ~InSlots(p)
  BY <1>1, SlotTyped, RefType DEF InSlots, Written
<1>3. \A w : ~InPages(w, p)
  BY <1>1, RefType DEF InPages, IInv, ObjectsOK, Written
<1>4. ~InSaves(p)
  <2>1. flusher.stage = "indexed" => \A e \in flusher.saved : e.path # p
    BY <1>1, StageIs, FlusherTyped, RefType DEF Written
  <2>2. compactor.stage = "indexed" => \A e \in compactor.saved : e.path # p
    BY <1>1, StageIs, CompactorTyped, RefType DEF Written
  <2>. QED
    BY <2>1, <2>2 DEF InSaves
<1>5. limbo.kind = "flush" => limbo.path # p
  <2>1. limbo.kind = "flush" => limbo.path \in Paths /\ limbo.path <= lastPath
    BY DEF IInv, LimboOK, NoCommand, LostCommand
  <2>. QED
    BY <1>1, <2>1
<1>. QED
  BY <1>1, <1>2, <1>3, <1>4, <1>5, FlusherTyped, CompactorTyped

LEMMA PlanFlushSafe ==
    ASSUME IInv, IInv', CInv, NEW s \in Live, NEW cap \in Int, NEW shared \in BOOLEAN,
           NEW c, c = Prefix(s, cap), PlanFlush(<<c>>, shared),
           (IF shared THEN "pack" ELSE "flush") \in Duties
    PROVE  CInv'
<1> DEFINE p == lastPath + 1
           n == OfFlush(c, p, shared)
<1>1. /\ flusher = Idle /\ lastPath < MaxPath /\ c.start < c.end
      /\ lastPath' = p
      /\ store' = [store EXCEPT ![p] = [dir |-> IF shared THEN 0 ELSE c.gen, bytes |-> Payload(<<c>>)]]
      /\ flusher' = [stage |-> "uploaded", path |-> p, shared |-> shared,
                     todo |-> <<c>>, published |-> FALSE, gen |-> 0, saved |-> {}]
      /\ UNCHANGED <<slot, gc, lastGen, pages>>
      /\ UNCHANGED <<compactor, offloader, collector, limbo, orphans>>
  BY DEF PlanFlush, replicated, outcome
<1>2. s \in Streams /\ slot[s].live /\ slot[s].gen \in 1 .. lastGen
  BY LiveTyped
<1>3. c.stream = s /\ c.gen = slot[s].gen /\ c.end <= slot[s].tail /\ Span(c) \subseteq slot[s].hot
  BY <1>1, <1>2, PrefixIs
<1>4. lastPath \in Nat /\ p \in Paths /\ p > lastPath
  BY <1>1, ColdConstants DEF IInv, CountersOK, Paths
<1>5. c.start \in 0 .. MaxTail /\ c.end \in 0 .. MaxTail
  <2>1. c \in Plan
    BY <1>2, PrefixType DEF IInv
  <2>. QED
    BY <2>1 DEF Plan
<1>6. /\ n.kind = (IF shared THEN "slice" ELSE "chunk") /\ n.gen = c.gen /\ n.start = c.start
      /\ n.end = c.end /\ n.path = p
  BY ClaimFields
<1>7. flusher' # Idle /\ flusher'.stage = "uploaded" /\ flusher'.path = p /\ flusher'.todo = <<c>>
      /\ flusher'.shared = shared /\ flusher'.published = FALSE
  BY <1>1 DEF Idle
<1>8. store'[p] = [dir |-> IF shared THEN 0 ELSE c.gen, bytes |-> Payload(<<c>>)]
  BY <1>1, <1>4 DEF IInv, ObjectsOK
<1>9. BytesOf(c.gen, c) \subseteq Payload(<<c>>)
  <2>1. 1 \in DOMAIN <<c>> /\ <<c>>[1] = c
    OBVIOUS
  <2>. QED
    BY <2>1 DEF Payload
<1>10. BytesOf(n.gen, n) = BytesOf(c.gen, c) /\ Span(n) = Span(c)
  BY <1>6 DEF BytesOf, Span
<1> HIDE DEF n
<1>11. Fits(n)
  <2>1. Ranged(n) /\ n.path = lastPath + 1 /\ lastPath' = lastPath + 1 /\ n.gen \in 1 .. lastGen
    BY <1>1, <1>2, <1>3, <1>5, <1>6 DEF Ranged
  <2>2. n.kind # "external"
    BY <1>6
  <2>3. \A d \in Claims : d.gen = n.gen /\ (d.kind = "external" \/ n.kind = "external") =>
           ~Overlap(d, n) /\ ~Overlap(n, d)
    BY <1>3, <1>6, <1>10, <2>1, <2>2, HotApart
  <2>4. \A t \in Live' : slot'[t].gen = n.gen => n.end <= slot'[t].tail
    BY <1>1, <1>3, <1>6, OneLive DEF Live
  <2>5. store'[n.path].dir = IF n.kind = "chunk" THEN n.gen ELSE 0
    BY <1>6, <1>8
  <2>6. BytesOf(n.gen, n) \subseteq store'[n.path].bytes
    BY <1>6, <1>8, <1>9, <1>10
  <2>. QED
    BY <2>1, <2>2, <2>3, <2>4, <2>5, <2>6 DEF Fits
<1>12. PICK N : N = {n}
  OBVIOUS
<1>13. (\A m \in N : Fits(m)) /\ (\A m, k \in N : m = k)
  BY <1>11, <1>12
<1>14. Claims' \subseteq Claims \cup N
  <2>1. PICK S : S = Claims \cup N
    OBVIOUS
  <2>2. n \in S /\ \A d \in Claims : d \in S
    BY <1>12, <2>1
  <2>3. OfFlush(flusher'.todo[1], flusher'.path, flusher'.shared) \in S
    BY <1>7, <2>2 DEF n
  <2>4. Claims' \subseteq S
    BY <1>1, <1>7, <2>2, <2>3, ClaimIs, ClaimsFrom
  <2>. QED
    BY <2>1, <2>4
<1>15. StoreKeeps
  BY <1>1, <1>4 DEF StoreKeeps, IInv, ObjectsOK
<1>16. lastPath <= lastPath' /\ lastPath' \in Nat
  BY <1>1, <1>4
<1>17. Core' /\ Laid' /\ Untrimmed'
  BY <1>1, <1>13, <1>14, <1>15, <1>16, DoomStays, WorkerCore
<1>18. Own'
  <2>1. flusher.stage # "indexed" /\ flusher'.stage # "indexed"
    BY <1>1, <1>7 DEF Idle
  <2>2. ~Elsewhere(flusher, flusher.path)'
    <3>1. PICK q : q = lastPath + 1
      OBVIOUS
    <3>2. ~InSlots(q)' /\ ~InSaves(q)' /\ ~InPages(flusher, q)'
      BY <1>1, <2>1, <3>1, FreshNamed DEF InSlots, InSaves, InPages
    <3>. QED
      BY <1>7, <3>1, <3>2 DEF Elsewhere, InSlots, InSaves, InPages
  <2>3. compactor # Idle => ~Elsewhere(compactor, compactor.path)'
    BY <1>1, <2>1 DEF CInv, Own, Elsewhere, InSlots, InPages, InSaves
  <2>4. /\ compactor # Idle => compactor.path # p
        /\ limbo.kind = "flush" => limbo.path # p
    BY FreshNamed
  <2>. QED
    BY <1>1, <1>7, <2>2, <2>3, <2>4 DEF CInv, Own
<1>19. Modes'
  <2>1. Turns'
    BY <1>1, <1>7 DEF CInv, Modes, Turns, Indexing
  <2>2. FlusherAt'
    BY <1>1, <1>7 DEF FlusherAt, FlushDuty
  <2>. QED
    BY <1>1, <1>16, <1>17, <2>1, <2>2, WorkersStay DEF Modes
<1>20. Indexed'
  BY <1>1, <1>7, IndexedStays DEF Indexed
<1>21. \A g : Views(g)' = Views(g)
  BY <1>1, <1>7 DEF Views, Saved, Idle
<1>22. Served'
  BY <1>1, <1>21 DEF CInv, Served, Live, Views
<1>23. Clear'
  <2>1. flusher.stage # "indexed"
    BY <1>1 DEF Idle
  <2>. QED
    BY <1>1, <1>21, <2>1, ClearStays
<1>. QED
  BY <1>17, <1>18, <1>19, <1>20, <1>22, <1>23 DEF CInv

LEMMA PlansSafe ==
    ASSUME Limits, IInv, IInv', CInv, PlanExclusive \/ PlanPack
    PROVE  CInv'
<1>1. CASE PlanExclusive
  <2>1. PICK s \in Live : PlanFlush(Planned(<<s>>), FALSE)
    BY <1>1 DEF PlanExclusive
  <2>2. Len(<<s>>) = 1 /\ <<s>>[1] = s
    OBVIOUS
  <2>3. PICK cap \in Int : Planned(<<s>>) = <<Prefix(s, cap)>>
    BY <2>2, PlannedOne
  <2>. QED
    BY <1>1, <2>1, <2>3, PlanFlushSafe DEF PlanExclusive
<1>2. CASE PlanPack
  <2>1. PICK T \in SUBSET Live : /\ Cardinality(T) \in 1 .. PackWidth
                                 /\ \E order \in SetToSeqs(T) : PlanFlush(Planned(order), TRUE)
    BY <1>2 DEF PlanPack
  <2>2. PICK order \in SetToSeqs(T) : PlanFlush(Planned(order), TRUE)
    BY <2>1
  <2>3. order \in [1 .. Cardinality(T) -> T]
    BY DEF SetToSeqs
  <2>4. Cardinality(T) = 1
    BY <2>1, ColdConstants DEF Limits
  <2>5. Len(order) = 1 /\ order[1] \in Live
    BY <2>3, <2>4
  <2>6. PICK cap \in Int : Planned(order) = <<Prefix(order[1], cap)>>
    BY <2>5, PlannedOne
  <2>. QED
    BY <1>2, <2>2, <2>5, <2>6, PlanFlushSafe DEF PlanPack
<1>. QED
  BY <1>1, <1>2

(* While a worker waits for its proposal, nothing else relies on a page. *)
LEMMA TurnAlone ==
    ASSUME IInv, CInv
    PROVE  /\ flusher.stage = "indexed" => compactor.stage # "indexed" /\ offloader = Idle
           /\ compactor.stage = "indexed" => flusher.stage # "indexed" /\ offloader = Idle
           /\ offloader # Idle => flusher.stage # "indexed" /\ compactor.stage # "indexed"
           /\ flusher.stage = "indexed" \/ compactor.stage = "indexed" \/ offloader # Idle =>
                limbo.kind \notin {"offload", "compact"} /\ (limbo.kind = "flush" => limbo.shared)
<1>1. offloader # Idle => offloader.stage = "indexed"
  BY DEF IInv, OffloaderOK, Offload
<1>2. limbo.kind = "flush" => limbo.shared \in BOOLEAN
  BY DEF IInv, LimboOK, LostCommand, NoCommand
<1>. QED
  BY <1>1, <1>2 DEF CInv, Modes, Turns, Indexing

(* The object of a flush is named by its page entry only. *)
LEMMA FlushNamed ==
    ASSUME IInv, CInv, flusher # Idle
    PROVE  /\ \A s \in Streams : \A r \in slot[s].chunks \cup slot[s].external : r.path # flusher.path
           /\ \A g \in 0 .. MaxGen : \A e \in pages[g] :
                e.path = flusher.path => flusher.stage = "indexed" /\ g = flusher.gen /\ e = FlushEntry
           /\ flusher.stage = "indexed" => \A e \in flusher.saved : e.path # flusher.path
           /\ compactor.stage = "indexed" => \A e \in compactor.saved : e.path # flusher.path
           /\ compactor # Idle => compactor.path # flusher.path
           /\ limbo.kind = "flush" => limbo.path # flusher.path
<1>1. ~Elsewhere(flusher, flusher.path)
  BY DEF CInv, Own
<1>2. ASSUME NEW g \in 0 .. MaxGen, NEW e \in pages[g], e.path = flusher.path
      PROVE  flusher.stage = "indexed" /\ g = flusher.gen /\ e = FlushEntry
  <2>1. flusher.stage = "indexed" /\ g = flusher.gen
    BY <1>1, <1>2 DEF Elsewhere, InPages
  <2>2. ~flusher.shared /\ flusher.gen = flusher.todo[1].gen
    BY <2>1 DEF CInv, Modes, FlusherAt
  <2>3. OfFlush(flusher.todo[1], flusher.path, FALSE) \in Claims
    <3>1. flusher.shared = FALSE
      BY <2>2, FlusherTyped
    <3>. QED
      BY <3>1, ClaimIs
  <2>4. OfFlush(flusher.todo[1], flusher.path, FALSE) = OfEntry(flusher.todo[1].gen, FlushEntry)
    BY EntryClaims DEF FlushEntry
  <2>5. OfEntry(g, e) \in Claims /\ e \in PageEntry
    BY ClaimIs, PageTyped
  <2>6. OfEntry(g, e) = OfEntry(flusher.todo[1].gen, FlushEntry)
    <3>1. /\ OfEntry(g, e).path = e.path
          /\ OfFlush(flusher.todo[1], flusher.path, FALSE).path = flusher.path
      BY DEF OfEntry, OfRef, OfFlush, Claim
    <3>. QED
      BY <1>2, <2>3, <2>4, <2>5, <3>1 DEF CInv, Core, OnePurpose
  <2>7. e = FlushEntry
    BY <2>5, <2>6, FlusherTyped, OneEntry
  <2>. QED
    BY <2>1, <2>7
<1>3. /\ \A s \in Streams : \A r \in slot[s].chunks \cup slot[s].external : r.path # flusher.path
      /\ flusher.stage = "indexed" => \A e \in flusher.saved : e.path # flusher.path
      /\ compactor.stage = "indexed" => \A e \in compactor.saved : e.path # flusher.path
  BY <1>1 DEF Elsewhere, InSlots, InSaves
<1>. QED
  BY <1>2, <1>3 DEF CInv, Own

(* A flush that ends without being published. *)
LEMMA DropFlush ==
    ASSUME IInv, IInv', CInv, flusher # Idle, flusher' = Idle,
           UNCHANGED <<slot, gc, lastGen, lastPath>>,
           UNCHANGED <<compactor, offloader, collector, limbo>>, Discard(flusher.path),
           pages' = IF flusher.stage = "indexed"
                    THEN RolledBack(flusher.gen, FlushEntry, flusher.saved) ELSE pages
    PROVE  CInv'
<1>0. /\ store' = store \/ store' = [store EXCEPT ![flusher.path] = NoObject]
      /\ orphans \subseteq orphans'
  BY DEF Discard
<1>1. flusher'.stage # "indexed"
  BY DEF Idle
<1>2. flusher.stage = "indexed" => flusher.gen \in 0 .. MaxGen
  BY FlusherTyped
<1>3. ASSUME NEW g \in 0 .. MaxGen
      PROVE  \/ pages'[g] = pages[g] /\ (flusher.stage = "indexed" /\ g = flusher.gen => FlushEntry \notin pages[g])
             \/ flusher.stage = "indexed" /\ g = flusher.gen /\ pages'[g] = flusher.saved
  BY <1>2, <1>3 DEF RolledBack, IInv, ObjectsOK
<1>4. \A g \in 0 .. MaxGen : \A e \in pages'[g] : e.path # flusher.path
  BY <1>3, FlushNamed
<1>5. \A g \in 0 .. MaxGen : \A e \in pages'[g] : OfEntry(g, e) \in Claims
  BY <1>3, ClaimIs
<1>6. Claims' \subseteq {c \in Claims : c.path # flusher.path}
  <2>1. PICK S : S = {c \in Claims : c.path # flusher.path}
    OBVIOUS
  <2>2. \A c \in Claims : c.path # flusher.path => c \in S
    BY <2>1
  <2>3. /\ \A s \in Streams : \A r \in slot[s].chunks : OfRef("slice", slot[s].gen, r) \in S
        /\ \A s \in Streams : \A r \in slot[s].external : OfRef("external", slot[s].gen, r) \in S
    BY <2>2, ClaimIs, ClaimFields, FlushNamed
  <2>4. \A g \in 0 .. MaxGen : \A e \in pages'[g] : OfEntry(g, e) \in S
    BY <1>4, <1>5, <2>2, ClaimFields
  <2>5. compactor.stage = "indexed" => \A e \in compactor.saved : OfEntry(compactor.gen, e) \in S
    BY <2>2, ClaimIs, ClaimFields, FlushNamed
  <2>6. compactor # Idle =>
          OfRun(slot[compactor.stream].gen, compactor.run, compactor.path) \in S
    BY <2>2, ClaimIs, ClaimFields, FlushNamed
  <2>7. limbo.kind = "flush" => OfFlush(limbo.candidate, limbo.path, limbo.shared) \in S
    BY <2>2, ClaimIs, ClaimFields, FlushNamed
  <2>8. Claims' \subseteq S
    BY <1>1, <2>3, <2>4, <2>5, <2>6, <2>7, ClaimsFrom
  <2>. QED
    BY <2>1, <2>8
<1>7. StoreKeeps
  <2>1. Unneeded(flusher.path)
    BY <1>6 DEF Unneeded
  <2>. QED
    BY <1>0, <2>1, FlusherTyped DEF StoreKeeps, IInv, ObjectsOK
<1>8. Claims' \subseteq Claims /\ lastPath <= lastPath'
  BY <1>6 DEF IInv, CountersOK
<1>9. Core' /\ Laid' /\ Untrimmed'
  BY <1>7, <1>8, DoomStays, WorkerKeeps
<1>10. Own'
  <2>1. compactor # Idle => ~Elsewhere(compactor, compactor.path)'
    <3>1. SUFFICES ASSUME compactor # Idle PROVE ~Elsewhere(compactor, compactor.path)'
      OBVIOUS
    <3>2. ~InSlots(compactor.path)' /\ ~InSaves(compactor.path)'
      BY <1>1, <3>1 DEF CInv, Own, Elsewhere, InSlots, InSaves
    <3>3. ~InPages(compactor, compactor.path)'
      BY <1>3, <3>1 DEF CInv, Own, Elsewhere, InPages, InSaves
    <3>. QED
      BY <3>2, <3>3 DEF Elsewhere
  <2>. QED
    BY <2>1 DEF CInv, Own
<1>11. Modes'
  <2>1. Turns'
    BY <1>1 DEF CInv, Modes, Turns, Indexing
  <2>. QED
    BY <1>0, <1>8, <1>9, <2>1, WorkersStay DEF Modes
<1>12. Indexed'
  <2>1. CASE pages' = pages
    BY <1>1, <2>1, IndexedStays DEF Indexed
  <2>2. CASE flusher.stage = "indexed"
    BY <1>1, <2>2, TurnAlone DEF Indexed
  <2>. QED
    BY <2>1, <2>2
<1>13. \A s \in Live : \A P \in Views(slot[s].gen)' :
         P \in Views(slot[s].gen) /\ \A e \in P : e.path # flusher.path
  <2>1. SUFFICES ASSUME NEW s \in Live, NEW P \in Views(slot[s].gen)'
                 PROVE  P \in Views(slot[s].gen) /\ \A e \in P : e.path # flusher.path
    OBVIOUS
  <2>2. PICK g \in 0 .. MaxGen : g = slot[s].gen
    BY LiveTyped
  <2>3. P \in Views(g)'
    BY <2>1, <2>2 DEF Views, Saved
  <2>4. P = pages'[g] \/ (compactor.stage = "indexed" /\ compactor.gen = g /\ P = compactor.saved)
    BY <1>1, <2>3, ViewsNext
  <2>. QED
    BY <1>3, <1>4, <2>2, <2>4, ViewsNow, FlushNamed
<1>14. Served'
  BY <1>13, ServedStays
<1>15. Clear'
  <2>1. FlushEntry.path = flusher.path
    BY EntryFields DEF FlushEntry
  <2>2. \A s \in Live : \A e \in UNION Views(slot[s].gen)' :
          e \in UNION Views(slot[s].gen) /\ e # FlushEntry
    BY <1>13, <2>1
  <2>. QED
    BY <1>0, <2>2, ClearStays
<1>. QED
  BY <1>9, <1>10, <1>11, <1>12, <1>14, <1>15 DEF CInv

(* A page is written when nothing else relies on one. *)
LEMMA MayIndexAlone ==
    ASSUME Limits, IInv, MayIndex
    PROVE  /\ limbo = NoCommand /\ limbo.kind = "none" /\ flusher.stage # "indexed"
           /\ compactor.stage # "indexed" /\ offloader = Idle
<1>1. offloader # Idle => offloader.stage = "indexed"
  BY DEF IInv, OffloaderOK, Offload
<1>. QED
  BY <1>1 DEF MayIndex, Limits, Settled, NoCommand

(* An entry for hot bytes clips no entry that serves a read. *)
LEMMA ClipKeeps ==
    ASSUME NEW e, NEW f, NEW page, NEW v, f \in page, Robust(f, v), Ranged(e), Ranged(f),
           Span(e) \subseteq v.hot
    PROVE  f \in Clipped(page, e)
<1>1. Span(f) \cap Span(e) = {}
  BY DEF Robust
<1>2. e.start \in Span(e) /\ f.start \in Span(f)
  BY DEF Span, Ranged
<1>3. e.start \notin Span(f) /\ f.start \notin Span(e)
  BY <1>1, <1>2
<1>4. ~Overlap(e, f)
  BY <1>3 DEF Overlap, Span, Ranged
<1>. QED
  BY <1>4 DEF Clipped

LEMMA IndexFlushFits ==
    ASSUME Limits, IInv, IInv', CInv, IndexFlush, FlushFits(flusher.todo[1])
    PROVE  CInv'
<1> DEFINE c == flusher.todo[1]
           g == slot[c.stream].gen
<1>1. /\ flusher.stage = "uploaded" /\ ~flusher.shared /\ MayIndex
      /\ pages' = [pages EXCEPT ![g] = Clipped(pages[g], FlushEntry)]
      /\ flusher' = [flusher EXCEPT !.stage = "indexed", !.gen = g, !.saved = pages[g]]
      /\ UNCHANGED <<slot, gc, lastGen, store, lastPath>>
      /\ UNCHANGED <<compactor, offloader, collector, limbo, orphans>>
  BY DEF IndexFlush, replicated
<1>2. flusher # Idle
  BY <1>1 DEF Idle
<1>3. /\ limbo.kind = "none" /\ compactor.stage # "indexed" /\ offloader = Idle
  BY <1>1, MayIndexAlone
<1>4. /\ c.stream \in Live /\ c.gen = g /\ Span(c) \subseteq slot[c.stream].hot /\ g \in 0 .. MaxGen
  <2>1. c.stream \in Live /\ c.gen = g /\ Span(c) \subseteq slot[c.stream].hot
    BY <1>2, FlusherTyped DEF FlushFits, Live
  <2>. QED
    BY <2>1, LiveTyped
<1>5. /\ flusher'.stage = "indexed" /\ flusher'.gen = g /\ flusher'.saved = pages[g] /\ flusher' # Idle
      /\ flusher'.path = flusher.path /\ flusher'.todo = flusher.todo /\ flusher'.shared = flusher.shared
      /\ flusher'.published = flusher.published
  <2>1. flusher \in Flush
    BY <1>2, FlusherTyped
  <2>. QED
    BY <1>1, <2>1 DEF Flush, Idle
<1>6. FlushEntry' = FlushEntry
  BY <1>5 DEF FlushEntry
<1>7. /\ FlushEntry \in PageEntry /\ FlushEntry.path = flusher.path
      /\ FlushEntry.start = c.start /\ FlushEntry.end = c.end /\ Ranged(FlushEntry)
  <2>1. FlushEntry \in PageEntry
    BY <1>2, FlusherTyped
  <2>2. FlushEntry.path = flusher.path /\ FlushEntry.start = c.start /\ FlushEntry.end = c.end
    BY DEF FlushEntry, Entry
  <2>. QED
    BY <2>1, <2>2, EntryRanged
<1>8. OfEntry(g, FlushEntry) \in Claims
  <2>1. OfEntry(c.gen, FlushEntry) = OfFlush(c, flusher.path, FALSE)
    BY EntryClaims DEF FlushEntry
  <2>2. flusher.shared = FALSE
    BY <1>1, <1>2, FlusherTyped
  <2>. QED
    BY <1>2, <1>4, <2>1, <2>2, ClaimIs
<1> HIDE DEF c, g
<1>9. /\ pages'[g] = Clipped(pages[g], FlushEntry)
      /\ \A h \in 0 .. MaxGen : h # g => pages'[h] = pages[h]
      /\ \A h \in 0 .. MaxGen : \A e \in pages'[h] : e \in pages[h] \/ (h = g /\ e = FlushEntry)
      /\ FlushEntry \in pages'[g]
  BY <1>1, <1>4 DEF IInv, ObjectsOK, Clipped
<1>10. Claims' \subseteq Claims
  <2>1. \A h \in 0 .. MaxGen : \A e \in pages'[h] : OfEntry(h, e) \in Claims
    BY <1>8, <1>9, ClaimIs
  <2>2. \A e \in flusher'.saved : OfEntry(flusher'.gen, e) \in Claims
    BY <1>4, <1>5, ClaimIs
  <2>3. OfFlush(flusher'.todo[1], flusher'.path, flusher'.shared) \in Claims
    BY <1>2, <1>5, ClaimIs
  <2>. QED
    BY <1>1, <1>3, <2>1, <2>2, <2>3, ClaimIs, ClaimsFrom
<1>11. lastPath <= lastPath'
  BY <1>1 DEF IInv, CountersOK
<1>12. Core' /\ Laid' /\ Untrimmed'
  BY <1>1, <1>10, <1>11, DoomStays, StoreStays, WorkerKeeps
<1>13. Own'
  <2>1. \A h \in 0 .. MaxGen : \A e \in pages[h] : e.path # flusher.path
    BY <1>1, <1>2, FlushNamed
  <2>2. ~Elsewhere(flusher, flusher.path)'
    <3>1. ~InSlots(flusher.path)'
      BY <1>1, <1>2, <1>5, FlushNamed DEF InSlots
    <3>2. ~InSaves(flusher.path)'
      BY <1>1, <1>3, <1>4, <1>5, <2>1 DEF InSaves
    <3>3. ~InPages(flusher, flusher.path)'
      BY <1>5, <1>9, <2>1 DEF InPages
    <3>. QED
      BY <3>1, <3>2, <3>3 DEF Elsewhere
  <2>3. compactor # Idle => ~Elsewhere(compactor, compactor.path)'
    <3>1. SUFFICES ASSUME compactor # Idle PROVE ~Elsewhere(compactor, compactor.path)'
      OBVIOUS
    <3>2. ~Elsewhere(compactor, compactor.path) /\ compactor.path # flusher.path
      BY <1>2, <3>1 DEF CInv, Own
    <3>3. \A h \in 0 .. MaxGen : \A e \in pages[h] : e.path # compactor.path
      BY <1>3, <3>2 DEF Elsewhere, InPages
    <3>4. ~InSlots(compactor.path)'
      BY <1>1, <3>2 DEF Elsewhere, InSlots
    <3>5. ~InSaves(compactor.path)'
      BY <1>1, <1>3, <1>4, <1>5, <3>3 DEF InSaves
    <3>6. ~InPages(compactor, compactor.path)'
      BY <1>1, <1>7, <1>9, <3>2, <3>3 DEF InPages
    <3>. QED
      BY <3>4, <3>5, <3>6 DEF Elsewhere
  <2>. QED
    BY <1>1, <1>2, <1>3, <1>5, <2>2, <2>3 DEF CInv, Own
<1>14. Modes'
  <2>1. Turns'
    BY <1>1, <1>3 DEF Turns, Indexing, Idle
  <2>2. FlusherAt'
    BY <1>1, <1>2, <1>4, <1>5 DEF CInv, Modes, FlusherAt, FlushDuty, c
  <2>. QED
    BY <1>1, <1>11, <1>12, <2>1, <2>2, WorkersStay DEF Modes
<1>15. Indexed'
  BY <1>1, <1>3, <1>5, <1>6, <1>9 DEF Indexed
<1>16. ASSUME NEW s \in Live, NEW P \in Views(slot[s].gen)'
       PROVE  \/ P \in Views(slot[s].gen)
              \/ s = c.stream /\ P = pages'[g]
  <2>1. PICK h \in 0 .. MaxGen : h = slot[s].gen
    BY LiveTyped
  <2>2. P \in Views(h)'
    BY <1>1, <1>16, <2>1 DEF Views, Saved
  <2>3. P = pages'[h] \/ (h = g /\ P = pages[g])
    BY <1>1, <1>3, <1>5, <2>2, ViewsNext
  <2>4. h = g => s = c.stream
    BY <1>4, <2>1, OneLive DEF g
  <2>. QED
    BY <1>9, <2>1, <2>3, <2>4, ViewsNow
<1>17. Served'
  <2>1. ASSUME NEW f \in pages[g], Robust(f, slot[c.stream]) PROVE f \in pages'[g]
    <3>1. Ranged(f)
      BY <1>4, PageTyped, EntryRanged
    <3>2. Span(FlushEntry) = Span(c)
      BY <1>7 DEF Span
    <3>. QED
      BY <1>4, <1>7, <1>9, <2>1, <3>1, <3>2, ClipKeeps
  <2>2. pages[g] \in Views(slot[c.stream].gen)
    BY ViewsNow DEF g
  <2>. QED
    BY <1>1, <1>16, <2>1, <2>2, ServedStays
<1>18. Clear'
  <2>1. ASSUME NEW s \in Live, NEW P \in Views(slot[s].gen)', NEW e \in P
        PROVE  e \in UNION Views(slot[s].gen) \/ e = FlushEntry
    <3>1. CASE s = c.stream /\ P = pages'[g]
      <4>1. e \in pages[g] \/ e = FlushEntry
        BY <1>4, <1>9, <2>1, <3>1
      <4>2. pages[g] \in Views(slot[s].gen)
        BY <3>1, ViewsNow DEF g
      <4>. QED
        BY <4>1, <4>2
    <3>. QED
      BY <1>16, <2>1, <3>1
  <2>2. \A s \in Live : \A e \in UNION Views(slot[s].gen)' :
          e \in UNION Views(slot[s].gen) \/ e = FlushEntry
    BY <2>1
  <2>. QED
    BY <1>1, <1>3, <1>5, <1>6, <2>2, ClearStays
<1>. QED
  BY <1>12, <1>13, <1>14, <1>15, <1>17, <1>18 DEF CInv

LEMMA LoseFlushSafe ==
    ASSUME Limits, IInv, IInv', CInv, LoseFlush
    PROVE  CInv'
<1>1. /\ flusher # Idle /\ FlushDuty \in Lossy /\ FlushProposing /\ limbo = NoCommand
      /\ limbo' = [kind |-> "flush", candidate |-> flusher.todo[1],
                   path |-> flusher.path, shared |-> flusher.shared]
      /\ orphans' = orphans \cup {flusher.path}
      /\ flusher' = Idle
      /\ UNCHANGED <<slot, gc, lastGen, store, pages, lastPath>>
      /\ UNCHANGED <<compactor, offloader, collector>>
  BY DEF LoseFlush, replicated, Settled
<1>2. /\ limbo'.kind = "flush" /\ limbo'.candidate = flusher.todo[1]
      /\ limbo'.path = flusher.path /\ limbo'.shared = flusher.shared
  BY <1>1
<1>3. flusher'.stage # "indexed" /\ limbo.kind = "none"
  BY <1>1 DEF Idle, NoCommand
<1>4. ~flusher.shared => /\ flusher.stage = "indexed" /\ compactor.stage # "indexed" /\ offloader = Idle
                         /\ "flush" \in Lossy /\ "raw" \notin Duties
                         /\ flusher.gen = flusher.todo[1].gen
  BY <1>1, TurnAlone DEF FlushProposing, FlushDuty, Limits, CInv, Modes, FlusherAt
<1>5. flusher.stage = "indexed" => ~flusher.shared
  BY <1>1 DEF CInv, Modes, FlusherAt
<1>6. Claims' \subseteq Claims
  BY <1>1, <1>2, <1>3, ClaimIs, ClaimsFrom
<1>7. lastPath <= lastPath'
  BY <1>1 DEF IInv, CountersOK
<1>8. Core' /\ Laid' /\ Untrimmed'
  BY <1>1, <1>2, <1>6, <1>7, DoomStays, StoreStays, WorkerKeeps
<1>9. Own'
  <2>1. compactor # Idle => ~Elsewhere(compactor, compactor.path)'
    BY <1>1, <1>3 DEF CInv, Own, Elsewhere, InSlots, InPages, InSaves
  <2>2. compactor # Idle => compactor.path # flusher.path
    BY <1>1 DEF CInv, Own
  <2>. QED
    BY <1>1, <1>2, <2>1, <2>2 DEF Own
<1>10. Modes'
  <2>1. Turns'
    BY <1>1, <1>2, <1>3, <1>4 DEF CInv, Modes, Turns, Indexing, Idle
  <2>2. LimboAt'
    BY <1>1, <1>2, <1>4 DEF LimboAt
  <2>. QED
    BY <1>1, <1>7, <1>8, <2>1, <2>2, WorkersStay DEF Modes
<1>11. Indexed'
  <2>1. limbo'.kind = "flush" /\ ~limbo'.shared /\ LiveGen(limbo.candidate.gen)' =>
          LimboEntry' \in pages'[limbo'.candidate.gen]
    <3>1. SUFFICES ASSUME ~flusher.shared, LiveGen(limbo.candidate.gen)'
                   PROVE  LimboEntry' \in pages[flusher.gen]
      BY <1>1, <1>2, <1>4
    <3>2. LimboEntry' = FlushEntry
      BY <1>2 DEF LimboEntry, FlushEntry
    <3>3. LiveGen(flusher.gen)
      BY <1>1, <1>2, <1>4, <3>1 DEF LiveGen, Live
    <3>. QED
      BY <1>4, <3>1, <3>2, <3>3 DEF CInv, Indexed
  <2>. QED
    BY <1>1, <1>2, <1>3, <2>1, IndexedStays DEF Indexed
<1>12. \A s \in Live : \A P \in Views(slot[s].gen)' : P \in Views(slot[s].gen)
  BY <1>1, <1>3 DEF Views, Saved
<1>13. Served'
  BY <1>1, <1>12, ServedStays
<1>14. Clear'
  <2>1. \A s \in Live : \A e \in UNION Views(slot[s].gen)' : e \in UNION Views(slot[s].gen)
    BY <1>12
  <2>2. flusher.stage = "indexed" => FlushEntry.path \in orphans' /\ "raw" \notin Duties
    BY <1>1, <1>4, <1>5 DEF FlushEntry, Entry
  <2>3. orphans \subseteq orphans'
    BY <1>1
  <2>. QED
    BY <1>1, <2>1, <2>2, <2>3, ClearStays
<1>. QED
  BY <1>8, <1>9, <1>10, <1>11, <1>13, <1>14 DEF CInv

(* The process of the flush ended, or its page write or rollback failed. *)
LEMMA AbandonFlushSafe ==
    ASSUME Limits, IInv, IInv', CInv, AbandonFlush
    PROVE  CInv'
<1>1. /\ flusher # Idle /\ FlushDuty \in Lossy /\ flusher' = Idle
      /\ orphans' = orphans \cup {flusher.path}
      /\ UNCHANGED <<slot, gc, lastGen, store, pages, lastPath>>
      /\ UNCHANGED <<compactor, offloader, collector, limbo>>
  BY DEF AbandonFlush, replicated, CInv, Modes, FlusherAt
<1>2. flusher'.stage # "indexed"
  BY <1>1 DEF Idle
<1>3. flusher.stage = "indexed" => "raw" \notin Duties
  BY <1>1 DEF FlushDuty, Limits, CInv, Modes, FlusherAt
<1>4. Claims' \subseteq Claims
  BY <1>1, <1>2, ClaimIs, ClaimsFrom
<1>5. lastPath <= lastPath' /\ orphans \subseteq orphans'
  BY <1>1 DEF IInv, CountersOK
<1>6. Core' /\ Laid' /\ Untrimmed'
  BY <1>1, <1>4, <1>5, DoomStays, StoreStays, WorkerKeeps
<1>7. Own'
  <2>1. compactor # Idle => ~Elsewhere(compactor, compactor.path)'
    BY <1>1, <1>2 DEF CInv, Own, Elsewhere, InSlots, InPages, InSaves
  <2>. QED
    BY <1>1, <2>1 DEF CInv, Own
<1>8. Modes'
  <2>1. Turns'
    BY <1>1, <1>2 DEF CInv, Modes, Turns, Indexing
  <2>. QED
    BY <1>1, <1>5, <1>6, <2>1, WorkersStay DEF Modes
<1>9. Indexed'
  BY <1>1, <1>2, IndexedStays DEF Indexed
<1>10. \A s \in Live : \A P \in Views(slot[s].gen)' : P \in Views(slot[s].gen)
  BY <1>1, <1>2 DEF Views, Saved
<1>11. Served'
  BY <1>1, <1>10, ServedStays
<1>12. Clear'
  <2>1. \A s \in Live : \A e \in UNION Views(slot[s].gen)' : e \in UNION Views(slot[s].gen)
    BY <1>10
  <2>2. flusher.stage = "indexed" => FlushEntry.path \in orphans' /\ "raw" \notin Duties
    BY <1>1, <1>3 DEF FlushEntry, Entry
  <2>. QED
    BY <1>1, <1>5, <2>1, <2>2, ClearStays
<1>. QED
  BY <1>6, <1>7, <1>8, <1>9, <1>11, <1>12 DEF CInv

---------------------------------------------------------------------------
(* A flush that is applied, when it is answered or after its answer was    *)
(* lost.                                                                   *)

Applied(c, path, shared) ==
    /\ FlushFits(c) /\ FlushCold(c, path, shared)
    /\ UNCHANGED <<store, pages, lastPath>>
    /\ UNCHANGED <<compactor, offloader, collector, orphans>>
    /\ limbo' = NoCommand
    /\ \/ /\ flusher # Idle /\ flusher' = Idle /\ FlushProposing /\ limbo = NoCommand
          /\ c = flusher.todo[1] /\ path = flusher.path /\ shared = flusher.shared
       \/ /\ flusher' = flusher /\ limbo.kind = "flush"
          /\ c = limbo.candidate /\ path = limbo.path /\ shared = limbo.shared

LEMMA AppliedShape ==
    ASSUME IInv, CInv, NEW c \in Candidate, NEW path, NEW shared \in BOOLEAN, Applied(c, path, shared)
    PROVE  LET s == c.stream
               new == [start |-> c.start, end |-> c.end, path |-> path]
           IN
           /\ s \in Live /\ Others(s) /\ Ranged(c) /\ c.gen = slot[s].gen
           /\ slot'[s].live /\ slot'[s].gen = slot[s].gen /\ slot'[s].tail = slot[s].tail
           /\ slot'[s].retained = slot[s].retained
           /\ slot'[s].hot = {b \in slot[s].hot : b >= c.end}
           /\ slot'[s].chunks = slot[s].chunks \cup (IF shared THEN {new} ELSE {})
           /\ slot'[s].external = slot[s].external
           /\ gc' = gc /\ lastGen' = lastGen
           /\ Span(c) \subseteq slot[s].hot /\ (\A b \in slot[s].hot : c.start <= b)
           /\ \A r \in slot[s].chunks : ~Overlap(c, r) /\ ~Overlap(r, c)
           /\ OfFlush(c, path, shared) \in Claims
<1> DEFINE s == c.stream
           new == [start |-> c.start, end |-> c.end, path |-> path]
<1>1. FlushFits(c) /\ FlushCold(c, path, shared)
  BY DEF Applied
<1>2. /\ s \in Streams /\ slot[s].live /\ Others(s)
      /\ slot'[s].live /\ slot'[s].gen = slot[s].gen /\ slot'[s].tail = slot[s].tail
      /\ slot'[s].retained = slot[s].retained
      /\ slot'[s].hot = {b \in slot[s].hot : b >= c.end}
      /\ slot'[s].chunks = slot[s].chunks \cup (IF shared THEN {new} ELSE {})
      /\ slot'[s].external = slot[s].external
      /\ gc' = gc /\ lastGen' = lastGen
  BY <1>1, FlushColdShape
<1>3. Ranged(c)
  BY DEF Candidate, Plan, Ranged
<1>4. c.gen = slot[s].gen /\ Span(c) \subseteq slot[s].hot /\ c.start = HotStart(s)
  BY <1>1 DEF FlushFits
<1>5. \A b \in slot[s].hot : c.start <= b
  <2>1. slot[s].hot \in SUBSET Nat
    BY <1>2, SlotTyped
  <2>. QED
    BY <1>4, <2>1, MinType DEF HotStart
<1>6. ASSUME NEW r \in slot[s].chunks PROVE ~Overlap(c, r) /\ ~Overlap(r, c)
  <2>1. Ranged(r) /\ Span(r) \cap slot[s].hot = {}
    BY <1>2, <1>6, SlotTyped, EntryRanged DEF CInv, Laid
  <2>2. c.start \in Span(c) /\ r.start \in Span(r)
    BY <1>3, <2>1 DEF Span, Ranged
  <2>3. c.start \notin Span(r) /\ r.start \notin Span(c)
    BY <1>4, <2>1, <2>2
  <2>. QED
    BY <1>3, <2>1, <2>3 DEF Overlap, Span, Ranged
<1>7. OfFlush(c, path, shared) \in Claims
  BY ClaimIs DEF Applied
<1>. QED
  BY <1>2, <1>3, <1>4, <1>5, <1>6, <1>7 DEF Live

(* An entry stays clear when hot bytes of the stream become a slice or a   *)
(* chunk.                                                                  *)
LEMMA AppliedRobust ==
    ASSUME IInv, CInv, NEW c \in Candidate, NEW path, NEW shared \in BOOLEAN, Applied(c, path, shared),
           NEW e, Ranged(e), Robust(e, slot[c.stream])
    PROVE  Robust(e, slot'[c.stream])
<1> DEFINE s == c.stream
           new == [start |-> c.start, end |-> c.end, path |-> path]
<1>1. /\ slot'[s].hot \subseteq slot[s].hot /\ Ranged(c) /\ Span(c) \subseteq slot[s].hot
      /\ \A r \in slot'[s].chunks : r \in slot[s].chunks \/ (r.start = c.start /\ r.end = c.end)
  BY AppliedShape
<1>2. Span(e) \cap slot[s].hot = {} /\ \A r \in slot[s].chunks : ~Overlap(e, r)
  BY DEF Robust
<1>3. e.start \in Span(e) /\ c.start \in Span(c)
  BY <1>1 DEF Span, Ranged
<1>4. e.start \notin Span(c) /\ c.start \notin Span(e)
  BY <1>1, <1>2, <1>3
<1>5. ~(e.start < c.end /\ c.start < e.end)
  BY <1>1, <1>4 DEF Span, Ranged
<1>6. \A r \in slot'[s].chunks : ~Overlap(e, r)
  BY <1>1, <1>2, <1>5 DEF Overlap
<1>. QED
  BY <1>1, <1>2, <1>6 DEF Robust

(* The entry of an exclusive chunk serves its bytes once they leave the    *)
(* hot buffer.                                                             *)
LEMMA AppliedEntry ==
    ASSUME IInv, CInv, NEW c \in Candidate, NEW path, Applied(c, path, FALSE), NEW e,
           e.start = c.start, e.end = c.end
    PROVE  Robust(e, slot'[c.stream])
<1> DEFINE s == c.stream
<1>1. /\ slot'[s].hot = {b \in slot[s].hot : b >= c.end} /\ Ranged(c)
      /\ slot'[s].chunks = slot[s].chunks
      /\ \A r \in slot[s].chunks : ~Overlap(c, r)
  <2>1. PICK shared \in BOOLEAN : shared = FALSE
    OBVIOUS
  <2>2. Applied(c, path, shared)
    BY <2>1
  <2> DEFINE new == [start |-> c.start, end |-> c.end, path |-> path]
  <2>3. /\ slot'[s].hot = {b \in slot[s].hot : b >= c.end} /\ Ranged(c)
        /\ slot'[s].chunks = slot[s].chunks \cup (IF shared THEN {new} ELSE {})
        /\ \A r \in slot[s].chunks : ~Overlap(c, r)
    BY <2>2, AppliedShape
  <2> HIDE DEF new
  <2>. QED
    BY <2>1, <2>3
<1>2. \A r \in slot'[s].chunks : ~Overlap(e, r)
  BY <1>1 DEF Overlap
<1>. QED
  BY <1>1, <1>2 DEF Robust, Span, Ranged

LEMMA AppliedClaims ==
    ASSUME IInv, CInv, NEW c \in Candidate, NEW path, NEW shared \in BOOLEAN, Applied(c, path, shared)
    PROVE  /\ Claims' \subseteq Claims /\ Continues
           /\ \A p : InSlots(p)' => InSlots(p) \/ p = path
           /\ \A t \in Streams : /\ (slot'[t].live <=> slot[t].live) /\ slot'[t].gen = slot[t].gen
                                 /\ slot[t].chunks \subseteq slot'[t].chunks
                                 /\ slot'[t].external = slot[t].external
                                 /\ slot'[t].retained = slot[t].retained
           /\ Live' = Live
<1> DEFINE s == c.stream
           new == [start |-> c.start, end |-> c.end, path |-> path]
<1>1. /\ s \in Streams /\ slot[s].live /\ Others(s) /\ c.gen = slot[s].gen
      /\ slot'[s].live /\ slot'[s].gen = slot[s].gen /\ slot'[s].tail = slot[s].tail
      /\ slot'[s].retained = slot[s].retained /\ slot'[s].external = slot[s].external
      /\ slot'[s].hot = {b \in slot[s].hot : b >= c.end}
      /\ slot'[s].chunks = slot[s].chunks \cup (IF shared THEN {new} ELSE {})
      /\ OfFlush(c, path, shared) \in Claims
  BY AppliedShape DEF Live
<1>2. \A t \in Streams : t # s => slot'[t] = slot[t]
  BY <1>1 DEF Others
<1>3. /\ pages' = pages /\ compactor' = compactor /\ limbo'.kind = "none"
      /\ flusher' \in {flusher, Idle}
  BY DEF Applied, NoCommand
<1>4. \A t \in Streams : \A r \in slot'[t].chunks :
        r \in slot[t].chunks \/ (t = s /\ shared /\ r = new)
  BY <1>1, <1>2
<1>5. \A t \in Streams : /\ (slot'[t].live <=> slot[t].live) /\ slot'[t].gen = slot[t].gen
                         /\ slot[t].chunks \subseteq slot'[t].chunks
                         /\ slot'[t].external = slot[t].external
                         /\ slot'[t].retained = slot[t].retained
  BY <1>1, <1>2
<1>6. shared => OfRef("slice", slot[s].gen, new) = OfFlush(c, path, shared)
  BY <1>1, EntryClaims
<1>7. new.path = path
  OBVIOUS
<1> HIDE DEF new
<1>8. \A t \in Streams : \A r \in slot'[t].chunks : OfRef("slice", slot'[t].gen, r) \in Claims
  BY <1>1, <1>4, <1>5, <1>6, ClaimIs
<1>9. Claims' \subseteq Claims
  <2>1. \A t \in Streams : \A r \in slot'[t].external : OfRef("external", slot'[t].gen, r) \in Claims
    BY <1>5, ClaimIs
  <2>2. compactor # Idle => slot'[compactor.stream].gen = slot[compactor.stream].gen
    BY <1>5, CompactorTyped
  <2>3. /\ flusher'.stage = "indexed" => flusher' = flusher
        /\ flusher' # Idle => flusher' = flusher
    BY <1>3 DEF Idle
  <2>. QED
    BY <1>3, <1>8, <2>1, <2>2, <2>3, ClaimIs, ClaimsFrom
<1>10. Continues
  <2>1. \A t \in Streams : slot[t].retained \in Nat /\ slot[t].tail \in Nat
    BY SlotTyped
  <2>. QED
    BY <1>1, <1>2, <2>1 DEF Continues
<1>11. \A p : InSlots(p)' => InSlots(p) \/ p = path
  BY <1>4, <1>5, <1>7 DEF InSlots
<1>12. Live' = Live
  BY <1>5 DEF Live
<1>. QED
  BY <1>5, <1>9, <1>10, <1>11, <1>12

LEMMA AppliedLaid ==
    ASSUME IInv, CInv, NEW c \in Candidate, NEW path, NEW shared \in BOOLEAN, Applied(c, path, shared)
    PROVE  Laid'
<1> DEFINE s == c.stream
<1>1. /\ s \in Streams /\ Others(s) /\ Ranged(c)
      /\ slot'[s].retained = slot[s].retained /\ slot'[s].external = slot[s].external
      /\ slot'[s].hot = {b \in slot[s].hot : b >= c.end}
      /\ \A r \in slot'[s].chunks : r \in slot[s].chunks \/ (r.start = c.start /\ r.end = c.end)
      /\ \A r, q \in slot'[s].chunks : r \in slot[s].chunks \/ q \in slot[s].chunks \/ r = q
      /\ Span(c) \subseteq slot[s].hot
      /\ \A r \in slot[s].chunks : ~Overlap(c, r) /\ ~Overlap(r, c)
  BY AppliedShape DEF Live
<1>2. LaidIn(slot[s]) /\ slot[s].retained \in Nat
  BY <1>1, SlotTyped DEF CInv, Laid, LaidIn
<1>3. c.start \in Span(c) /\ c.start >= slot[s].retained
  BY <1>1, <1>2 DEF LaidIn, Span, Ranged
<1>4. c.end > slot[s].retained
  BY <1>1, <1>2, <1>3 DEF Ranged
<1>5. LaidIn(slot'[s])
  <2>1. \A b \in slot'[s].hot : b >= slot'[s].retained
    BY <1>1, <1>2 DEF LaidIn
  <2>2. \A r \in slot'[s].chunks \cup slot'[s].external : r.end > slot'[s].retained
    BY <1>1, <1>2, <1>4 DEF LaidIn
  <2>3. \A r \in slot'[s].chunks : Span(r) \cap slot'[s].hot = {}
    <3>1. SUFFICES ASSUME NEW r \in slot'[s].chunks, r.start = c.start, r.end = c.end
                   PROVE  Span(r) \cap slot'[s].hot = {}
      BY <1>1, <1>2 DEF LaidIn
    <3>. QED
      BY <1>1, <3>1 DEF Span, Ranged
  <2>4. ASSUME NEW r \in slot'[s].chunks, NEW q \in slot'[s].chunks, r # q PROVE ~Overlap(r, q)
    <3>1. CASE r \in slot[s].chunks /\ q \in slot[s].chunks
      BY <1>2, <2>4, <3>1 DEF LaidIn
    <3>2. CASE r \in slot[s].chunks /\ q.start = c.start /\ q.end = c.end
      BY <1>1, <3>2 DEF Overlap
    <3>3. CASE q \in slot[s].chunks /\ r.start = c.start /\ r.end = c.end
      BY <1>1, <3>3 DEF Overlap
    <3>. QED
      BY <1>1, <2>4, <3>1, <3>2, <3>3
  <2>. QED
    BY <2>1, <2>2, <2>3, <2>4 DEF LaidIn
<1>6. ASSUME NEW t \in Streams PROVE LaidIn(slot'[t])
  BY <1>1, <1>5, <1>6 DEF Others, CInv, Laid, LaidIn
<1>. QED
  BY <1>6 DEF Laid, LaidIn

(* The entry that serves an exclusive chunk when its flush is applied. *)
LEMMA AppliedPaged ==
    ASSUME IInv, CInv, NEW c \in Candidate, NEW path, Applied(c, path, FALSE)
    PROVE  /\ compactor.stage # "indexed" /\ flusher'.stage # "indexed"
           /\ \E e \in pages[c.gen] : e.start = c.start /\ e.end = c.end
<1>1. LiveGen(c.gen)
  BY DEF Applied, FlushFits, LiveGen, Live, Candidate, Plan
<1>2. CASE /\ flusher # Idle /\ flusher' = Idle /\ FlushProposing
           /\ c = flusher.todo[1] /\ path = flusher.path /\ FALSE = flusher.shared
  <2>1. flusher.stage = "indexed"
    BY <1>2 DEF FlushProposing
  <2>2. flusher.gen = c.gen
    BY <1>2, <2>1 DEF CInv, Modes, FlusherAt
  <2>3. FlushEntry \in pages[c.gen]
    BY <1>1, <2>1, <2>2 DEF CInv, Indexed
  <2>4. FlushEntry.start = c.start /\ FlushEntry.end = c.end
    BY <1>2 DEF FlushEntry, Entry
  <2>. QED
    BY <1>2, <2>1, <2>2, <2>3, <2>4, TurnAlone DEF Idle
<1>3. CASE /\ flusher' = flusher /\ limbo.kind = "flush"
           /\ c = limbo.candidate /\ path = limbo.path /\ FALSE = limbo.shared
  <2>1. ~Indexing
    BY <1>3 DEF CInv, Modes, Turns
  <2>2. LimboEntry \in pages[c.gen]
    BY <1>1, <1>3 DEF CInv, Indexed
  <2>3. LimboEntry.start = c.start /\ LimboEntry.end = c.end
    BY <1>3 DEF LimboEntry, Entry
  <2>4. compactor.stage # "indexed" /\ flusher.stage # "indexed"
    BY <2>1 DEF Indexing
  <2>. QED
    BY <1>3, <2>2, <2>3, <2>4
<1>. QED
  BY <1>2, <1>3 DEF Applied

LEMMA AppliedSafe ==
    ASSUME IInv, IInv', CInv, NEW c \in Candidate, NEW path, NEW shared \in BOOLEAN,
           Applied(c, path, shared)
    PROVE  CInv'
<1> DEFINE s == c.stream
           new == [start |-> c.start, end |-> c.end, path |-> path]
<1>1. /\ UNCHANGED <<store, pages, lastPath>>
      /\ UNCHANGED <<compactor, offloader, collector, orphans>>
      /\ limbo' = NoCommand /\ limbo'.kind = "none" /\ flusher' \in {flusher, Idle}
  BY DEF Applied, NoCommand
<1>2. /\ s \in Live /\ s \in Streams /\ Others(s) /\ Ranged(c) /\ c.gen = slot[s].gen
      /\ slot'[s].live /\ slot'[s].gen = slot[s].gen /\ slot'[s].tail = slot[s].tail
      /\ slot'[s].retained = slot[s].retained
      /\ slot'[s].hot = {b \in slot[s].hot : b >= c.end}
      /\ slot'[s].chunks = slot[s].chunks \cup (IF shared THEN {new} ELSE {})
      /\ slot'[s].external = slot[s].external
      /\ gc' = gc /\ lastGen' = lastGen
      /\ \A b \in slot[s].hot : c.start <= b
  BY AppliedShape DEF Live
<1>3. /\ Claims' \subseteq Claims /\ Continues /\ Live' = Live
      /\ \A p : InSlots(p)' => InSlots(p) \/ p = path
      /\ \A t \in Streams : /\ (slot'[t].live <=> slot[t].live) /\ slot'[t].gen = slot[t].gen
                            /\ slot[t].chunks \subseteq slot'[t].chunks
                            /\ slot'[t].external = slot[t].external
                            /\ slot'[t].retained = slot[t].retained
  BY AppliedClaims
<1>4. lastPath <= lastPath' /\ lastGen <= lastGen'
  BY <1>1, <1>2 DEF IInv, CountersOK
<1>5. Core'
  <2>1. TodoDead'
    BY <1>1, <1>3, <1>4, TodoStays DEF CInv, Core, Todo
  <2>2. DoomKeeps
    BY <1>1, <1>2, DoomStays
  <2>. QED
    BY <1>1, <1>3, <1>4, <2>1, <2>2, StoreStays, CoreKeeps DEF CInv
<1>6. Laid'
  BY AppliedLaid
<1>7. Own'
  <2>1. flusher' # Idle => flusher' = flusher /\ flusher.path # path
    BY <1>1 DEF Applied, CInv, Own
  <2>2. compactor # Idle => compactor.path # path
    BY DEF Applied, CInv, Own
  <2>3. flusher' # Idle => ~Elsewhere(flusher, flusher.path)'
    <3>1. SUFFICES ASSUME flusher' = flusher, flusher # Idle PROVE ~Elsewhere(flusher, flusher.path)'
      BY <2>1
    <3>2. ~Elsewhere(flusher, flusher.path) /\ flusher.path # path
      BY <2>1, <3>1 DEF CInv, Own
    <3>3. ~InSlots(flusher.path)'
      <4>1. PICK p : p = flusher.path
        OBVIOUS
      <4>2. ~InSlots(p)'
        BY <1>3, <3>2, <4>1 DEF Elsewhere
      <4>. QED
        BY <3>1, <4>1, <4>2 DEF InSlots
    <3>. QED
      BY <1>1, <3>1, <3>2, <3>3 DEF Elsewhere, InPages, InSaves
  <2>4. compactor # Idle => ~Elsewhere(compactor, compactor.path)'
    <3>1. SUFFICES ASSUME compactor # Idle PROVE ~Elsewhere(compactor, compactor.path)'
      OBVIOUS
    <3>2. ~Elsewhere(compactor, compactor.path) /\ compactor.path # path
      BY <2>2, <3>1 DEF CInv, Own
    <3>3. ~InSlots(compactor.path)'
      <4>1. PICK p : p = compactor.path
        OBVIOUS
      <4>2. ~InSlots(p)'
        BY <1>3, <3>2, <4>1 DEF Elsewhere
      <4>. QED
        BY <1>1, <4>1, <4>2 DEF InSlots
    <3>4. flusher'.stage = "indexed" => flusher' = flusher
      BY <1>1 DEF Idle
    <3>. QED
      BY <1>1, <3>1, <3>2, <3>3, <3>4 DEF Elsewhere, InPages, InSaves
  <2>. QED
    BY <1>1, <2>1, <2>3, <2>4 DEF CInv, Own
<1>8. Modes'
  <2>1. Turns'
    BY <1>1 DEF CInv, Modes, Turns, Indexing, Idle
  <2>2. CompactorAt'
    <3>1. compactor # Idle => compactor.stream \in Streams
      BY CompactorTyped
    <3>2. compactor # Idle => (Contiguous(compactor.run) => Contiguous(compactor.run)')
      BY <1>1 DEF Contiguous, Covered, First, Beyond, Span
    <3>. QED
      BY <1>1, <1>3, <3>1, <3>2 DEF CInv, Modes, CompactorAt, CompactDuty
  <2>3. Untrimmed'
    BY <1>3 DEF CInv, Modes, Untrimmed
  <2>. QED
    BY <1>1, <1>4, <2>1, <2>2, <2>3, WorkersStay DEF Modes
<1>9. Indexed'
  <2>1. flusher'.stage = "indexed" /\ LiveGen(flusher.gen)' => FlushEntry' \in pages'[flusher'.gen]
    <3>1. SUFFICES ASSUME flusher' = flusher, flusher.stage = "indexed", LiveGen(flusher.gen)'
                   PROVE  FlushEntry' \in pages'[flusher'.gen]
      BY <1>1 DEF Idle
    <3>2. LiveGen(flusher.gen)
      BY <1>3, <3>1 DEF LiveGen, Live
    <3>3. FlushEntry' = FlushEntry
      BY <3>1 DEF FlushEntry
    <3>. QED
      BY <1>1, <3>1, <3>2, <3>3 DEF CInv, Indexed
  <2>2. compactor'.stage = "indexed" =>
         /\ Replacement' \in pages'[compactor'.gen]
         /\ ~compactor'.shared => /\ compactor'.run \subseteq compactor'.saved
                                  /\ compactor'.run \cap pages'[compactor'.gen] = {}
    <3>1. Replacement' = Replacement
      BY <1>1 DEF Replacement, First, Beyond
    <3>. QED
      BY <1>1, <3>1 DEF CInv, Indexed
  <2>3. offloader' # Idle => Paged(offloader.stream, offloader.refs)'
    <3>1. offloader # Idle => offloader.stream \in Streams
      BY DEF IInv, OffloaderOK, Offload
    <3>. QED
      BY <1>1, <1>3, <3>1 DEF CInv, Indexed, Paged
  <2>. QED
    BY <1>1, <2>1, <2>2, <2>3 DEF Indexed
<1>10. \A g : \A P \in Views(g)' : P \in Views(g)
  BY <1>1 DEF Views, Saved, Idle
<1>11. shared \/ (compactor.stage # "indexed" /\ flusher'.stage # "indexed"
                  /\ \E e \in pages[c.gen] : e.start = c.start /\ e.end = c.end)
  <2>1. CASE shared = FALSE
    <3>1. Applied(c, path, FALSE)
      BY <2>1
    <3>. QED
      BY <3>1, AppliedPaged
  <2>. QED
    BY <2>1
<1>12. ASSUME NEW t \in Live, t # s PROVE slot'[t] = slot[t]
  BY <1>2, <1>12 DEF Others, Live
<1>13. Served'
  <2>1. SUFFICES ASSUME NEW t \in Live, NEW P \in Views(slot[t].gen)' PROVE Covers(P, slot'[t])
    BY <1>3 DEF Served, Live
  <2>2. PICK g \in 0 .. MaxGen : g = slot[t].gen /\ g = slot'[t].gen
    BY <1>3, LiveTyped
  <2>3. P \in Views(g)' /\ P \in Views(slot[t].gen)
    <3>1. P \in Views(g)'
      BY <1>1, <2>1, <2>2 DEF Views, Saved
    <3>. QED
      BY <1>10, <2>2, <3>1
  <2>4. Covers(P, slot[t]) /\ \A e \in P : Ranged(e)
    <3>1. \A e \in P : e \in UNION Views(g)
      BY <2>2, <2>3
    <3>. QED
      BY <2>3, <3>1, ViewClaims DEF CInv, Served
  <2>5. CASE t # s
    BY <1>12, <2>4, <2>5
  <2>6. CASE t = s
    <3>1. SUFFICES ASSUME NEW o \in slot[s].retained .. slot[s].tail - 1, o \notin slot'[s].hot
                   PROVE  \/ \E r \in slot'[s].chunks \cup slot'[s].external : o \in Span(r)
                          \/ \E e \in P : o \in Span(e) /\ Robust(e, slot'[s])
      BY <1>2, <2>6 DEF Covers
    <3>2. CASE o \in slot[s].hot
      <4>1. o \in Span(c)
        <5>1. o \in Nat /\ c.start <= o /\ ~(o >= c.end)
          BY <1>2, <3>1, <3>2, SlotTyped
        <5>. QED
          BY <1>2, <5>1 DEF Span, Ranged
      <4>2. CASE shared
        <5>1. new \in slot'[s].chunks /\ Span(new) = Span(c)
          BY <1>2, <4>2 DEF Span
        <5>. QED
          BY <4>1, <5>1
      <4>3. CASE ~shared
        <5>1. PICK e \in pages[c.gen] : e.start = c.start /\ e.end = c.end
          BY <1>11, <4>3
        <5>2. P = pages[c.gen]
          <6>1. P = pages'[g] /\ g = c.gen
            BY <1>1, <1>2, <1>11, <2>2, <2>3, <2>6, <4>3, ViewsNext
          <6>. QED
            BY <1>1, <6>1
        <5>3. Robust(e, slot'[s])
          <6>1. shared = FALSE
            BY <4>3
          <6>. QED
            BY <5>1, <6>1, AppliedEntry
        <5>4. o \in Span(e)
          BY <4>1, <5>1 DEF Span
        <5>. QED
          BY <5>1, <5>2, <5>3, <5>4
      <4>. QED
        BY <4>2, <4>3
    <3>3. CASE \E r \in slot[s].chunks \cup slot[s].external : o \in Span(r)
      BY <1>2, <3>3
    <3>4. CASE \E e \in P : o \in Span(e) /\ Robust(e, slot[s])
      BY <2>4, <3>4, AppliedRobust
    <3>. QED
      BY <2>4, <2>6, <3>1, <3>2, <3>3, <3>4 DEF Covers
  <2>. QED
    BY <2>5, <2>6
<1>14. Clear'
  <2>1. SUFFICES ASSUME NEW t \in Live, NEW g \in 0 .. MaxGen, g = slot[t].gen, NEW e \in UNION Views(g)
                 PROVE  \/ e.external \/ Robust(e, slot'[t])
                        \/ flusher'.stage = "indexed" /\ e = FlushEntry'
                        \/ compactor'.stage = "indexed" /\ e = Replacement'
                        \/ e.path \in orphans' /\ "raw" \notin Duties
    <3>1. \A t \in Live : slot'[t].gen = slot[t].gen /\ slot[t].gen \in 0 .. MaxGen
      BY <1>3, LiveTyped
    <3>2. \A g : \A e \in UNION Views(g)' : e \in UNION Views(g)
      BY <1>10
    <3>3. ASSUME NEW t \in Live', NEW e \in UNION Views(slot[t].gen)'
          PROVE  t \in Live /\ slot[t].gen \in 0 .. MaxGen /\ e \in UNION Views(slot[t].gen)
      <4>1. t \in Live
        BY <1>3
      <4>2. PICK g : g = slot[t].gen /\ g = slot'[t].gen
        BY <3>1, <4>1
      <4>3. e \in UNION Views(g)'
        BY <3>3, <4>2 DEF Views, Saved
      <4>. QED
        BY <3>1, <3>2, <4>1, <4>2, <4>3
    <3>. QED
      BY <2>1, <3>3 DEF Clear
  <2>2. Ranged(e) /\ OfEntry(g, e) \in Claims
    BY <2>1, ViewClaims
  <2>3. CASE Robust(e, slot[t])
    BY <1>12, <2>2, <2>3, AppliedRobust
  <2>4. CASE compactor.stage = "indexed" /\ e = Replacement
    BY <1>1, <2>4 DEF Replacement, First, Beyond
  <2>5. CASE flusher.stage = "indexed" /\ e = FlushEntry
    <3>1. CASE flusher' = flusher
      BY <2>5, <3>1 DEF FlushEntry
    <3>2. CASE flusher' # flusher
      <4>1. /\ flusher # Idle /\ FlushProposing
            /\ c = flusher.todo[1] /\ path = flusher.path /\ shared = flusher.shared
        BY <3>2 DEF Applied
      <4>2. shared = FALSE /\ e.path = flusher.path /\ e.start = c.start /\ e.end = c.end
        BY <2>5, <4>1 DEF FlushEntry, Entry, CInv, Modes, FlusherAt
      <4>3. g = c.gen
        <5>1. OfFlush(flusher.todo[1], flusher.path, flusher.shared) \in Claims
          BY <4>1, ClaimIs
        <5>2. /\ OfFlush(c, path, shared).path = path /\ OfFlush(c, path, shared).gen = c.gen
              /\ OfEntry(g, e).path = e.path /\ OfEntry(g, e).gen = g
          BY DEF OfFlush, OfEntry, OfRef, Claim
        <5>. QED
          BY <2>2, <4>1, <4>2, <5>1, <5>2 DEF CInv, Core, OnePurpose
      <4>4. t = s
        BY <1>2, <2>1, <4>3, OneLive
      <4>. QED
        BY <4>2, <4>4, AppliedEntry
    <3>. QED
      BY <3>1, <3>2
  <2>. QED
    BY <1>1, <2>1, <2>3, <2>4, <2>5 DEF CInv, Clear
<1>. QED
  BY <1>5, <1>6, <1>7, <1>8, <1>9, <1>13, <1>14 DEF CInv

LEMMA FlushSafe ==
    ASSUME Limits, IInv, IInv', CInv,
           IndexFlush \/ PublishFlush \/ RefuseFlush \/ LoseFlush \/ AbandonFlush
    PROVE  CInv'
<1>1. flusher # Idle
  <2>1. flusher = Idle => flusher.stage = "idle"
    BY DEF Idle
  <2>2. flusher.stage = "uploaded" \/ flusher # Idle
    BY DEF IndexFlush, PublishFlush, RefuseFlush, LoseFlush, AbandonFlush
  <2>. QED
    BY <2>1, <2>2
<1>2. Len(flusher.todo) = 1 /\ ~flusher.published
  BY <1>1 DEF CInv, Modes, FlusherAt
<1>3. ASSUME FlushRefused, UNCHANGED <<slot, gc, lastGen, lastPath>>,
             UNCHANGED <<compactor, offloader, collector, limbo>>
      PROVE  CInv'
  BY <1>1, <1>2, <1>3, DropFlush DEF FlushRefused
<1>4. CASE IndexFlush
  <2>1. CASE FlushFits(flusher.todo[1])
    BY <1>4, <2>1, IndexFlushFits
  <2>2. CASE ~FlushFits(flusher.todo[1])
    BY <1>3, <1>4, <2>2 DEF IndexFlush, replicated
  <2>. QED
    BY <2>1, <2>2
<1>5. CASE RefuseFlush
  BY <1>3, <1>5 DEF RefuseFlush, replicated
<1>6. CASE PublishFlush
  <2>1. /\ FlushProposing /\ limbo = NoCommand
        /\ UNCHANGED <<lastPath, compactor, offloader, collector, limbo>>
    BY <1>6 DEF PublishFlush, Settled
  <2>2. CASE /\ FlushFits(flusher.todo[1])
             /\ FlushCold(flusher.todo[1], flusher.path, flusher.shared)
             /\ NextSlice(TRUE) /\ UNCHANGED pages
    <3>1. flusher' = Idle /\ store' = store /\ orphans' = orphans
      BY <1>2, <2>2 DEF NextSlice
    <3>2. Applied(flusher.todo[1], flusher.path, flusher.shared)
      BY <1>1, <2>1, <2>2, <3>1 DEF Applied
    <3>3. flusher.todo[1] \in Candidate /\ flusher.shared \in BOOLEAN
      BY <1>1, FlusherTyped
    <3>. QED
      BY <3>2, <3>3, AppliedSafe
  <2>3. CASE flusher.shared /\ NextSlice(flusher.published) /\ UNCHANGED <<replicated, pages>>
    <3>1. flusher' = Idle /\ Discard(flusher.path)
      BY <1>2, <2>3 DEF NextSlice
    <3>2. flusher.stage # "indexed"
      BY <2>1, <2>3 DEF FlushProposing
    <3>. QED
      BY <1>1, <2>1, <2>3, <3>1, <3>2, DropFlush DEF replicated
  <2>4. CASE FlushRefused /\ UNCHANGED replicated
    BY <1>3, <2>1, <2>4 DEF replicated
  <2>. QED
    BY <1>6, <2>2, <2>3, <2>4 DEF PublishFlush
<1>7. CASE LoseFlush
  BY <1>7, LoseFlushSafe
<1>8. CASE AbandonFlush
  BY <1>8, AbandonFlushSafe
<1>. QED
  BY <1>4, <1>5, <1>6, <1>7, <1>8

(* A lost flush that commits. *)
LEMMA CommitFlushSafe ==
    ASSUME IInv, IInv', CInv, CommitLimbo, limbo.kind = "flush"
    PROVE  CInv'
<1>1. /\ UNCHANGED <<orphans, store, pages, lastPath>> /\ limbo' = NoCommand
      /\ UNCHANGED <<flusher, compactor, offloader, collector>> /\ limbo # NoCommand
  BY DEF CommitLimbo, workers
<1>2. limbo.candidate \in Candidate /\ limbo.shared \in BOOLEAN
  BY DEF IInv, LimboOK, NoCommand, LostCommand
<1>3. CASE FlushFits(limbo.candidate)
  <2>1. FlushCold(limbo.candidate, limbo.path, limbo.shared)
    BY <1>3 DEF CommitLimbo, ApplyLimbo
  <2>2. Applied(limbo.candidate, limbo.path, limbo.shared)
    BY <1>1, <1>3, <2>1 DEF Applied
  <2>. QED
    BY <1>2, <2>2, AppliedSafe
<1>4. CASE ~FlushFits(limbo.candidate)
  <2>1. UNCHANGED replicated
    BY <1>4 DEF CommitLimbo, ApplyLimbo
  <2>2. DiscardLimbo
    BY <1>1, <2>1 DEF DiscardLimbo, workers
  <2>. QED
    BY <2>2, QueueLimboSafe
<1>. QED
  BY <1>3, <1>4

---------------------------------------------------------------------------
(* The compaction workers.                                                 *)

LEMMA RunEnds ==
    ASSUME NEW run \in (SUBSET Ref) \cup (SUBSET PageEntry), run # {}
    PROVE  /\ First(run) \in Nat /\ Beyond(run) \in Nat /\ First(run) < Beyond(run)
           /\ \A r \in run : Ranged(r) /\ First(run) <= r.start /\ r.end <= Beyond(run)
           /\ \E r \in run : r.start = First(run)
           /\ \E r \in run : r.end = Beyond(run)
<1> DEFINE S == {r.start : r \in run}
           E == {r.end : r \in run}
<1>1. \A r \in run : Ranged(r)
  BY EntryRanged
<1>2. MaxTail \in Nat
  BY ColdConstants
<1>3. S \in SUBSET Nat /\ S # {} /\ E \in SUBSET (0 .. MaxTail) /\ E # {}
  BY <1>1 DEF Ranged
<1>4. \A r \in run : r.start \in S /\ r.end \in E
  OBVIOUS
<1>5. /\ \A x \in S : \E r \in run : r.start = x
      /\ \A x \in E : \E r \in run : r.end = x
  OBVIOUS
<1>6. First(run) = Min(S) /\ Beyond(run) = Max(E)
  BY DEF First, Beyond
<1> HIDE DEF S, E
<1>7. Min(S) \in S /\ \A x \in S : Min(S) <= x
  BY <1>3, MinType
<1>8. Max(E) \in E /\ \A x \in E : x <= Max(E)
  BY <1>2, <1>3, MaxType
<1>. QED
  BY <1>1, <1>4, <1>5, <1>6, <1>7, <1>8, RunBounds DEF Ranged

LEMMA SharedContiguous ==
    ASSUME IInv, NEW s \in Streams, slot[s].chunks # {}
    PROVE  Contiguous(SharedRun(s)) /\ SharedRun(s) \subseteq slot[s].chunks
<1> DEFINE C == slot[s].chunks
           U == SharedRun(s)
<1>1. U \subseteq C /\ U # {} /\ C \in SUBSET Ref
  BY SharedRunType, SlotTyped DEF IInv
<1>2. ASSUME NEW r \in U
      PROVE  \E run \in SUBSET C : r \in run /\ run \subseteq U /\ Contiguous(run) /\ First(run) = First(C)
  BY DEF SharedRun
<1> HIDE DEF U, C
<1>3. /\ \A r \in U : Ranged(r) /\ r.end <= Beyond(U) /\ First(U) <= r.start
      /\ First(U) \in Nat /\ Beyond(U) \in Nat
      /\ \E r \in U : r.end = Beyond(U)
  BY <1>1, RunEnds
<1>4. \A r \in C : First(C) <= r.start
  BY <1>1, RunEnds
<1>5. ASSUME NEW run \in SUBSET C, run # {}
      PROVE  /\ \A r \in run : r.end <= Beyond(run)
             /\ \E r \in run : r.start = First(run)
             /\ Beyond(run) \in Nat /\ First(run) \in Nat
  BY <1>1, <1>5, RunEnds
<1>6. First(U) = First(C)
  <2>1. PICK r \in U : TRUE
    BY <1>1
  <2>2. PICK run \in SUBSET C : r \in run /\ run \subseteq U /\ First(run) = First(C)
    BY <1>2, <2>1
  <2>3. PICK q \in run : q.start = First(run)
    BY <1>5, <2>2
  <2>4. First(U) <= First(C)
    BY <1>3, <2>2, <2>3
  <2>5. PICK f \in U : f.start = First(U)
    BY <1>1, RunEnds
  <2>6. First(C) <= First(U) /\ First(C) \in Nat
    BY <1>1, <1>4, <1>5, <2>2, <2>5
  <2>. QED
    BY <1>3, <2>4, <2>6
<1>7. ASSUME NEW o \in Covered(U) PROVE o \in First(U) .. Beyond(U) - 1
  <2>1. PICK r \in U : o \in Span(r)
    BY <1>7 DEF Covered
  <2>. QED
    BY <1>3, <2>1 DEF Span, Ranged
<1>8. ASSUME NEW o \in First(U) .. Beyond(U) - 1 PROVE o \in Covered(U)
  <2>1. PICK r \in U : r.end = Beyond(U)
    BY <1>3
  <2>2. PICK run \in SUBSET C : r \in run /\ run \subseteq U /\ Contiguous(run) /\ First(run) = First(C)
    BY <1>2
  <2>3. Beyond(U) <= Beyond(run) /\ Beyond(run) \in Nat
    BY <1>5, <2>1, <2>2
  <2>4. o \in First(run) .. Beyond(run) - 1
    BY <1>3, <1>6, <1>8, <2>2, <2>3
  <2>5. o \in Covered(run)
    BY <2>2, <2>4 DEF Contiguous
  <2>. QED
    BY <2>2, <2>5 DEF Covered
<1>9. Covered(U) = First(U) .. Beyond(U) - 1
  BY <1>7, <1>8
<1>. QED
  BY <1>1, <1>9 DEF Contiguous, U, C

(* The claims of a run's members, of slices in state or chunks in a page. *)
RunOf(s, run, shared) ==
    /\ run # {} /\ Contiguous(run)
    /\ shared => run \subseteq slot[s].chunks
    /\ ~shared => \A e \in run : e \in pages[slot[s].gen] /\ ~e.external

LEMMA RunClaims ==
    ASSUME IInv, NEW s \in Live, NEW run, NEW shared \in BOOLEAN, RunOf(s, run, shared)
    PROVE  /\ run \in (SUBSET Ref) \cup (SUBSET PageEntry)
           /\ \A r \in run : \E c \in Claims :
                /\ c.kind # "external" /\ c.gen = slot[s].gen
                /\ c.start = r.start /\ c.end = r.end /\ c.path = r.path
<1>1. s \in Streams /\ slot[s].gen \in 0 .. MaxGen
  BY LiveTyped
<1>2. CASE shared
  <2>1. run \subseteq slot[s].chunks /\ slot[s].chunks \in SUBSET Ref
    BY <1>1, <1>2, SlotTyped DEF RunOf
  <2>2. \A r \in run : OfRef("slice", slot[s].gen, r) \in Claims
    BY <1>1, <2>1, ClaimIs
  <2>. QED
    BY <2>1, <2>2, ClaimFields
<1>3. CASE ~shared
  <2>1. \A e \in run : e \in pages[slot[s].gen] /\ ~e.external
    BY <1>3 DEF RunOf
  <2>2. run \in SUBSET PageEntry
    BY <1>1, <2>1, PageTyped
  <2>3. ASSUME NEW e \in run
        PROVE  \E c \in Claims : /\ c.kind # "external" /\ c.gen = slot[s].gen
                                 /\ c.start = e.start /\ c.end = e.end /\ c.path = e.path
    <3>1. OfEntry(slot[s].gen, e) \in Claims
      BY <1>1, <2>1, <2>3, ClaimIs
    <3>. QED
      BY <2>1, <2>3, <3>1, ClaimFields
  <2>. QED
    BY <2>2, <2>3
<1>. QED
  BY <1>2, <1>3

(* Every byte of the replacement is of a member of the run. *)
LEMMA RunCovers ==
    ASSUME IInv, NEW s \in Live, NEW run, NEW shared \in BOOLEAN, RunOf(s, run, shared)
    PROVE  \A o \in First(run) .. Beyond(run) - 1 : \E r \in run : o \in Span(r)
<1>1. Covered(run) = First(run) .. Beyond(run) - 1
  BY DEF RunOf, Contiguous
<1>2. \A o \in Covered(run) : \E r \in run : o \in Span(r)
  BY DEF Covered
<1>. QED
  BY <1>1, <1>2

LEMMA RunFits ==
    ASSUME IInv, IInv', CInv, NEW s \in Live, NEW run, NEW shared \in BOOLEAN, RunOf(s, run, shared),
           slot' = slot, lastPath' = lastPath + 1, NEW n, n = OfRun(slot[s].gen, run, lastPath + 1),
           store'[lastPath + 1].dir = slot[s].gen,
           \A r \in run : BytesOf(slot[s].gen, r) \subseteq store'[lastPath + 1].bytes
    PROVE  Fits(n)
<1>1. run \in (SUBSET Ref) \cup (SUBSET PageEntry) /\ run # {}
  BY RunClaims DEF RunOf
<1>2. /\ n.kind = "chunk" /\ n.gen = slot[s].gen /\ n.start = First(run) /\ n.end = Beyond(run)
      /\ n.path = lastPath + 1
  BY ClaimFields
<1>3. Ranged(n) /\ n.gen \in 1 .. lastGen
  BY <1>1, <1>2, RunBounds, LiveTyped DEF Ranged
<1>4. ASSUME NEW k \in Claims, k.gen = n.gen, k.kind = "external", Overlap(k, n) \/ Overlap(n, k)
      PROVE  FALSE
  <2>1. Ranged(k)
    BY ClaimsTyped
  <2>2. PICK o \in Nat : o >= k.start /\ o < k.end /\ o >= n.start /\ o < n.end
    <3>1. CASE k.start <= n.start
      BY <1>3, <1>4, <2>1, <3>1 DEF Overlap, Ranged
    <3>2. CASE ~(k.start <= n.start)
      BY <1>3, <1>4, <2>1, <3>2 DEF Overlap, Ranged
    <3>. QED
      BY <3>1, <3>2
  <2>3. o \in First(run) .. Beyond(run) - 1
    BY <1>2, <1>3, <2>2 DEF Ranged
  <2>4. PICK r \in run : o \in Span(r)
    BY <2>3, RunCovers
  <2>5. PICK c \in Claims : /\ c.kind # "external" /\ c.gen = slot[s].gen
                            /\ c.start = r.start /\ c.end = r.end
    BY RunClaims
  <2>6. Overlap(k, c)
    <3>1. Ranged(c) /\ o >= c.start /\ o < c.end
      BY <2>4, <2>5, ClaimsTyped DEF Span, Ranged
    <3>. QED
      BY <2>1, <2>2, <3>1 DEF Overlap, Ranged
  <2>. QED
    BY <1>2, <1>4, <2>5, <2>6 DEF CInv, Core, ExternalApart
<1>5. \A c \in Claims :
         c.gen = n.gen /\ (c.kind = "external" \/ n.kind = "external") =>
           ~Overlap(c, n) /\ ~Overlap(n, c)
  BY <1>2, <1>4
<1>6. n.end <= slot[s].tail
  <2>1. PICK r \in run : r.end = Beyond(run)
    BY <1>1, RunEnds
  <2>2. PICK c \in Claims : c.gen = slot[s].gen /\ c.end = r.end
    BY RunClaims
  <2>. QED
    BY <1>2, <2>1, <2>2 DEF CInv, Core, InPlace
<1>7. \A t \in Live' : slot'[t].gen = n.gen =>
         n.end <= slot'[t].tail /\ (n.kind = "external" => Span(n) \cap slot'[t].hot = {})
  BY <1>2, <1>6, OneLive DEF Live
<1>8. BytesOf(n.gen, n) \subseteq store'[n.path].bytes
  <2>1. SUFFICES ASSUME NEW o \in Span(n) PROVE <<n.gen, o>> \in store'[n.path].bytes
    BY DEF BytesOf
  <2>2. o \in First(run) .. Beyond(run) - 1
    BY <1>2 DEF Span
  <2>3. PICK r \in run : o \in Span(r)
    BY <2>2, RunCovers
  <2>4. <<slot[s].gen, o>> \in BytesOf(slot[s].gen, r)
    BY <2>3 DEF BytesOf
  <2>. QED
    BY <1>2, <2>4
<1>. QED
  BY <1>2, <1>3, <1>5, <1>7, <1>8 DEF Fits

LEMMA PlanCompactionSafe ==
    ASSUME Limits, IInv, IInv', CInv, NEW s \in Live, NEW run, NEW shared \in BOOLEAN,
           RunOf(s, run, shared), PlanCompaction(s, run, shared),
           (IF shared THEN "shared" ELSE "raw") \in Duties
    PROVE  CInv'
<1> DEFINE p == lastPath + 1
           n == OfRun(slot[s].gen, run, p)
           object == [dir |-> slot[s].gen,
                      bytes |-> IF shared THEN UNION {BytesOf(slot[s].gen, r) : r \in run}
                                          ELSE UNION {store[r.path].bytes : r \in run}]
<1>1. /\ compactor = Idle /\ lastPath < MaxPath /\ lastPath' = p
      /\ store' = [store EXCEPT ![p] = object]
      /\ compactor' = [stage |-> "uploaded", stream |-> s, run |-> run, path |-> p,
                       shared |-> shared, gen |-> 0, saved |-> {}]
      /\ UNCHANGED <<slot, gc, lastGen, pages>>
      /\ UNCHANGED <<flusher, offloader, collector, limbo, orphans>>
  BY DEF PlanCompaction, replicated, outcome
<1>2. s \in Streams /\ slot[s].live /\ slot[s].gen \in 1 .. lastGen
  BY LiveTyped
<1>3. lastPath \in Nat /\ p \in Paths /\ p > lastPath
  BY <1>1, ColdConstants DEF IInv, CountersOK, Paths
<1>4. /\ compactor' # Idle /\ compactor'.stage = "uploaded" /\ compactor'.stream = s
      /\ compactor'.run = run /\ compactor'.path = p /\ compactor'.shared = shared
  BY <1>1 DEF Idle
<1>5. store'[p] = object
  BY <1>1, <1>3 DEF IInv, ObjectsOK
<1>6. object.dir = slot[s].gen
  OBVIOUS
<1>7. ASSUME NEW r \in run PROVE BytesOf(slot[s].gen, r) \subseteq object.bytes
  <2>1. CASE shared
    BY <1>7, <2>1
  <2>2. CASE ~shared
    <3>1. MaxRetain = 0 /\ slot[s].retained = 0
      BY <1>2, <2>2 DEF Limits, CInv, Modes, Untrimmed
    <3>2. PICK c \in Claims : /\ c.gen = slot[s].gen
                              /\ c.start = r.start /\ c.end = r.end /\ c.path = r.path
      BY <1>7, RunClaims
    <3>3. Ranged(c) /\ BytesOf(c.gen, c) = BytesOf(slot[s].gen, r)
      BY <3>2, ClaimsTyped DEF BytesOf, Span
    <3>4. c.end > slot[s].retained
      BY <3>1, <3>3 DEF Ranged
    <3>5. BytesOf(slot[s].gen, r) \subseteq store[r.path].bytes
      BY <3>2, <3>3, <3>4 DEF CInv, Core, WantedHeld, Held
    <3>6. store[r.path].bytes \subseteq UNION {store[q.path].bytes : q \in run}
      BY <1>7
    <3>7. object.bytes = UNION {store[q.path].bytes : q \in run}
      BY <2>2
    <3>. QED
      BY <3>5, <3>6, <3>7
  <2>. QED
    BY <2>1, <2>2
<1> HIDE DEF object
<1>8. n.path = p /\ OfRun(slot'[compactor'.stream].gen, compactor'.run, compactor'.path) = n
  BY <1>1, <1>4, ClaimFields
<1> HIDE DEF n
<1>9. Fits(n)
  BY <1>1, <1>5, <1>6, <1>7, RunFits DEF n
<1>10. PICK N : N = {n}
  OBVIOUS
<1>11. (\A m \in N : Fits(m)) /\ (\A m, k \in N : m = k)
  BY <1>9, <1>10
<1>12. Claims' \subseteq Claims \cup N
  <2>1. PICK S : S = Claims \cup N
    OBVIOUS
  <2>2. n \in S /\ \A d \in Claims : d \in S
    BY <1>10, <2>1
  <2>3. Claims' \subseteq S
    BY <1>1, <1>4, <1>8, <2>2, ClaimIs, ClaimsFrom
  <2>. QED
    BY <2>1, <2>3
<1>13. StoreKeeps
  BY <1>1, <1>3 DEF StoreKeeps, IInv, ObjectsOK
<1>14. lastPath <= lastPath' /\ lastPath' \in Nat
  BY <1>1, <1>3
<1>15. Core' /\ Laid' /\ Untrimmed'
  BY <1>1, <1>11, <1>12, <1>13, <1>14, DoomStays, WorkerCore
<1>16. Own'
  <2>1. compactor.stage # "indexed" /\ compactor'.stage # "indexed"
    BY <1>1, <1>4 DEF Idle
  <2>2. ~Elsewhere(compactor, compactor.path)'
    <3>1. PICK q : q = lastPath + 1
      OBVIOUS
    <3>2. ~InSlots(q)' /\ ~InSaves(q)' /\ ~InPages(compactor, q)'
      BY <1>1, <2>1, <3>1, FreshNamed DEF InSlots, InSaves, InPages
    <3>. QED
      BY <1>4, <3>1, <3>2 DEF Elsewhere, InSlots, InSaves, InPages
  <2>3. flusher # Idle => ~Elsewhere(flusher, flusher.path)'
    BY <1>1, <2>1 DEF CInv, Own, Elsewhere, InSlots, InPages, InSaves
  <2>4. /\ flusher # Idle => flusher.path # p
        /\ limbo.kind = "flush" => limbo.path # p
    BY FreshNamed
  <2>. QED
    BY <1>1, <1>4, <2>2, <2>3, <2>4 DEF CInv, Own
<1>17. Modes'
  <2>1. Turns'
    BY <1>1, <1>4 DEF CInv, Modes, Turns, Indexing
  <2>2. CompactorAt'
    <3>1. Contiguous(compactor.run)'
      BY <1>4 DEF RunOf, Contiguous, Covered, First, Beyond, Span
    <3>. QED
      BY <1>1, <1>2, <1>4, <3>1 DEF RunOf, CompactorAt, CompactDuty
  <2>. QED
    BY <1>1, <1>14, <1>15, <2>1, <2>2, WorkersStay DEF Modes
<1>18. Indexed'
  BY <1>1, <1>4, IndexedStays DEF Indexed
<1>19. \A g : Views(g)' = Views(g)
  BY <1>1, <1>4 DEF Views, Saved, Idle
<1>20. Served'
  BY <1>1, <1>19 DEF CInv, Served, Live, Views
<1>21. Clear'
  <2>1. compactor.stage # "indexed"
    BY <1>1 DEF Idle
  <2>. QED
    BY <1>1, <1>19, <2>1, ClearStays
<1>. QED
  BY <1>15, <1>16, <1>17, <1>18, <1>20, <1>21 DEF CInv

LEMMA PlanCompactionsSafe ==
    ASSUME Limits, IInv, IInv', CInv, PlanShared \/ PlanRaw
    PROVE  CInv'
<1>1. CASE PlanShared
  <2>1. PICK s \in Live : slot[s].chunks # {} /\ PlanCompaction(s, SharedRun(s), TRUE)
    BY <1>1 DEF PlanShared
  <2>2. Contiguous(SharedRun(s)) /\ SharedRun(s) \subseteq slot[s].chunks
    BY <2>1, SharedContiguous DEF Live
  <2>3. RunOf(s, SharedRun(s), TRUE)
    BY <2>2 DEF RunOf, Contiguous
  <2>4. "shared" \in Duties
    BY <1>1 DEF PlanShared
  <2>. QED
    BY <2>1, <2>3, <2>4, PlanCompactionSafe
<1>2. CASE PlanRaw
  <2>1. PICK s \in Live : \E run \in RawRuns(s) : PlanCompaction(s, run, FALSE)
    BY <1>2 DEF PlanRaw
  <2>2. PICK run \in RawRuns(s) : PlanCompaction(s, run, FALSE)
    BY <2>1
  <2>3. RunOf(s, run, FALSE)
    BY DEF RawRuns, RunOf, Contiguous
  <2>4. "raw" \in Duties
    BY <1>2 DEF PlanRaw
  <2>. QED
    BY <2>2, <2>3, <2>4, PlanCompactionSafe
<1>. QED
  BY <1>1, <1>2

(* The object of a compaction is named by its page entry only. *)
LEMMA CompactionNamed ==
    ASSUME IInv, CInv, compactor # Idle
    PROVE  /\ \A s \in Streams : \A r \in slot[s].chunks \cup slot[s].external : r.path # compactor.path
           /\ \A g \in 0 .. MaxGen : \A e \in pages[g] :
                e.path = compactor.path =>
                  compactor.stage = "indexed" /\ g = compactor.gen /\ e = Replacement
           /\ compactor.stage = "indexed" => \A e \in compactor.saved : e.path # compactor.path
           /\ flusher.stage = "indexed" => \A e \in flusher.saved : e.path # compactor.path
           /\ flusher # Idle => flusher.path # compactor.path
           /\ limbo.kind = "flush" => limbo.path # compactor.path
<1>1. ~Elsewhere(compactor, compactor.path)
  BY DEF CInv, Own
<1>2. ASSUME NEW g \in 0 .. MaxGen, NEW e \in pages[g], e.path = compactor.path
      PROVE  compactor.stage = "indexed" /\ g = compactor.gen /\ e = Replacement
  <2>1. compactor.stage = "indexed" /\ g = compactor.gen
    BY <1>1, <1>2 DEF Elsewhere, InPages
  <2>2. compactor.gen = slot[compactor.stream].gen
    BY <2>1 DEF CInv, Modes, CompactorAt
  <2>3. OfRun(g, compactor.run, compactor.path) \in Claims
    BY <2>1, <2>2, ClaimIs
  <2>4. OfRun(g, compactor.run, compactor.path) = OfEntry(g, Replacement)
    BY EntryClaims DEF Replacement
  <2>5. OfEntry(g, e) \in Claims /\ e \in PageEntry
    BY ClaimIs, PageTyped
  <2>6. OfEntry(g, e) = OfEntry(g, Replacement)
    <3>1. /\ OfEntry(g, e).path = e.path
          /\ OfRun(g, compactor.run, compactor.path).path = compactor.path
      BY DEF OfEntry, OfRef, OfRun, Claim
    <3>. QED
      BY <1>2, <2>3, <2>4, <2>5, <3>1 DEF CInv, Core, OnePurpose
  <2>7. e = Replacement
    BY <2>5, <2>6, CompactorTyped, OneEntry
  <2>. QED
    BY <2>1, <2>7
<1>3. /\ \A s \in Streams : \A r \in slot[s].chunks \cup slot[s].external : r.path # compactor.path
      /\ flusher.stage = "indexed" => \A e \in flusher.saved : e.path # compactor.path
      /\ compactor.stage = "indexed" => \A e \in compactor.saved : e.path # compactor.path
  BY <1>1 DEF Elsewhere, InSlots, InSaves
<1>. QED
  BY <1>2, <1>3 DEF CInv, Own

(* A compaction that ends without being published. *)
LEMMA DropCompaction ==
    ASSUME IInv, IInv', CInv, compactor # Idle, CompactionRefused,
           UNCHANGED <<slot, gc, lastGen, lastPath>>,
           UNCHANGED <<flusher, offloader, collector, limbo>>
    PROVE  CInv'
<1>0. /\ compactor' = Idle /\ orphans \subseteq orphans'
      /\ store' = store \/ store' = [store EXCEPT ![compactor.path] = NoObject]
      /\ pages' = IF compactor.stage = "indexed"
                  THEN RolledBack(compactor.gen, Replacement, compactor.saved) ELSE pages
  BY DEF CompactionRefused, Discard
<1>1. compactor'.stage # "indexed"
  BY <1>0 DEF Idle
<1>2. compactor.stage = "indexed" => compactor.gen \in 0 .. MaxGen
  BY CompactorTyped
<1>3. ASSUME NEW g \in 0 .. MaxGen
      PROVE  \/ pages'[g] = pages[g] /\ (compactor.stage = "indexed" /\ g = compactor.gen => Replacement \notin pages[g])
             \/ compactor.stage = "indexed" /\ g = compactor.gen /\ pages'[g] = compactor.saved
  BY <1>0, <1>2, <1>3 DEF RolledBack, IInv, ObjectsOK
<1>4. \A g \in 0 .. MaxGen : \A e \in pages'[g] : e.path # compactor.path
  BY <1>3, CompactionNamed
<1>5. \A g \in 0 .. MaxGen : \A e \in pages'[g] : OfEntry(g, e) \in Claims
  BY <1>3, ClaimIs
<1>6. Claims' \subseteq {c \in Claims : c.path # compactor.path}
  <2>1. PICK S : S = {c \in Claims : c.path # compactor.path}
    OBVIOUS
  <2>2. \A c \in Claims : c.path # compactor.path => c \in S
    BY <2>1
  <2>3. /\ \A s \in Streams : \A r \in slot[s].chunks : OfRef("slice", slot[s].gen, r) \in S
        /\ \A s \in Streams : \A r \in slot[s].external : OfRef("external", slot[s].gen, r) \in S
    BY <2>2, ClaimIs, ClaimFields, CompactionNamed
  <2>4. \A g \in 0 .. MaxGen : \A e \in pages'[g] : OfEntry(g, e) \in S
    BY <1>4, <1>5, <2>2, ClaimFields
  <2>5. flusher.stage = "indexed" => \A e \in flusher.saved : OfEntry(flusher.gen, e) \in S
    BY <2>2, ClaimIs, ClaimFields, CompactionNamed
  <2>6. flusher # Idle => OfFlush(flusher.todo[1], flusher.path, flusher.shared) \in S
    BY <2>2, ClaimIs, ClaimFields, CompactionNamed
  <2>7. limbo.kind = "flush" => OfFlush(limbo.candidate, limbo.path, limbo.shared) \in S
    BY <2>2, ClaimIs, ClaimFields, CompactionNamed
  <2>8. Claims' \subseteq S
    BY <1>0, <1>1, <2>3, <2>4, <2>5, <2>6, <2>7, ClaimsFrom
  <2>. QED
    BY <2>1, <2>8
<1>7. StoreKeeps
  <2>1. Unneeded(compactor.path)
    BY <1>6 DEF Unneeded
  <2>. QED
    BY <1>0, <2>1, CompactorTyped DEF StoreKeeps, IInv, ObjectsOK
<1>8. Claims' \subseteq Claims /\ lastPath <= lastPath'
  BY <1>6 DEF IInv, CountersOK
<1>9. Core' /\ Laid' /\ Untrimmed'
  BY <1>7, <1>8, DoomStays, WorkerKeeps
<1>10. Own'
  <2>1. flusher # Idle => ~Elsewhere(flusher, flusher.path)'
    <3>1. SUFFICES ASSUME flusher # Idle PROVE ~Elsewhere(flusher, flusher.path)'
      OBVIOUS
    <3>2. ~InSlots(flusher.path)' /\ ~InSaves(flusher.path)'
      BY <1>1, <3>1 DEF CInv, Own, Elsewhere, InSlots, InSaves
    <3>3. ~InPages(flusher, flusher.path)'
      BY <1>3, <3>1 DEF CInv, Own, Elsewhere, InPages, InSaves
    <3>. QED
      BY <3>2, <3>3 DEF Elsewhere
  <2>. QED
    BY <1>0, <2>1 DEF CInv, Own
<1>11. Modes'
  <2>1. Turns'
    BY <1>1 DEF CInv, Modes, Turns, Indexing
  <2>. QED
    BY <1>0, <1>8, <1>9, <2>1, WorkersStay DEF Modes
<1>12. Indexed'
  <2>1. CASE pages' = pages
    BY <1>1, <2>1, IndexedStays DEF Indexed
  <2>2. CASE compactor.stage = "indexed"
    BY <1>1, <2>2, TurnAlone DEF Indexed
  <2>. QED
    BY <1>0, <2>1, <2>2
<1>13. \A s \in Live : \A P \in Views(slot[s].gen)' :
         P \in Views(slot[s].gen) /\ \A e \in P : e.path # compactor.path
  <2>1. SUFFICES ASSUME NEW s \in Live, NEW P \in Views(slot[s].gen)'
                 PROVE  P \in Views(slot[s].gen) /\ \A e \in P : e.path # compactor.path
    OBVIOUS
  <2>2. PICK g \in 0 .. MaxGen : g = slot[s].gen
    BY LiveTyped
  <2>3. P \in Views(g)'
    BY <2>1, <2>2 DEF Views, Saved
  <2>4. P = pages'[g] \/ (flusher.stage = "indexed" /\ flusher.gen = g /\ P = flusher.saved)
    BY <1>1, <2>3, ViewsNext
  <2>. QED
    BY <1>3, <1>4, <2>2, <2>4, ViewsNow, CompactionNamed
<1>14. Served'
  BY <1>13, ServedStays
<1>15. Clear'
  <2>1. Replacement.path = compactor.path
    BY EntryFields DEF Replacement
  <2>2. \A s \in Live : \A e \in UNION Views(slot[s].gen)' :
          e \in UNION Views(slot[s].gen) /\ e # Replacement
    BY <1>13, <2>1
  <2>. QED
    BY <1>0, <2>2, ClearStays
<1>. QED
  BY <1>9, <1>10, <1>11, <1>12, <1>14, <1>15 DEF CInv

LEMMA RefuseCompactionSafe ==
    ASSUME IInv, IInv', CInv, RefuseCompaction
    PROVE  CInv'
BY StageIs, DropCompaction DEF RefuseCompaction, replicated

LEMMA Touching ==
    ASSUME NEW a, NEW b, Ranged(a), Ranged(b)
    PROVE  Overlap(a, b) <=> \E o \in Span(a) : o \in Span(b)
<1>1. ASSUME Overlap(a, b) PROVE \E o \in Span(a) : o \in Span(b)
  <2>1. CASE a.start <= b.start
    BY <1>1, <2>1 DEF Overlap, Span, Ranged
  <2>2. CASE ~(a.start <= b.start)
    BY <1>1, <2>2 DEF Overlap, Span, Ranged
  <2>. QED
    BY <2>1, <2>2
<1>2. ASSUME NEW o \in Span(a), o \in Span(b) PROVE Overlap(a, b)
  BY <1>2 DEF Overlap, Span, Ranged
<1>. QED
  BY <1>1, <1>2

(* The replacement covers the bytes of its run and no other. *)
LEMMA ReplacementIs ==
    ASSUME IInv, CInv, compactor # Idle
    PROVE  /\ Replacement.start = First(compactor.run) /\ Replacement.end = Beyond(compactor.run)
           /\ Replacement.path = compactor.path /\ ~Replacement.external
           /\ Replacement \in PageEntry /\ Ranged(Replacement)
           /\ \A o \in Span(Replacement) : \E r \in compactor.run : o \in Span(r)
           /\ \A r \in compactor.run : Ranged(r) /\ Span(r) \subseteq Span(Replacement)
           /\ compactor.stream \in Live
           /\ OfEntry(slot[compactor.stream].gen, Replacement) \in Claims
           /\ OfEntry(slot[compactor.stream].gen, Replacement).kind = "chunk"
<1>1. /\ Replacement.start = First(compactor.run) /\ Replacement.end = Beyond(compactor.run)
      /\ Replacement.path = compactor.path /\ Replacement.external = FALSE
  BY DEF Replacement, Entry
<1>2. Replacement \in PageEntry /\ compactor.run \in (SUBSET Ref) \cup (SUBSET PageEntry)
      /\ compactor.run # {} /\ compactor.stream \in Streams
  BY CompactorTyped
<1>3. Contiguous(compactor.run) /\ slot[compactor.stream].live
  BY DEF CInv, Modes, CompactorAt
<1>4. Span(Replacement) = Covered(compactor.run)
  BY <1>1, <1>3 DEF Contiguous, Span
<1>5. /\ \A o \in Span(Replacement) : \E r \in compactor.run : o \in Span(r)
      /\ \A r \in compactor.run : Span(r) \subseteq Span(Replacement)
  BY <1>4 DEF Covered
<1>6. \A r \in compactor.run : Ranged(r)
  BY <1>2, RunEnds
<1>7. OfEntry(slot[compactor.stream].gen, Replacement) \in Claims
  BY ClaimIs, EntryClaims DEF Replacement
<1>8. OfEntry(slot[compactor.stream].gen, Replacement).kind = "chunk"
  BY <1>1, ClaimFields
<1>. QED
  BY <1>1, <1>2, <1>3, <1>5, <1>6, <1>7, <1>8, EntryRanged DEF Live

(* A run of chunks holds no external entry, and can be clipped nowhere. *)
LEMMA RunRobust ==
    ASSUME IInv, CInv, compactor # Idle, ~compactor.shared, flusher.stage # "indexed",
           compactor.run \subseteq UNION Views(slot[compactor.stream].gen),
           compactor.stage = "indexed" => Replacement \notin compactor.run
    PROVE  /\ \A e \in compactor.run : ~e.external /\ Robust(e, slot[compactor.stream])
           /\ Robust(Replacement, slot[compactor.stream])
<1> DEFINE s == compactor.stream
           g == slot[s].gen
<1>1. s \in Live /\ s \in Streams /\ g \in 0 .. MaxGen
  BY ReplacementIs, LiveTyped
<1>2. "raw" \in Duties
  BY DEF CInv, Modes, CompactorAt, CompactDuty
<1>3. ASSUME NEW e \in compactor.run PROVE ~e.external /\ Robust(e, slot[s])
  <2>1. e \in UNION Views(g) /\ OfEntry(g, e) \in Claims /\ Ranged(e)
    BY <1>1, <1>3, ViewClaims
  <2>2. ~e.external
    <3>1. SUFFICES ASSUME e.external PROVE FALSE
      OBVIOUS
    <3>2. OfEntry(g, e).kind = "external" /\ OfEntry(g, e).gen = g /\ OfEntry(g, Replacement).gen = g
      BY <3>1, ClaimFields
    <3>3. Overlap(e, Replacement)
      <4>1. e.start \in Span(e)
        BY <2>1 DEF Span, Ranged
      <4>. QED
        BY <1>3, <2>1, <4>1, ReplacementIs, Touching
    <3>4. Overlap(OfEntry(g, e), OfEntry(g, Replacement))
      BY <3>3, ClaimFields DEF Overlap
    <3>. QED
      BY <2>1, <3>2, <3>4, ReplacementIs DEF CInv, Core, ExternalApart
  <2>3. Robust(e, slot[s])
    BY <1>1, <1>2, <1>3, <2>1, <2>2 DEF CInv, Clear
  <2>. QED
    BY <2>2, <2>3
<1>4. Robust(Replacement, slot[s])
  <2>1. Span(Replacement) \cap slot[s].hot = {}
    BY <1>3, ReplacementIs DEF Robust
  <2>2. ASSUME NEW r \in slot[s].chunks, Overlap(Replacement, r) PROVE FALSE
    <3>1. Ranged(r)
      BY <1>1, SlotTyped, EntryRanged
    <3>2. PICK o \in Span(Replacement) : o \in Span(r)
      BY <2>2, <3>1, ReplacementIs, Touching
    <3>3. PICK e \in compactor.run : o \in Span(e)
      BY ReplacementIs
    <3>4. Overlap(e, r)
      BY <3>1, <3>2, <3>3, ReplacementIs, Touching
    <3>. QED
      BY <1>3, <3>4 DEF Robust
  <2>. QED
    BY <2>1, <2>2 DEF Robust
<1>. QED
  BY <1>3, <1>4

LEMMA IndexCompactionFits ==
    ASSUME Limits, IInv, IInv', CInv, IndexCompaction,
           compactor.shared \/ compactor.run \subseteq pages[slot[compactor.stream].gen]
    PROVE  CInv'
<1> DEFINE s == compactor.stream
           g == slot[s].gen
<1>1. /\ compactor.stage = "uploaded" /\ MayIndex
      /\ pages' = [pages EXCEPT ![g] = IF compactor.shared THEN Clipped(pages[g], Replacement)
                                       ELSE (pages[g] \ compactor.run) \cup {Replacement}]
      /\ compactor' = [compactor EXCEPT !.stage = "indexed", !.gen = g, !.saved = pages[g]]
      /\ UNCHANGED <<slot, gc, lastGen, store, lastPath>>
      /\ UNCHANGED <<flusher, offloader, collector, limbo, orphans>>
  BY DEF IndexCompaction, replicated
<1>2. compactor # Idle
  BY <1>1 DEF Idle
<1>3. /\ limbo.kind = "none" /\ flusher.stage # "indexed" /\ offloader = Idle
  BY <1>1, MayIndexAlone
<1>4. s \in Live /\ s \in Streams /\ g \in 0 .. MaxGen
  BY <1>2, ReplacementIs, LiveTyped
<1>5. /\ compactor'.stage = "indexed" /\ compactor'.gen = g /\ compactor'.saved = pages[g] /\ compactor' # Idle
      /\ compactor'.path = compactor.path /\ compactor'.run = compactor.run
      /\ compactor'.shared = compactor.shared /\ compactor'.stream = s
  <2>1. compactor \in Compaction
    BY <1>2, CompactorTyped
  <2>. QED
    BY <1>1, <2>1 DEF Compaction, Idle
<1>6. Replacement' = Replacement
  BY <1>5 DEF Replacement, First, Beyond
<1>7. Replacement \in PageEntry /\ Replacement.path = compactor.path /\ Ranged(Replacement)
      /\ OfEntry(g, Replacement) \in Claims
  BY <1>2, ReplacementIs
<1> HIDE DEF s, g
<1>8. /\ pages'[g] = IF compactor.shared THEN Clipped(pages[g], Replacement)
                     ELSE (pages[g] \ compactor.run) \cup {Replacement}
      /\ \A h \in 0 .. MaxGen : h # g => pages'[h] = pages[h]
  BY <1>1, <1>4 DEF IInv, ObjectsOK
<1>9. /\ \A h \in 0 .. MaxGen : \A e \in pages'[h] : e \in pages[h] \/ (h = g /\ e = Replacement)
      /\ Replacement \in pages'[g]
  BY <1>8 DEF Clipped
<1>10. Claims' \subseteq Claims
  <2>1. \A h \in 0 .. MaxGen : \A e \in pages'[h] : OfEntry(h, e) \in Claims
    BY <1>7, <1>9, ClaimIs
  <2>2. \A e \in compactor'.saved : OfEntry(compactor'.gen, e) \in Claims
    BY <1>4, <1>5, ClaimIs
  <2>3. OfRun(slot'[compactor'.stream].gen, compactor'.run, compactor'.path) \in Claims
    BY <1>1, <1>2, <1>5, ClaimIs DEF s
  <2>. QED
    BY <1>1, <1>3, <2>1, <2>2, <2>3, ClaimIs, ClaimsFrom
<1>11. lastPath <= lastPath'
  BY <1>1 DEF IInv, CountersOK
<1>12. Core' /\ Laid' /\ Untrimmed'
  BY <1>1, <1>10, <1>11, DoomStays, StoreStays, WorkerKeeps
<1>13. \A h \in 0 .. MaxGen : \A e \in pages[h] : e.path # compactor.path
  BY <1>1, <1>2, CompactionNamed
<1>14. Own'
  <2>2. ~Elsewhere(compactor, compactor.path)'
    <3>1. ~InSlots(compactor.path)'
      BY <1>1, <1>2, <1>5, CompactionNamed DEF InSlots
    <3>2. ~InSaves(compactor.path)'
      BY <1>1, <1>3, <1>4, <1>5, <1>13 DEF InSaves
    <3>3. ~InPages(compactor, compactor.path)'
      BY <1>5, <1>9, <1>13 DEF InPages
    <3>. QED
      BY <3>1, <3>2, <3>3 DEF Elsewhere
  <2>3. flusher # Idle => ~Elsewhere(flusher, flusher.path)'
    <3>1. SUFFICES ASSUME flusher # Idle PROVE ~Elsewhere(flusher, flusher.path)'
      OBVIOUS
    <3>2. ~Elsewhere(flusher, flusher.path) /\ compactor.path # flusher.path
      BY <1>2, <3>1 DEF CInv, Own
    <3>3. \A h \in 0 .. MaxGen : \A e \in pages[h] : e.path # flusher.path
      BY <1>3, <3>2 DEF Elsewhere, InPages
    <3>4. ~InSlots(flusher.path)'
      BY <1>1, <3>2 DEF Elsewhere, InSlots
    <3>5. ~InSaves(flusher.path)'
      BY <1>1, <1>3, <1>4, <1>5, <3>3 DEF InSaves
    <3>6. ~InPages(flusher, flusher.path)'
      BY <1>1, <1>7, <1>9, <3>2, <3>3 DEF InPages
    <3>. QED
      BY <3>4, <3>5, <3>6 DEF Elsewhere
  <2>. QED
    BY <1>1, <1>2, <1>3, <1>5, <2>2, <2>3 DEF CInv, Own
<1>15. Modes'
  <2>1. Turns'
    BY <1>1, <1>3 DEF Turns, Indexing, Idle
  <2>2. CompactorAt'
    <3>1. Contiguous(compactor.run)'
      BY <1>2, <1>5 DEF CInv, Modes, CompactorAt, Contiguous, Covered, First, Beyond, Span
    <3>. QED
      BY <1>1, <1>2, <1>5, <3>1 DEF CInv, Modes, CompactorAt, CompactDuty, s, g
  <2>. QED
    BY <1>1, <1>11, <1>12, <2>1, <2>2, WorkersStay DEF Modes
<1>16. Indexed'
  <2>1. ~compactor.shared => compactor.run \subseteq pages[g] /\ compactor.run \cap pages'[g] = {}
    BY <1>4, <1>7, <1>8, <1>13 DEF s, g
  <2>. QED
    BY <1>1, <1>3, <1>5, <1>6, <1>9, <2>1 DEF Indexed
<1>17. ASSUME NEW t \in Live, NEW P \in Views(slot[t].gen)'
       PROVE  P \in Views(slot[t].gen) \/ (t = s /\ P = pages'[g])
  <2>1. PICK h \in 0 .. MaxGen : h = slot[t].gen
    BY LiveTyped
  <2>2. P \in Views(h)'
    BY <1>1, <1>17, <2>1 DEF Views, Saved
  <2>3. P = pages'[h] \/ (h = g /\ P = pages[g])
    BY <1>1, <1>3, <1>5, <2>2, ViewsNext
  <2>4. h = g => t = s
    BY <1>4, <2>1, OneLive DEF g
  <2>. QED
    BY <1>8, <2>1, <2>3, <2>4, ViewsNow
<1>18. pages[g] \in Views(slot[s].gen)
  BY ViewsNow DEF g
<1>19. Served'
  <2>1. ASSUME NEW f \in pages[g], Robust(f, slot[s])
        PROVE  f \in pages'[g] \/ \E e \in pages'[g] : Span(f) \subseteq Span(e) /\ Robust(e, slot[s])
    <3>1. CASE compactor.shared
      <4>1. compactor.run \subseteq slot[s].chunks
        BY <1>2, <3>1 DEF CInv, Modes, CompactorAt, s
      <4>2. Ranged(f)
        BY <1>4, <2>1, PageTyped, EntryRanged
      <4>3. ~Overlap(Replacement, f)
        <5>1. SUFFICES ASSUME Overlap(Replacement, f) PROVE FALSE
          OBVIOUS
        <5>2. PICK o \in Span(Replacement) : o \in Span(f)
          BY <1>7, <4>2, <5>1, Touching
        <5>3. PICK r \in compactor.run : o \in Span(r) /\ Ranged(r)
          BY <1>2, ReplacementIs
        <5>4. Overlap(f, r)
          BY <4>2, <5>2, <5>3, Touching
        <5>. QED
          BY <2>1, <4>1, <5>4 DEF Robust
      <4>. QED
        BY <1>8, <2>1, <3>1, <4>3 DEF Clipped
    <3>2. CASE ~compactor.shared
      <4>1. compactor.run \subseteq UNION Views(slot[compactor.stream].gen)
        BY <1>18, <3>2 DEF s, g
      <4>2. Robust(Replacement, slot[s])
        BY <1>1, <1>2, <1>3, <3>2, <4>1, RunRobust DEF s
      <4>3. f \in compactor.run => Span(f) \subseteq Span(Replacement)
        BY <1>2, ReplacementIs
      <4>. QED
        BY <1>8, <1>9, <2>1, <3>2, <4>2, <4>3
    <3>. QED
      BY <3>1, <3>2
  <2>. QED
    BY <1>1, <1>17, <1>18, <2>1, ServedStays
<1>20. Clear'
  <2>1. ASSUME NEW t \in Live, NEW P \in Views(slot[t].gen)', NEW e \in P
        PROVE  e \in UNION Views(slot[t].gen) \/ e = Replacement
    <3>1. CASE t = s /\ P = pages'[g]
      <4>1. e \in pages[g] \/ e = Replacement
        BY <1>4, <1>9, <2>1, <3>1
      <4>. QED
        BY <1>18, <3>1, <4>1
    <3>. QED
      BY <1>17, <2>1, <3>1
  <2>2. \A t \in Live : \A e \in UNION Views(slot[t].gen)' :
          e \in UNION Views(slot[t].gen) \/ e = Replacement
    BY <2>1
  <2>3. compactor.stage # "indexed"
    BY <1>1
  <2>. QED
    BY <1>1, <1>3, <1>5, <1>6, <2>2, <2>3, ClearStays
<1>. QED
  BY <1>12, <1>14, <1>15, <1>16, <1>19, <1>20 DEF CInv

LEMMA IndexCompactionSafe ==
    ASSUME Limits, IInv, IInv', CInv, IndexCompaction
    PROVE  CInv'
<1>1. CASE compactor.shared \/ compactor.run \subseteq pages[slot[compactor.stream].gen]
  BY <1>1, IndexCompactionFits
<1>2. CASE ~(compactor.shared \/ compactor.run \subseteq pages[slot[compactor.stream].gen])
  <2>1. compactor # Idle
    BY DEF IndexCompaction, Idle
  <2>. QED
    BY <1>2, <2>1, DropCompaction DEF IndexCompaction, replicated
<1>. QED
  BY <1>1, <1>2

(* Nothing names the chunks that a page's replacement took the place of. *)
LEMMA RunUnnamed ==
    ASSUME IInv, CInv, compactor.stage = "indexed", ~compactor.shared, limbo.kind = "none"
    PROVE  /\ \A s \in Streams : \A r \in slot[s].chunks \cup slot[s].external :
                r.path \notin PathsOf(compactor.run)
           /\ \A g \in 0 .. MaxGen : \A e \in pages[g] : e.path \notin PathsOf(compactor.run)
           /\ flusher # Idle => flusher.path \notin PathsOf(compactor.run)
<1>1. compactor # Idle /\ compactor.gen \in 0 .. MaxGen /\ compactor.gen = slot[compactor.stream].gen
  BY StageIs, CompactorTyped DEF CInv, Modes, CompactorAt
<1>2. /\ compactor.run \subseteq compactor.saved /\ compactor.run \cap pages[compactor.gen] = {}
      /\ compactor.saved \in SUBSET PageEntry
  BY <1>1, CompactorTyped DEF CInv, Indexed
<1>3. \A e \in compactor.run : ~e.external
  <2>1. compactor.saved \in Views(slot[compactor.stream].gen)
    BY <1>1, ViewsNow
  <2>2. compactor.run \subseteq UNION Views(slot[compactor.stream].gen)
    BY <1>2, <2>1
  <2>3. Replacement \notin compactor.run
    BY <1>1, <1>2, CompactionNamed, ReplacementIs
  <2>. QED
    BY <1>1, <2>2, <2>3, TurnAlone, RunRobust
<1>4. ASSUME NEW e \in compactor.run
      PROVE  /\ OfEntry(compactor.gen, e) \in Claims /\ OfEntry(compactor.gen, e).kind = "chunk"
             /\ OfEntry(compactor.gen, e).path = e.path
  BY <1>2, <1>3, ClaimIs, ClaimFields
<1>5. ASSUME NEW s \in Streams, NEW r \in slot[s].chunks \cup slot[s].external,
             NEW e \in compactor.run, r.path = e.path
      PROVE  FALSE
  <2>1. /\ OfEntry(compactor.gen, e) = OfRef("slice", slot[s].gen, r)
           \/ OfEntry(compactor.gen, e) = OfRef("external", slot[s].gen, r)
    BY <1>4, <1>5, RefAlone
  <2>. QED
    BY <1>4, <2>1, ClaimFields
<1>6. ASSUME NEW g \in 0 .. MaxGen, NEW f \in pages[g], NEW e \in compactor.run, f.path = e.path
      PROVE  FALSE
  <2>1. OfEntry(g, f) \in Claims /\ OfEntry(g, f).path = f.path /\ f \in PageEntry /\ e \in PageEntry
    BY <1>2, <1>6, ClaimIs, ClaimFields, PageTyped
  <2>2. OfEntry(g, f) = OfEntry(compactor.gen, e)
    BY <1>4, <1>6, <2>1 DEF CInv, Core, OnePurpose
  <2>3. g = compactor.gen /\ f = e
    BY <2>1, <2>2, OneEntry
  <2>. QED
    BY <1>2, <1>6, <2>3
<1>7. ASSUME flusher # Idle, NEW e \in compactor.run PROVE flusher.path # e.path
  BY <1>2, <1>7 DEF CInv, Own, Elsewhere, InSaves
<1>. QED
  BY <1>5, <1>6, <1>7 DEF PathsOf

(* The replacement of a run of chunks can be clipped nowhere either. *)
LEMMA ReplacementRobust ==
    ASSUME IInv, CInv, compactor.stage = "indexed", ~compactor.shared,
           NEW s \in Live, Replacement \in pages[slot[s].gen]
    PROVE  Robust(Replacement, slot[s])
<1>1. compactor # Idle /\ compactor.gen \in 0 .. MaxGen /\ compactor.gen = slot[compactor.stream].gen
  BY StageIs, CompactorTyped DEF CInv, Modes, CompactorAt
<1>2. slot[s].gen = compactor.gen
  BY <1>1, LiveTyped, ReplacementIs, CompactionNamed
<1>3. s = compactor.stream
  BY <1>1, <1>2, ReplacementIs, OneLive
<1>4. compactor.run \subseteq UNION Views(slot[compactor.stream].gen)
  <2>1. compactor.saved \in Views(slot[compactor.stream].gen)
    BY <1>1, ViewsNow
  <2>. QED
    BY <2>1 DEF CInv, Indexed
<1>5. Replacement \notin compactor.run
  BY <1>1, CompactionNamed, ReplacementIs DEF CInv, Indexed
<1>. QED
  BY <1>1, <1>3, <1>4, <1>5, TurnAlone, RunRobust

(* A compaction of chunks ends with its replacement in the page. *)
LEMMA EndRaw ==
    ASSUME IInv, IInv', CInv, compactor.stage = "indexed", ~compactor.shared, limbo.kind = "none",
           compactor' = Idle, limbo' = NoCommand \/ limbo' = [kind |-> "compact", job |-> compactor],
           orphans \subseteq orphans',
           UNCHANGED <<slot, lastGen, store, pages, lastPath>>,
           UNCHANGED <<flusher, offloader, collector>>,
           \A p \in Doomed' : p \in Doomed \/ p \in PathsOf(compactor.run)
    PROVE  CInv'
<1>1. compactor # Idle /\ compactor.gen \in 0 .. MaxGen /\ compactor.gen = slot[compactor.stream].gen
  BY StageIs, CompactorTyped DEF CInv, Modes, CompactorAt
<1>2. /\ compactor'.stage # "indexed" /\ limbo'.kind \in {"none", "compact"}
      /\ limbo'.kind = "compact" => limbo'.job = compactor
  BY DEF Idle, NoCommand
<1>3. flusher.stage # "indexed" /\ offloader = Idle
  BY TurnAlone
<1>4. PICK S : S = {c \in Claims : c.path \notin PathsOf(compactor.run)}
  OBVIOUS
<1>5. Claims' \subseteq S
  <2>1. \A c \in Claims : c.path \notin PathsOf(compactor.run) => c \in S
    BY <1>4
  <2>2. /\ \A s \in Streams : \A r \in slot[s].chunks : OfRef("slice", slot[s].gen, r) \in S
        /\ \A s \in Streams : \A r \in slot[s].external : OfRef("external", slot[s].gen, r) \in S
    BY <2>1, ClaimIs, ClaimFields, RunUnnamed
  <2>3. \A g \in 0 .. MaxGen : \A e \in pages[g] : OfEntry(g, e) \in S
    BY <2>1, ClaimIs, ClaimFields, RunUnnamed
  <2>4. flusher # Idle => OfFlush(flusher.todo[1], flusher.path, flusher.shared) \in S
    BY <2>1, ClaimIs, ClaimFields, RunUnnamed
  <2>. QED
    BY <1>2, <1>3, <2>2, <2>3, <2>4, ClaimsFrom
<1>6. Claims' \subseteq Claims /\ lastPath <= lastPath'
  BY <1>4, <1>5 DEF IInv, CountersOK
<1>7. DoomKeeps
  <2>1. \A p \in PathsOf(compactor.run) : Unneeded(p)
    BY <1>4, <1>5 DEF Unneeded
  <2>. QED
    BY <2>1 DEF DoomKeeps
<1>8. Core' /\ Laid' /\ Untrimmed'
  BY <1>6, <1>7, StoreStays, WorkerKeeps
<1>9. Own'
  <2>1. flusher # Idle => ~Elsewhere(flusher, flusher.path)'
    BY <1>2, <1>3 DEF CInv, Own, Elsewhere, InSlots, InPages, InSaves
  <2>. QED
    BY <1>2, <2>1 DEF Own
<1>10. Modes'
  <2>1. Turns'
    BY <1>2, <1>3 DEF Turns, Indexing, Idle
  <2>2. LimboAt'
    <3>1. "raw" \in Duties
      BY <1>1 DEF CInv, Modes, CompactorAt, CompactDuty
    <3>. QED
      BY <1>2, <3>1 DEF LimboAt
  <2>. QED
    BY <1>6, <1>8, <2>1, <2>2, WorkersStay DEF Modes
<1>11. Indexed'
  BY <1>2, <1>3 DEF Indexed
<1>12. \A s \in Live : \A P \in Views(slot[s].gen)' : P = pages[slot[s].gen]
  BY <1>2, <1>3 DEF Views, Saved
<1>13. Served'
  <2>1. \A s \in Live : \A P \in Views(slot[s].gen)' : P \in Views(slot[s].gen)
    BY <1>12, ViewsNow
  <2>. QED
    BY <2>1, ServedStays
<1>14. Clear'
  <2>1. ASSUME NEW s \in Live, NEW e \in UNION Views(slot[s].gen)'
        PROVE  /\ e \in UNION Views(slot[s].gen)
               /\ e = Replacement => Robust(e, slot[s])
    <3>1. e \in pages[slot[s].gen] /\ pages[slot[s].gen] \in Views(slot[s].gen)
      BY <1>12, <2>1, ViewsNow
    <3>2. ASSUME e = Replacement PROVE Robust(e, slot[s])
      BY <2>1, <3>1, <3>2, ReplacementRobust
    <3>. QED
      BY <3>1, <3>2
  <2>. QED
    BY <1>3, <2>1, ClearStays
<1>. QED
  BY <1>8, <1>9, <1>10, <1>11, <1>13, <1>14 DEF CInv

LEMMA LoseCompactionSafe ==
    ASSUME Limits, IInv, IInv', CInv, LoseCompaction
    PROVE  CInv'
<1>1. /\ compactor.stage = "indexed" /\ CompactDuty \in Lossy /\ limbo = NoCommand
      /\ limbo' = [kind |-> "compact", job |-> compactor]
      /\ orphans \subseteq orphans' /\ compactor' = Idle
      /\ UNCHANGED <<slot, gc, lastGen, store, pages, lastPath>>
      /\ UNCHANGED <<flusher, offloader, collector>>
  BY DEF LoseCompaction, replicated, Settled
<1>2. ~compactor.shared
  BY <1>1, StageIs, CompactorAlone DEF CompactDuty
<1>3. \A p \in Doomed' : p \in Doomed \/ p \in PathsOf(compactor.run)
  <2>1. Todo' = Todo /\ limbo'.job = compactor
    BY <1>1 DEF Todo
  <2>. QED
    BY <1>1, <2>1, DoomedIs, DoomedNext
<1>4. limbo.kind = "none"
  BY <1>1 DEF NoCommand
<1>. QED
  BY <1>1, <1>2, <1>3, <1>4, EndRaw

(* The process of the compaction ended, or its page write or rollback      *)
(* failed.                                                                 *)
LEMMA AbandonCompactionSafe ==
    ASSUME Limits, IInv, IInv', CInv, AbandonCompaction
    PROVE  CInv'
<1>1. /\ compactor # Idle /\ CompactDuty \in Lossy /\ compactor' = Idle
      /\ orphans \subseteq orphans'
      /\ UNCHANGED <<slot, gc, lastGen, store, pages, lastPath>>
      /\ UNCHANGED <<flusher, offloader, collector, limbo>>
  BY DEF AbandonCompaction, replicated
<1>2. compactor'.stage # "indexed" /\ ~compactor.shared
  BY <1>1, CompactorAlone DEF Idle, CompactDuty
<1>3. Claims' \subseteq Claims
  BY <1>1, <1>2, ClaimIs, ClaimsFrom
<1>4. lastPath <= lastPath'
  BY <1>1 DEF IInv, CountersOK
<1>5. Core' /\ Laid' /\ Untrimmed'
  BY <1>1, <1>3, <1>4, DoomStays, StoreStays, WorkerKeeps
<1>6. Own'
  <2>1. flusher # Idle => ~Elsewhere(flusher, flusher.path)'
    BY <1>1, <1>2 DEF CInv, Own, Elsewhere, InSlots, InPages, InSaves
  <2>. QED
    BY <1>1, <2>1 DEF CInv, Own
<1>7. Modes'
  <2>1. Turns'
    BY <1>1, <1>2 DEF CInv, Modes, Turns, Indexing
  <2>. QED
    BY <1>1, <1>4, <1>5, <2>1, WorkersStay DEF Modes
<1>8. Indexed'
  BY <1>1, <1>2, IndexedStays DEF Indexed
<1>9. \A s \in Live : \A P \in Views(slot[s].gen)' : P \in Views(slot[s].gen)
  BY <1>1, <1>2 DEF Views, Saved
<1>10. Served'
  BY <1>1, <1>9, ServedStays
<1>11. Clear'
  <2>1. ASSUME NEW s \in Live, NEW e \in UNION Views(slot[s].gen)',
               compactor.stage = "indexed", e = Replacement
        PROVE  Robust(e, slot[s])
    <3>1. flusher.stage # "indexed"
      BY <2>1, TurnAlone
    <3>2. e \in pages[slot[s].gen]
      BY <1>1, <1>2, <2>1, <3>1 DEF Views, Saved
    <3>. QED
      BY <1>2, <2>1, <3>2, ReplacementRobust
  <2>2. \A s \in Live : \A e \in UNION Views(slot[s].gen)' : e \in UNION Views(slot[s].gen)
    BY <1>9
  <2>. QED
    BY <1>1, <2>1, <2>2, ClearStays
<1>. QED
  BY <1>5, <1>6, <1>7, <1>8, <1>10, <1>11 DEF CInv

LEMMA PublishRawSafe ==
    ASSUME IInv, IInv', CInv, PublishCompaction, ~compactor.shared
    PROVE  CInv'
<1>1. /\ compactor.stage = "indexed" /\ limbo = NoCommand /\ CompactCold(compactor)
      /\ UNCHANGED <<lastPath, limbo>> /\ UNCHANGED <<flusher, offloader, collector>>
  BY DEF PublishCompaction, Settled
<1>2. compactor # Idle /\ compactor \in Compaction /\ Written(compactor.run)
      /\ slot[compactor.stream].live
  BY <1>1, StageIs, CompactorTyped DEF CInv, Modes, CompactorAt
<1>3. compactor' = Idle /\ UNCHANGED <<store, pages, orphans>>
  BY <1>2 DEF PublishCompaction, CompactAccepted
<1>4. UNCHANGED <<slot, lastGen>>
  BY <1>1 DEF CompactCold, CompactRaw
<1>5. Grown(gc, gc', {0}, PathsOf(compactor.run))
  BY <1>1, <1>2, <1>3, OrphansStay, CompactColdEffect
<1>6. \A p \in Doomed' : p \in Doomed \/ p \in PathsOf(compactor.run)
  <2>1. \A e \in Entries(gc') : e \in Entries(gc) \/ e.paths \subseteq PathsOf(compactor.run)
    BY <1>5 DEF Grown
  <2>2. Todo' = Todo
    BY <1>1 DEF Todo
  <2>. QED
    BY <1>1, <2>1, <2>2, DoomedIs, DoomedNext DEF NoCommand
<1>7. limbo.kind = "none" /\ limbo' = NoCommand /\ orphans \subseteq orphans'
  BY <1>1, <1>3 DEF NoCommand
<1>. QED
  BY <1>1, <1>3, <1>4, <1>6, <1>7, EndRaw

LEMMA CommitRawSafe ==
    ASSUME IInv, IInv', CInv, CommitLimbo, limbo.kind = "compact"
    PROVE  CInv'
<1>1. /\ UNCHANGED <<orphans, store, pages, lastPath>> /\ limbo' = NoCommand
      /\ UNCHANGED <<flusher, compactor, offloader, collector>> /\ CompactCold(limbo.job)
  BY DEF CommitLimbo, ApplyLimbo, workers
<1>2. limbo.job \in Compaction /\ Written(limbo.job.run) /\ ~limbo.job.shared
  BY DEF IInv, LimboOK, NoCommand, LostCommand, CInv, Modes, LimboAt
<1>3. UNCHANGED <<slot, lastGen>>
  BY <1>1, <1>2 DEF CompactCold, CompactRaw
<1>4. Grown(gc, gc', {0}, PathsOf(limbo.job.run))
  BY <1>1, <1>2, OrphansStay, CompactColdEffect
<1>5. GcQuiet
  BY <1>1, <1>3 DEF GcQuiet, NoCommand
<1>6. DoomKeeps
  <2>1. \A e \in Entries(gc') : e \in Entries(gc) \/ e.paths \subseteq PathsOf(limbo.job.run)
    BY <1>4 DEF Grown
  <2>2. Todo' = Todo
    BY <1>1 DEF Todo
  <2>. QED
    BY <1>1, <2>1, <2>2, DoomedIs, DoomedNext DEF DoomKeeps, NoCommand
<1>7. TodoDead'
  <2>1. lastPath <= lastPath' /\ lastGen <= lastGen'
    BY <1>1, <1>3 DEF IInv, CountersOK
  <2>. QED
    BY <1>1, <1>3, <2>1, StillContinues, TodoStays DEF CInv, Core, Todo
<1>. QED
  BY <1>1, <1>5, <1>6, <1>7, StoreStays, GcKeeps

(* The slices of a run leave the record, and nothing else names them. *)
LEMMA SlicesUnnamed ==
    ASSUME IInv, CInv, NEW s \in Live, NEW run \in SUBSET slot[s].chunks, Others(s),
           slot'[s].gen = slot[s].gen,
           slot'[s].chunks = slot[s].chunks \ run, slot'[s].external = slot[s].external
    PROVE  /\ \A t \in Streams : \A r \in slot'[t].chunks \cup slot'[t].external :
                r.path \notin PathsOf(run)
           /\ \A g \in 0 .. MaxGen : \A e \in pages[g] : e.path \notin PathsOf(run)
           /\ flusher # Idle => flusher.path \notin PathsOf(run)
<1>1. s \in Streams /\ slot[s].live /\ slot[s].chunks \in SUBSET Ref
  BY LiveTyped, SlotTyped
<1>2. ASSUME NEW t \in Streams, NEW r \in slot'[t].chunks \cup slot'[t].external,
             NEW q \in run, r.path = q.path
      PROVE  FALSE
  <2>1. /\ slot'[t].gen = slot[t].gen
        /\ r \in slot'[t].chunks => r \in slot[t].chunks
        /\ r \in slot'[t].external => r \in slot[t].external
    BY <1>2 DEF Others
  <2>2. CASE r \in slot'[t].external
    <3>1. OfRef("external", slot[t].gen, r) \in Claims
      BY <2>1, <2>2, ClaimIs
    <3>2. OfRef("external", slot[t].gen, r).path = q.path
      BY <1>2, ClaimFields
    <3>3. OfRef("external", slot[t].gen, r) = OfRef("slice", slot[s].gen, q)
      BY <1>1, <3>1, <3>2, RefAlone
    <3>. QED
      BY <3>3, ClaimFields
  <2>3. CASE r \in slot'[t].chunks
    <3>1. OfRef("slice", slot[t].gen, r) \in Claims
      BY <2>1, <2>3, ClaimIs
    <3>2. OfRef("slice", slot[t].gen, r).path = q.path
      BY <1>2, ClaimFields
    <3>3. OfRef("slice", slot[t].gen, r) = OfRef("slice", slot[s].gen, q)
      BY <1>1, <3>1, <3>2, RefAlone
    <3>4. r \in Ref /\ q \in Ref
      BY <1>1, <2>1, <2>3, SlotTyped
    <3>5. slot[t].gen = slot[s].gen /\ r = q
      BY <3>3, <3>4, OneRef
    <3>6. slot[t].live
      BY <2>1, <2>3, SlotTyped DEF Vacant
    <3>7. t = s
      BY <1>1, <3>5, <3>6, OneLive DEF Live
    <3>. QED
      BY <1>2, <2>3, <3>5, <3>7
  <2>. QED
    BY <1>2, <2>2, <2>3
<1>3. ASSUME NEW g \in 0 .. MaxGen, NEW e \in pages[g], NEW q \in run, e.path = q.path
      PROVE  FALSE
  <2>1. OfEntry(g, e) \in Claims /\ OfEntry(g, e).path = q.path
    BY <1>3, ClaimIs, ClaimFields
  <2>2. OfEntry(g, e) = OfRef("slice", slot[s].gen, q)
    BY <1>1, <2>1, RefAlone
  <2>. QED
    BY <2>2, ClaimFields
<1>4. ASSUME flusher # Idle, NEW q \in run PROVE flusher.path # q.path
  BY <1>1, <1>4, FlushNamed
<1>. QED
  BY <1>2, <1>3, <1>4 DEF PathsOf

LEMMA PublishSharedSafe ==
    ASSUME IInv, IInv', CInv, PublishCompaction, compactor.shared
    PROVE  CInv'
<1> DEFINE s == compactor.stream
           run == compactor.run
           g == slot[s].gen
<1>1. /\ compactor.stage = "indexed" /\ limbo = NoCommand /\ CompactCold(compactor)
      /\ UNCHANGED <<lastPath, limbo>> /\ UNCHANGED <<flusher, offloader, collector>>
  BY DEF PublishCompaction, Settled
<1>2. compactor # Idle /\ compactor \in Compaction /\ Written(run) /\ s \in Streams
      /\ slot[s].live /\ run \subseteq slot[s].chunks /\ compactor.gen = g
  BY <1>1, StageIs, CompactorTyped DEF CInv, Modes, CompactorAt
<1>3. compactor' = Idle /\ UNCHANGED <<store, pages, orphans>>
  BY <1>2 DEF PublishCompaction, CompactAccepted, SharedRunMatches
<1>4. slot' = [slot EXCEPT ![s].chunks = @ \ run] /\ lastGen' = lastGen
  BY <1>1 DEF CompactCold, CompactShared
<1>5. /\ Others(s) /\ slot'[s].live = slot[s].live /\ slot'[s].gen = slot[s].gen
      /\ slot'[s].tail = slot[s].tail /\ slot'[s].retained = slot[s].retained
      /\ slot'[s].hot = slot[s].hot
      /\ slot'[s].chunks = slot[s].chunks \ run /\ slot'[s].external = slot[s].external
  BY <1>2, <1>4, RefsShape
<1>6. Grown(gc, gc', {0}, PathsOf(run))
  BY <1>1, <1>2, <1>3, OrphansStay, CompactColdEffect
<1>7. /\ compactor'.stage # "indexed" /\ limbo.kind = "none" /\ limbo'.kind = "none"
      /\ flusher.stage # "indexed" /\ offloader = Idle
  BY <1>1, <1>3, TurnAlone DEF Idle, NoCommand
<1>8. s \in Live /\ g \in 0 .. MaxGen /\ Live' = Live
  <2>1. \A t \in Streams : slot'[t].live <=> slot[t].live
    BY <1>5 DEF Others
  <2>. QED
    BY <1>2, <2>1, LiveTyped DEF Live
<1> HIDE DEF s, run, g
<1>9. PICK S : S = {c \in Claims : c.path \notin PathsOf(run)}
  OBVIOUS
<1>10. Claims' \subseteq S
  <2>1. \A c \in Claims : c.path \notin PathsOf(run) => c \in S
    BY <1>9
  <2>2. \A t \in Streams : \A r \in slot'[t].chunks : OfRef("slice", slot'[t].gen, r) \in S
    <3>1. SUFFICES ASSUME NEW t \in Streams, NEW r \in slot'[t].chunks
                   PROVE  OfRef("slice", slot'[t].gen, r) \in S
      OBVIOUS
    <3>2. r \in slot[t].chunks /\ slot'[t].gen = slot[t].gen
      BY <1>5, <3>1 DEF Others
    <3>. QED
      BY <1>2, <1>5, <1>8, <2>1, <3>1, <3>2, ClaimIs, ClaimFields, SlicesUnnamed
  <2>3. \A t \in Streams : \A r \in slot'[t].external : OfRef("external", slot'[t].gen, r) \in S
    <3>1. SUFFICES ASSUME NEW t \in Streams, NEW r \in slot'[t].external
                   PROVE  OfRef("external", slot'[t].gen, r) \in S
      OBVIOUS
    <3>2. r \in slot[t].external /\ slot'[t].gen = slot[t].gen
      BY <1>5, <3>1 DEF Others
    <3>. QED
      BY <1>2, <1>5, <1>8, <2>1, <3>1, <3>2, ClaimIs, ClaimFields, SlicesUnnamed
  <2>4. \A h \in 0 .. MaxGen : \A e \in pages'[h] : OfEntry(h, e) \in S
    BY <1>2, <1>3, <1>5, <1>8, <2>1, ClaimIs, ClaimFields, SlicesUnnamed
  <2>5. flusher # Idle => OfFlush(flusher.todo[1], flusher.path, flusher.shared) \in S
    BY <1>2, <1>5, <1>8, <2>1, ClaimIs, ClaimFields, SlicesUnnamed
  <2>. QED
    BY <1>1, <1>3, <1>7, <2>2, <2>3, <2>4, <2>5, ClaimsFrom
<1>11. Claims' \subseteq Claims /\ lastPath <= lastPath' /\ lastGen <= lastGen'
  BY <1>1, <1>4, <1>9, <1>10 DEF IInv, CountersOK
<1>12. DoomKeeps
  <2>1. \A p \in PathsOf(run) : Unneeded(p)
    BY <1>9, <1>10 DEF Unneeded
  <2>. QED
    BY <1>1, <1>6, <2>1, GrownDoom
<1>13. Continues
  <2>1. \A t \in Streams : slot[t].retained \in Nat /\ slot[t].tail \in Nat
    BY SlotTyped
  <2>2. \A t \in Streams : /\ slot'[t].live <=> slot[t].live
                           /\ slot'[t].gen = slot[t].gen /\ slot'[t].retained = slot[t].retained
                           /\ slot'[t].tail = slot[t].tail /\ slot'[t].hot = slot[t].hot
    BY <1>5 DEF Others
  <2>. QED
    BY <2>1, <2>2 DEF Continues
<1>14. Core'
  <2>1. Todo' \subseteq Todo
    BY <1>1 DEF Todo
  <2>2. TodoDead'
    BY <1>11, <1>13, <2>1, TodoStays DEF CInv, Core
  <2>. QED
    BY <1>3, <1>11, <1>12, <1>13, <2>2, StoreStays, CoreKeeps DEF CInv
<1>15. Laid'
  <2>1. ASSUME NEW t \in Streams
        PROVE  /\ slot'[t].hot = slot[t].hot /\ slot'[t].retained = slot[t].retained
               /\ slot'[t].chunks \subseteq slot[t].chunks /\ slot'[t].external = slot[t].external
    BY <1>5 DEF Others
  <2>. QED
    BY <2>1 DEF CInv, Laid
<1>16. Own'
  <2>1. \A p : InSlots(p)' => InSlots(p)
    BY <1>5 DEF InSlots, Others
  <2>2. flusher # Idle => ~Elsewhere(flusher, flusher.path)'
    <3>1. SUFFICES ASSUME flusher # Idle PROVE ~Elsewhere(flusher, flusher.path)'
      OBVIOUS
    <3>2. ~InSlots(flusher.path)' /\ ~InSaves(flusher.path)' /\ ~InPages(flusher, flusher.path)'
      BY <1>1, <1>3, <1>7, <2>1, <3>1 DEF CInv, Own, Elsewhere, InPages, InSaves, InSlots
    <3>. QED
      BY <3>2 DEF Elsewhere
  <2>. QED
    BY <1>1, <1>3, <1>7, <2>2 DEF Own
<1>17. Modes'
  <2>1. Turns'
    BY <1>1, <1>7 DEF Turns, Indexing, Idle
  <2>2. Untrimmed'
    BY <1>5 DEF CInv, Modes, Untrimmed, Others
  <2>3. CompactorAt'
    BY <1>3 DEF CompactorAt
  <2>. QED
    BY <1>1, <1>3, <1>11, <2>1, <2>2, <2>3, WorkersStay DEF Modes
<1>18. Indexed'
  BY <1>1, <1>3, <1>7 DEF Indexed
<1>19. Robust(Replacement, slot'[s]) /\ Replacement \in pages[g]
       /\ \A r \in run : Span(r) \subseteq Span(Replacement)
  <2>1. \A r \in run : Span(r) \cap slot[s].hot = {}
    BY <1>2 DEF CInv, Laid
  <2>2. Span(Replacement) \cap slot'[s].hot = {}
    BY <1>2, <1>5, <2>1, ReplacementIs DEF run
  <2>3. ASSUME NEW q \in slot'[s].chunks, Overlap(Replacement, q) PROVE FALSE
    <3>1. q \in slot[s].chunks /\ q \notin run /\ Ranged(q)
      BY <1>2, <1>5, <2>3, SlotTyped, EntryRanged
    <3>2. PICK o \in Span(Replacement) : o \in Span(q)
      BY <1>2, <2>3, <3>1, ReplacementIs, Touching
    <3>3. PICK r \in run : o \in Span(r) /\ Ranged(r)
      BY <1>2, ReplacementIs DEF run
    <3>4. Overlap(r, q)
      BY <3>1, <3>2, <3>3, Touching
    <3>. QED
      BY <1>2, <3>1, <3>4 DEF CInv, Laid
  <2>4. Replacement \in pages[g]
    BY <1>1, <1>2 DEF CInv, Indexed
  <2>5. \A r \in run : Span(r) \subseteq Span(Replacement)
    BY <1>2, ReplacementIs DEF run
  <2>. QED
    BY <2>2, <2>3, <2>4, <2>5 DEF Robust
<1>20. ASSUME NEW t \in Streams, NEW e, Robust(e, slot[t]) PROVE Robust(e, slot'[t])
  BY <1>5, <1>20 DEF Robust, Others
<1>21. \A t \in Live : slot'[t].gen = slot[t].gen /\ t \in Streams
  BY <1>5 DEF Others, Live
<1>22. ASSUME NEW t \in Live, NEW P \in Views(slot[t].gen)'
       PROVE  P = pages[slot[t].gen] /\ P \in Views(slot[t].gen)
  <2>1. PICK h \in 0 .. MaxGen : h = slot[t].gen
    BY LiveTyped
  <2>2. P \in Views(h)'
    BY <1>21, <1>22, <2>1 DEF Views, Saved
  <2>. QED
    BY <1>1, <1>3, <1>7, <2>1, <2>2, ViewsNext, ViewsNow
<1>23. Served'
  <2>1. SUFFICES ASSUME NEW t \in Live, NEW P \in Views(slot[t].gen)' PROVE Covers(P, slot'[t])
    BY <1>8, <1>21 DEF Served, Views, Saved
  <2>2. Covers(P, slot[t]) /\ P = pages[slot[t].gen]
    BY <1>22, <2>1 DEF CInv, Served
  <2>3. SUFFICES ASSUME NEW o \in slot'[t].retained .. slot'[t].tail - 1
                 PROVE  \/ o \in slot'[t].hot
                        \/ \E r \in slot'[t].chunks \cup slot'[t].external : o \in Span(r)
                        \/ \E e \in P : o \in Span(e) /\ Robust(e, slot'[t])
    BY DEF Covers
  <2>4. \/ o \in slot[t].hot
        \/ \E r \in slot[t].chunks \cup slot[t].external : o \in Span(r)
        \/ \E e \in P : o \in Span(e) /\ Robust(e, slot[t])
    BY <1>5, <1>21, <2>2, <2>3 DEF Covers, Others
  <2>5. CASE o \in slot[t].hot
    BY <1>5, <1>21, <2>5 DEF Others
  <2>6. CASE \E e \in P : o \in Span(e) /\ Robust(e, slot[t])
    BY <1>20, <1>21, <2>6
  <2>7. CASE \E r \in slot[t].chunks \cup slot[t].external : o \in Span(r)
    <3>1. PICK r \in slot[t].chunks \cup slot[t].external : o \in Span(r)
      BY <2>7
    <3>2. CASE r \in slot'[t].chunks \cup slot'[t].external
      BY <3>1, <3>2
    <3>3. CASE r \notin slot'[t].chunks \cup slot'[t].external
      <4>1. t = s /\ r \in run
        BY <1>5, <1>21, <3>1, <3>3 DEF Others
      <4>. QED
        BY <1>19, <2>2, <3>1, <4>1 DEF g
    <3>. QED
      BY <3>2, <3>3
  <2>. QED
    BY <2>4, <2>5, <2>6, <2>7
<1>24. Clear'
  <2>1. SUFFICES ASSUME NEW t \in Live, NEW P \in Views(slot[t].gen)', NEW e \in P
                 PROVE  \/ e.external \/ Robust(e, slot'[t])
                        \/ e.path \in orphans' /\ "raw" \notin Duties
    BY <1>8, <1>21 DEF Clear, Views, Saved
  <2>2. e \in pages[slot[t].gen] /\ e \in UNION Views(slot[t].gen)
    BY <1>22, <2>1
  <2>3. \/ e.external \/ Robust(e, slot[t]) \/ e = Replacement
        \/ e.path \in orphans /\ "raw" \notin Duties
    BY <1>7, <2>2 DEF CInv, Clear
  <2>4. ASSUME e = Replacement PROVE Robust(e, slot'[t])
    <3>1. slot[t].gen = compactor.gen
      BY <1>2, <2>2, <2>4, LiveTyped, ReplacementIs, CompactionNamed
    <3>2. t = s
      BY <1>2, <1>8, <2>1, <3>1, OneLive DEF g
    <3>. QED
      BY <1>19, <2>4, <3>2
  <2>. QED
    BY <1>1, <1>3, <1>20, <1>21, <2>3, <2>4
<1>. QED
  BY <1>14, <1>15, <1>16, <1>17, <1>18, <1>23, <1>24 DEF CInv

LEMMA CompactionSafe ==
    ASSUME Limits, IInv, IInv', CInv,
           \/ PlanShared \/ PlanRaw \/ IndexCompaction \/ PublishCompaction
           \/ RefuseCompaction \/ LoseCompaction \/ AbandonCompaction
    PROVE  CInv'
<1>1. CASE PublishCompaction
  <2>1. compactor.shared \in BOOLEAN
    BY <1>1, StageIs, CompactorTyped DEF PublishCompaction
  <2>. QED
    BY <1>1, <2>1, PublishRawSafe, PublishSharedSafe
<1>. QED
  BY <1>1, PlanCompactionsSafe, IndexCompactionSafe, RefuseCompactionSafe, LoseCompactionSafe,
     AbandonCompactionSafe

---------------------------------------------------------------------------
(* The offload worker.                                                     *)

(* What overlaps an external payload's bytes is its own entry. *)
LEMMA ExternalIs ==
    ASSUME IInv, CInv, NEW s \in Streams, NEW r \in slot[s].external
    PROVE  /\ Entry(r, TRUE) \in PageEntry /\ Ranged(r) /\ r.path <= lastPath
           /\ OfEntry(slot[s].gen, Entry(r, TRUE)) \in Claims
           /\ \A c \in Claims : c.gen = slot[s].gen /\ Overlap(r, c) =>
                c = OfEntry(slot[s].gen, Entry(r, TRUE)) /\ c.kind = "external"
<1>1. r \in Ref /\ Entry(r, TRUE) \in PageEntry /\ Ranged(r)
  <2>1. r \in Ref
    BY SlotTyped
  <2>2. Entry(r, TRUE) \in PageEntry
    <3>1. PICK x \in BOOLEAN : x = TRUE
      OBVIOUS
    <3>2. Entry(r, x) \in PageEntry
      BY <2>1 DEF PageEntry
    <3>. QED
      BY <3>1, <3>2
  <2>. QED
    BY <2>1, <2>2, EntryRanged
<1>2. OfEntry(slot[s].gen, Entry(r, TRUE)) = OfRef("external", slot[s].gen, r)
  BY EntryClaims
<1>3. OfRef("external", slot[s].gen, r) \in Claims
  BY ClaimIs
<1>4. r.path <= lastPath
  BY <1>3, ClaimFields DEF CInv, Core, HandedOut
<1>5. ASSUME NEW c \in Claims, c.gen = slot[s].gen, Overlap(r, c)
      PROVE  c = OfRef("external", slot[s].gen, r) /\ c.kind = "external"
  <2>1. /\ OfRef("external", slot[s].gen, r).kind = "external"
        /\ OfRef("external", slot[s].gen, r).gen = slot[s].gen
        /\ Overlap(OfRef("external", slot[s].gen, r), c)
    BY <1>5, ClaimFields DEF Overlap
  <2>. QED
    BY <1>3, <1>5, <2>1 DEF CInv, Core, ExternalApart
<1>. QED
  BY <1>1, <1>2, <1>3, <1>4, <1>5

LEMMA IndexOffloadSafe ==
    ASSUME Limits, IInv, IInv', CInv, NEW s \in Streams, IndexOffload(s)
    PROVE  CInv'
<1> DEFINE g == slot[s].gen
           new == {Entry(r, TRUE) : r \in slot[s].external}
           page == {f \in pages[g] : \A e \in new : f = e \/ ~Overlap(e, f)} \cup new
<1>1. /\ MayIndex /\ slot[s].live
      /\ offloader' = [stage |-> "indexed", stream |-> s, refs |-> slot[s].external]
      /\ pages' = [pages EXCEPT ![g] = page]
      /\ UNCHANGED <<slot, gc, lastGen, store, lastPath>>
      /\ UNCHANGED <<flusher, compactor, collector, limbo, orphans>>
  BY DEF IndexOffload, replicated, outcome
<1>2. /\ limbo.kind = "none" /\ flusher.stage # "indexed" /\ compactor.stage # "indexed"
  BY <1>1, MayIndexAlone
<1>3. s \in Live /\ g \in 0 .. MaxGen
  BY <1>1, LiveTyped DEF Live
<1>4. /\ offloader' # Idle /\ offloader'.stream = s /\ offloader'.refs = slot[s].external
      /\ offloader'.stage = "indexed"
  BY <1>1 DEF Idle
<1>5. \A e : e \in new <=> \E r \in slot[s].external : e = Entry(r, TRUE)
  OBVIOUS
<1>6. ASSUME NEW f \in pages[g] PROVE f \in page
  <2>1. SUFFICES ASSUME NEW e \in new, Overlap(e, f) PROVE f = e
    BY <1>6
  <2>2. PICK r \in slot[s].external : e = Entry(r, TRUE)
    BY <2>1
  <2>3. OfEntry(g, f) \in Claims /\ f \in PageEntry
    BY <1>3, ClaimIs, PageTyped
  <2>4. Overlap(r, OfEntry(g, f)) /\ OfEntry(g, f).gen = g
    BY <2>1, <2>2 DEF Overlap, Entry, OfEntry, OfRef, Claim
  <2>5. OfEntry(g, f) = OfEntry(g, e) /\ e \in PageEntry
    BY <2>2, <2>3, <2>4, ExternalIs
  <2>. QED
    BY <2>3, <2>5, OneEntry
<1>7. page = pages[g] \cup new
  BY <1>6
<1> HIDE DEF page, new
<1>8. /\ pages'[g] = pages[g] \cup new
      /\ \A h \in 0 .. MaxGen : h # g => pages'[h] = pages[h]
  BY <1>1, <1>3, <1>7 DEF IInv, ObjectsOK
<1>9. \A e \in new : e.external /\ OfEntry(g, e) \in Claims
  BY <1>5, ExternalIs DEF Entry
<1> HIDE DEF g
<1>10. Claims' \subseteq Claims
  <2>1. \A h \in 0 .. MaxGen : \A e \in pages'[h] : OfEntry(h, e) \in Claims
    BY <1>8, <1>9, ClaimIs
  <2>. QED
    BY <1>1, <1>2, <2>1, ClaimIs, ClaimsFrom
<1>11. lastPath <= lastPath'
  BY <1>1 DEF IInv, CountersOK
<1>12. Core' /\ Laid' /\ Untrimmed'
  BY <1>1, <1>10, <1>11, DoomStays, StoreStays, WorkerKeeps
<1>13. Own'
  <2>1. \A e \in new : \E r \in slot[s].external : e.path = r.path
    BY <1>5 DEF Entry
  <2>2. flusher # Idle => ~Elsewhere(flusher, flusher.path)'
    <3>1. SUFFICES ASSUME flusher # Idle PROVE ~Elsewhere(flusher, flusher.path)'
      OBVIOUS
    <3>2. ~InSlots(flusher.path)' /\ ~InSaves(flusher.path)'
      BY <1>1, <3>1 DEF CInv, Own, Elsewhere, InSlots, InSaves
    <3>3. \A h \in 0 .. MaxGen : \A e \in pages'[h] : e.path # flusher.path
      BY <1>2, <1>8, <2>1, <3>1, FlushNamed
    <3>4. ~InPages(flusher, flusher.path)'
      BY <1>1, <3>3 DEF InPages
    <3>. QED
      BY <3>2, <3>4 DEF Elsewhere
  <2>3. compactor # Idle => ~Elsewhere(compactor, compactor.path)'
    <3>1. SUFFICES ASSUME compactor # Idle PROVE ~Elsewhere(compactor, compactor.path)'
      OBVIOUS
    <3>2. ~InSlots(compactor.path)' /\ ~InSaves(compactor.path)'
      BY <1>1, <3>1 DEF CInv, Own, Elsewhere, InSlots, InSaves
    <3>3. \A h \in 0 .. MaxGen : \A e \in pages'[h] : e.path # compactor.path
      BY <1>2, <1>8, <2>1, <3>1, CompactionNamed
    <3>4. ~InPages(compactor, compactor.path)'
      BY <1>1, <3>3 DEF InPages
    <3>. QED
      BY <3>2, <3>4 DEF Elsewhere
  <2>. QED
    BY <1>1, <2>2, <2>3 DEF CInv, Own
<1>14. Modes'
  <2>1. Turns'
    BY <1>1, <1>2 DEF Turns, Indexing
  <2>2. Written(offloader.refs)'
    BY <1>1, <1>4, ExternalIs DEF Written
  <2>. QED
    BY <1>1, <1>11, <1>12, <2>1, <2>2, WorkersStay DEF Modes
<1>15. Indexed'
  <2>1. \A r \in slot[s].external : Entry(r, TRUE) \in pages'[g]
    BY <1>5, <1>8
  <2>2. Paged(offloader.stream, offloader.refs)'
    BY <1>1, <1>4, <2>1 DEF Paged, Entry, g
  <2>. QED
    BY <1>1, <1>2, <2>2 DEF Indexed
<1>16. ASSUME NEW t \in Live, NEW P \in Views(slot[t].gen)'
       PROVE  P \in Views(slot[t].gen) \/ (P = pages[slot[t].gen] \cup new /\ pages[slot[t].gen] \in Views(slot[t].gen))
  <2>1. PICK h \in 0 .. MaxGen : h = slot[t].gen
    BY LiveTyped
  <2>2. P \in Views(h)'
    BY <1>1, <1>16, <2>1 DEF Views, Saved
  <2>3. P = pages'[h]
    BY <1>1, <1>2, <2>2, ViewsNext
  <2>. QED
    BY <1>8, <2>1, <2>3, ViewsNow
<1>17. Served'
  BY <1>1, <1>16, ServedStays
<1>18. Clear'
  <2>1. \A t \in Live : \A e \in UNION Views(slot[t].gen)' :
          e \in UNION Views(slot[t].gen) \/ e.external
    BY <1>9, <1>16
  <2>. QED
    BY <1>1, <1>2, <2>1, ClearStays
<1>. QED
  BY <1>12, <1>13, <1>14, <1>15, <1>17, <1>18 DEF CInv

(* The offload gives up, or its command is appended and the answer lost. *)
LEMMA EndOffload ==
    ASSUME IInv, IInv', CInv, RefuseOffload \/ LoseOffload
    PROVE  CInv'
<1>1. /\ offloader # Idle /\ offloader' = Idle
      /\ UNCHANGED <<slot, gc, lastGen, store, pages, lastPath>>
      /\ UNCHANGED <<flusher, compactor, collector, orphans>>
  BY DEF RefuseOffload, LoseOffload, replicated, outcome
<1>2. \/ limbo' = limbo
      \/ /\ limbo = NoCommand
         /\ limbo' = [kind |-> "offload", stream |-> offloader.stream, refs |-> offloader.refs]
  BY DEF RefuseOffload, LoseOffload, outcome, Settled
<1>3. /\ flusher.stage # "indexed" /\ compactor.stage # "indexed" /\ offloader'.stage # "indexed"
      /\ limbo.kind \notin {"offload", "compact"}
  BY <1>1, TurnAlone DEF Idle
<1>4. limbo' = limbo \/ (limbo'.kind = "offload" /\ limbo'.stream = offloader.stream
                          /\ limbo'.refs = offloader.refs)
  BY <1>2
<1>5. limbo' = limbo \/ limbo'.kind # "compact"
  BY <1>4
<1>6. Claims' \subseteq Claims
  BY <1>1, <1>4, ClaimIs, ClaimsFrom
<1>7. lastPath <= lastPath' /\ offloader.refs \subseteq Ref
  BY <1>1 DEF IInv, CountersOK, OffloaderOK, Offload
<1>8. Core' /\ Laid' /\ Untrimmed'
  BY <1>1, <1>5, <1>6, <1>7, DoomStays, StoreStays, WorkerKeeps
<1>9. Own'
  <2>1. /\ flusher # Idle => ~Elsewhere(flusher, flusher.path)'
        /\ compactor # Idle => ~Elsewhere(compactor, compactor.path)'
    BY <1>1 DEF CInv, Own, Elsewhere, InSlots, InPages, InSaves
  <2>. QED
    BY <1>1, <1>4, <2>1 DEF CInv, Own
<1>10. Modes'
  <2>1. Turns'
    BY <1>1, <1>3, <1>4 DEF Turns, Indexing
  <2>2. LimboAt'
    <3>1. CASE limbo' = limbo
      BY <1>1, <1>7, <3>1, WorkersStay
    <3>2. CASE limbo' # limbo
      BY <1>1, <1>4, <3>2 DEF CInv, Modes, LimboAt, Written
    <3>. QED
      BY <3>1, <3>2
  <2>. QED
    BY <1>1, <1>7, <1>8, <2>1, <2>2, WorkersStay DEF Modes
<1>11. Indexed'
  <2>1. CASE limbo' = limbo
    BY <1>1, <1>3, <2>1, IndexedStays DEF Indexed
  <2>2. CASE limbo' # limbo
    <3>1. Paged(limbo.stream, limbo.refs)'
      BY <1>1, <1>4, <2>2 DEF CInv, Indexed, Paged, Entry
    <3>. QED
      BY <1>1, <1>3, <1>4, <2>2, <3>1 DEF Indexed
  <2>. QED
    BY <2>1, <2>2
<1>12. \A t \in Live : Views(slot[t].gen)' = Views(slot[t].gen)
  BY <1>1 DEF Views, Saved
<1>13. Served'
  BY <1>1, <1>12, ServedStays
<1>14. Clear'
  BY <1>1, <1>3, <1>12, ClearStays
<1>. QED
  BY <1>8, <1>9, <1>10, <1>11, <1>13, <1>14 DEF CInv

(* An offload that is applied, when it is answered or after its answer was *)
(* lost.                                                                   *)
LEMMA OffloadApplied ==
    ASSUME IInv, IInv', CInv, NEW s \in Streams, NEW rs, Paged(s, rs),
           slot' = [slot EXCEPT ![s].external = @ \ rs],
           flusher.stage # "indexed", compactor.stage # "indexed", limbo.kind \in {"none", "offload"},
           offloader' = Idle, limbo' = NoCommand,
           UNCHANGED <<gc, lastGen, store, pages, lastPath>>,
           UNCHANGED <<flusher, compactor, collector, orphans>>
    PROVE  CInv'
<1>1. /\ Others(s) /\ slot'[s].live = slot[s].live /\ slot'[s].gen = slot[s].gen
      /\ slot'[s].tail = slot[s].tail /\ slot'[s].retained = slot[s].retained
      /\ slot'[s].hot = slot[s].hot
      /\ slot'[s].chunks = slot[s].chunks /\ slot'[s].external = slot[s].external \ rs
  BY RefsShape
<1>2. ASSUME NEW t \in Streams
      PROVE  /\ slot'[t].live <=> slot[t].live
             /\ slot'[t].gen = slot[t].gen
             /\ slot'[t].tail = slot[t].tail /\ slot'[t].retained = slot[t].retained
             /\ slot'[t].hot = slot[t].hot /\ slot'[t].chunks = slot[t].chunks
             /\ slot'[t].external \subseteq slot[t].external
             /\ t # s => slot'[t].external = slot[t].external
  BY <1>1 DEF Others
<1>3. limbo'.kind = "none"
  BY DEF NoCommand
<1>4. lastPath <= lastPath' /\ lastGen <= lastGen'
  BY DEF IInv, CountersOK
<1>5. Claims' \subseteq Claims
  <2>1. \A t \in Streams : \A r \in slot'[t].chunks : OfRef("slice", slot'[t].gen, r) \in Claims
    BY <1>2, ClaimIs
  <2>2. \A t \in Streams : \A r \in slot'[t].external : OfRef("external", slot'[t].gen, r) \in Claims
    BY <1>2, ClaimIs
  <2>3. compactor # Idle =>
          OfRun(slot'[compactor.stream].gen, compactor.run, compactor.path) \in Claims
    BY <1>2, ClaimIs, CompactorTyped
  <2>. QED
    BY <1>3, <2>1, <2>2, <2>3, ClaimIs, ClaimsFrom
<1>6. Continues
  <2>1. \A t \in Streams : slot[t].retained \in Nat /\ slot[t].tail \in Nat
    BY SlotTyped
  <2>. QED
    BY <1>2, <2>1 DEF Continues
<1>7. Core'
  <2>1. TodoDead'
    BY <1>4, <1>6, TodoStays DEF CInv, Core, Todo
  <2>2. DoomKeeps
    BY <1>3, DoomStays
  <2>. QED
    BY <1>4, <1>5, <1>6, <2>1, <2>2, StoreStays, CoreKeeps DEF CInv
<1>8. Laid'
  BY <1>2 DEF CInv, Laid
<1>9. Own'
  <2>1. Narrows
    BY <1>2 DEF Narrows
  <2>. QED
    BY <1>3, <2>1, OwnNarrows
<1>10. Modes'
  <2>1. Turns'
    BY <1>3 DEF Turns, Indexing, Idle
  <2>2. Untrimmed'
    BY <1>2 DEF CInv, Modes, Untrimmed
  <2>3. CompactorAt'
    <3>1. SUFFICES ASSUME compactor # Idle PROVE CompactorAt'
      BY DEF CompactorAt
    <3>2. Contiguous(compactor.run)'
      BY <3>1 DEF CInv, Modes, CompactorAt, Contiguous, Covered, First, Beyond, Span
    <3>. QED
      BY <1>2, <3>1, <3>2, CompactorTyped DEF CInv, Modes, CompactorAt, CompactDuty
  <2>. QED
    BY <1>4, <2>1, <2>2, <2>3, WorkersStay DEF Modes
<1>11. Indexed'
  BY <1>3 DEF Indexed
<1>12. ASSUME NEW e, NEW t \in Streams PROVE Robust(e, slot'[t]) <=> Robust(e, slot[t])
  BY <1>2 DEF Robust
<1>13. Live' = Live /\ \A t \in Live : t \in Streams /\ slot'[t].gen = slot[t].gen
  BY <1>2 DEF Live
<1>14. \A t \in Live : \A P : P \in Views(slot[t].gen)' <=> P \in Views(slot[t].gen)
  BY <1>13 DEF Views, Saved
<1>15. \A t \in Live : Views(slot[t].gen) = {pages[slot[t].gen]}
  BY DEF Views, Saved
<1>16. Served'
  <2>1. SUFFICES ASSUME NEW t \in Live, NEW P \in Views(slot[t].gen) PROVE Covers(P, slot'[t])
    BY <1>13, <1>14 DEF Served, Views, Saved
  <2>2. Covers(P, slot[t]) /\ P = pages[slot[t].gen]
    BY <1>15, <2>1 DEF CInv, Served
  <2>3. SUFFICES ASSUME NEW o \in slot'[t].retained .. slot'[t].tail - 1
                 PROVE  \/ o \in slot'[t].hot
                        \/ \E r \in slot'[t].chunks \cup slot'[t].external : o \in Span(r)
                        \/ \E e \in P : o \in Span(e) /\ Robust(e, slot'[t])
    BY DEF Covers
  <2>4. \/ o \in slot[t].hot
        \/ \E r \in slot[t].chunks \cup slot[t].external : o \in Span(r)
        \/ \E e \in P : o \in Span(e) /\ Robust(e, slot[t])
    BY <1>2, <1>13, <2>2, <2>3 DEF Covers
  <2>5. CASE o \in slot[t].hot
    BY <1>2, <1>13, <2>5
  <2>6. CASE \E e \in P : o \in Span(e) /\ Robust(e, slot[t])
    BY <1>12, <1>13, <2>6
  <2>7. CASE \E r \in slot[t].chunks \cup slot[t].external : o \in Span(r)
    <3>1. PICK r \in slot[t].chunks \cup slot[t].external : o \in Span(r)
      BY <2>7
    <3>2. CASE r \in slot'[t].chunks \cup slot'[t].external
      BY <3>1, <3>2
    <3>3. CASE r \notin slot'[t].chunks \cup slot'[t].external
      <4>1. t = s /\ r \in slot[s].external \cap rs
        BY <1>1, <1>2, <1>13, <3>1, <3>3
      <4>2. Entry(r, TRUE) \in P
        BY <2>2, <4>1 DEF Paged
      <4>3. Span(Entry(r, TRUE)) = Span(r)
        BY DEF Entry, Span
      <4>4. Robust(Entry(r, TRUE), slot[s])
        <5>1. OfRef("external", slot[s].gen, r) \in Claims
          BY <4>1, ClaimIs
        <5>2. Span(OfRef("external", slot[s].gen, r)) \cap slot[s].hot = {}
          BY <2>1, <4>1, <5>1, ClaimFields DEF CInv, Core, InPlace
        <5>3. Span(OfRef("external", slot[s].gen, r)) = Span(r)
          BY ClaimFields DEF Span
        <5>4. ASSUME NEW q \in slot[s].chunks, Overlap(Entry(r, TRUE), q) PROVE FALSE
          <6>1. OfRef("slice", slot[s].gen, q) \in Claims
            BY <5>4, ClaimIs
          <6>2. /\ OfRef("slice", slot[s].gen, q).gen = slot[s].gen
                /\ OfRef("slice", slot[s].gen, q).kind = "slice"
                /\ Overlap(r, OfRef("slice", slot[s].gen, q))
            BY <5>4 DEF Overlap, Entry, OfRef, Claim
          <6>. QED
            BY <4>1, <6>1, <6>2, ExternalIs
        <5>. QED
          BY <4>3, <5>2, <5>3, <5>4 DEF Robust
      <4>. QED
        BY <1>12, <3>1, <4>1, <4>2, <4>3, <4>4
    <3>. QED
      BY <3>2, <3>3
  <2>. QED
    BY <2>4, <2>5, <2>6, <2>7
<1>17. Clear'
  <2>1. SUFFICES ASSUME NEW t \in Live, NEW P \in Views(slot[t].gen), NEW e \in P
                 PROVE  \/ e.external \/ Robust(e, slot'[t])
                        \/ e.path \in orphans' /\ "raw" \notin Duties
    BY <1>13, <1>14 DEF Clear, Views, Saved
  <2>2. e \in UNION Views(slot[t].gen)
    BY <2>1
  <2>. QED
    BY <1>12, <1>13, <2>2 DEF CInv, Clear
<1>. QED
  BY <1>7, <1>8, <1>9, <1>10, <1>11, <1>16, <1>17 DEF CInv

LEMMA OffloadSafe ==
    ASSUME Limits, IInv, IInv', CInv,
           \/ \E s \in Streams : IndexOffload(s)
           \/ PublishOffload \/ RefuseOffload \/ LoseOffload
           \/ (CommitLimbo /\ limbo.kind = "offload")
    PROVE  CInv'
<1>1. CASE PublishOffload
  <2>1. /\ offloader # Idle /\ limbo = NoCommand /\ offloader' = Idle
        /\ slot' = [slot EXCEPT ![offloader.stream].external = @ \ offloader.refs]
        /\ UNCHANGED <<gc, lastGen, store, pages, lastPath>>
        /\ UNCHANGED <<flusher, compactor, collector, limbo, orphans>>
    BY <1>1 DEF PublishOffload, outcome, Settled
  <2>2. offloader.stream \in Streams
    BY <2>1 DEF IInv, OffloaderOK, Offload
  <2>3. Paged(offloader.stream, offloader.refs) /\ flusher.stage # "indexed" /\ compactor.stage # "indexed"
    BY <2>1, TurnAlone DEF CInv, Indexed
  <2>4. limbo.kind = "none" /\ limbo' = NoCommand
    BY <2>1 DEF NoCommand
  <2>. QED
    BY <2>1, <2>2, <2>3, <2>4, OffloadApplied
<1>2. CASE CommitLimbo /\ limbo.kind = "offload"
  <2>1. /\ limbo' = NoCommand
        /\ slot' = [slot EXCEPT ![limbo.stream].external = @ \ limbo.refs]
        /\ UNCHANGED <<gc, lastGen, store, pages, lastPath>>
        /\ UNCHANGED <<flusher, compactor, offloader, collector, orphans>>
    BY <1>2 DEF CommitLimbo, ApplyLimbo, workers
  <2>2. limbo.stream \in Streams
    BY <1>2 DEF IInv, LimboOK, LostCommand, NoCommand
  <2>3. /\ Paged(limbo.stream, limbo.refs) /\ flusher.stage # "indexed" /\ compactor.stage # "indexed"
        /\ offloader = Idle
    BY <1>2, TurnAlone DEF CInv, Indexed
  <2>. QED
    BY <1>2, <2>1, <2>2, <2>3, OffloadApplied
<1>. QED
  BY <1>1, <1>2, IndexOffloadSafe, EndOffload

---------------------------------------------------------------------------
(* Every step, and what follows.                                           *)

LEMMA CommitSafe ==
    ASSUME Limits, IInv, IInv', CInv, CommitLimbo \/ DiscardLimbo
    PROVE  CInv'
<1>1. CommitLimbo => limbo.kind \in {"flush", "compact", "offload", "ack", "defer"}
  BY DEF CommitLimbo, IInv, LimboOK, LostCommand
<1>. QED
  BY <1>1, CommitFlushSafe, CommitRawSafe, OffloadSafe, QueueLimboSafe

LEMMA NextSafe ==
    ASSUME Limits, IInv, CInv, [Next]_vars
    PROVE  CInv'
<1>0. IInv'
  BY NextInv
<1>1. CASE Next
  <2>1. CASE \E s \in Streams : \/ Create(s) \/ AppendInline(s) \/ AppendExternal(s) \/ Delete(s)
                                \/ \E o \in 1 .. MaxRetain : \/ PublishSnapshot(s, o)
                                                             \/ AdvanceRetention(s, o)
    BY <1>0, <2>1, CreateSafe, AppendInlineSafe, AppendExternalSafe, DeleteSafe, SnapshotSafe,
       RetentionSafe
  <2>7. CASE \E s \in Streams : StrandExternal(s)
    BY <1>0, <2>7, StrandExternalSafe
  <2>2. CASE PlanExclusive \/ PlanPack \/ IndexFlush \/ PublishFlush \/ RefuseFlush \/ LoseFlush
             \/ AbandonFlush
    BY <1>0, <2>2, PlansSafe, FlushSafe
  <2>3. CASE PlanShared \/ PlanRaw \/ IndexCompaction \/ PublishCompaction
             \/ RefuseCompaction \/ LoseCompaction \/ AbandonCompaction
    BY <1>0, <2>3, CompactionSafe
  <2>4. CASE (\E s \in Streams : IndexOffload(s)) \/ PublishOffload \/ RefuseOffload \/ LoseOffload
    BY <1>0, <2>4, OffloadSafe
  <2>5. CASE PlanGc \/ ReclaimPaths \/ ReclaimObjects \/ ReclaimPages \/ FailEntry
             \/ AckGc \/ LoseAck \/ AbandonGc
    BY <1>0, <2>5, PlanGcSafe, ReclaimSafe, FailEntrySafe, EndGcSafe
  <2>6. CASE CommitLimbo \/ DiscardLimbo
    BY <1>0, <2>6, CommitSafe
  <2>. QED
    BY <1>1, <2>1, <2>2, <2>3, <2>4, <2>5, <2>6, <2>7 DEF Next
<1>2. CASE UNCHANGED vars
  <2>1. /\ UNCHANGED <<slot, refs, gc, lastGen, store, pages, lastPath>>
        /\ UNCHANGED <<flusher, compactor, offloader, collector, limbo, orphans>>
    BY <1>2 DEF vars, replicated, workers, outcome
  <2>2. GcQuiet /\ Todo' \subseteq Todo
    BY <2>1 DEF GcQuiet, Todo
  <2>. QED
    BY <1>0, <2>1, <2>2, StoreStays, SameQueue, PassKeeps
<1>. QED
  BY <1>1, <1>2

LEMMA InitSafe == Init => CInv
<1>1. SUFFICES ASSUME Init PROVE CInv
  OBVIOUS
<1>2. /\ slot = [s \in Streams |-> Vacant] /\ pages = [g \in 0 .. MaxGen |-> {}]
      /\ flusher = Idle /\ compactor = Idle /\ offloader = Idle /\ collector = Idle
      /\ limbo = NoCommand
  BY <1>1 DEF Init
<1>3. /\ \A s \in Streams : /\ slot[s].live = FALSE /\ slot[s].hot = {} /\ slot[s].chunks = {}
                            /\ slot[s].external = {} /\ slot[s].retained = 0
      /\ flusher.stage # "indexed" /\ compactor.stage # "indexed" /\ offloader.stage # "indexed"
      /\ limbo.kind = "none"
  BY <1>2 DEF Vacant, Idle, NoCommand
<1>4. Live = {}
  BY <1>3 DEF Live
<1>5. Claims = {}
  <2>1. SlotClaims = {}
    BY <1>3 DEF SlotClaims, OfSlot
  <2>2. \A g \in 0 .. MaxGen : UNION Views(g) = {}
    BY <1>2, <1>3, ViewsAre
  <2>3. PageClaims = {}
    BY <2>2 DEF PageClaims
  <2>4. FlusherClaims = {} /\ CompactorClaims = {} /\ LimboClaims = {}
    BY <1>2, <1>3 DEF FlusherClaims, CompactorClaims, LimboClaims
  <2>. QED
    BY <2>1, <2>3, <2>4 DEF Claims
<1>6. Todo = {}
  BY <1>2 DEF Todo
<1>7. Core
  BY <1>4, <1>5, <1>6 DEF Core, OnePurpose, ExternalApart, HandedOut, InPlace, Housed, WantedHeld, TodoDead
<1>8. Laid /\ Own /\ Modes
  BY <1>2, <1>3 DEF Laid, Own, Modes, Turns, Indexing, FlusherAt, CompactorAt, LimboAt, Untrimmed
<1>9. Indexed /\ Served /\ Clear
  BY <1>2, <1>3, <1>4 DEF Indexed, Served, Clear
<1>. QED
  BY <1>7, <1>8, <1>9 DEF CInv

(* What a live stream names at or above its retention is there and stays. *)
LEMMA NamedHeld ==
    ASSUME IInv, CInv, NEW s \in Live,
           NEW r \in slot[s].chunks \cup slot[s].external \cup pages[slot[s].gen],
           r.end > slot[s].retained
    PROVE  BytesOf(slot[s].gen, r) \subseteq store[r.path].bytes /\ r.path \notin Doomed
<1>1. s \in Streams /\ slot[s].gen \in 0 .. MaxGen
  BY LiveTyped
<1>2. PICK c \in Claims : c.gen = slot[s].gen /\ c.start = r.start /\ c.end = r.end /\ c.path = r.path
  <2>1. CASE r \in slot[s].chunks
    BY <1>1, <2>1, ClaimIs, ClaimFields
  <2>2. CASE r \in slot[s].external
    BY <1>1, <2>2, ClaimIs, ClaimFields
  <2>3. CASE r \in pages[slot[s].gen]
    BY <1>1, <2>3, ClaimIs, ClaimFields
  <2>. QED
    BY <2>1, <2>2, <2>3
<1>3. Held(c)
  BY <1>2 DEF CInv, Core, WantedHeld
<1>. QED
  BY <1>2, <1>3 DEF Held, BytesOf, Span

LEMMA ByteHeld ==
    ASSUME IInv, CInv, NEW s \in Live,
           NEW r \in slot[s].chunks \cup slot[s].external \cup pages[slot[s].gen],
           NEW o \in Span(r), o >= slot[s].retained
    PROVE  <<slot[s].gen, o>> \in store[r.path].bytes
<1>1. s \in Streams /\ slot[s].gen \in 0 .. MaxGen /\ slot[s].retained \in Nat
  BY LiveTyped, SlotTyped
<1>2. Ranged(r)
  BY <1>1, SlotTyped, PageTyped, EntryRanged
<1>3. r.end > slot[s].retained
  BY <1>1, <1>2 DEF Span, Ranged
<1>. QED
  BY <1>3, NamedHeld DEF BytesOf

LEMMA SafeReadable ==
    ASSUME IInv, CInv
    PROVE  RetainedReadable
<1>1. SUFFICES ASSUME NEW s \in Live, NEW o \in slot[s].retained .. slot[s].tail - 1, o \notin slot[s].hot
               PROVE  /\ ReadRefs(s, o) # {}
                      /\ \A r \in ReadRefs(s, o) : <<slot[s].gen, o>> \in store[r.path].bytes
  BY DEF RetainedReadable
<1>2. /\ s \in Streams /\ slot[s].gen \in 0 .. MaxGen /\ slot[s].retained \in Nat /\ slot[s].tail \in Nat
  BY LiveTyped, SlotTyped
<1>3. o >= slot[s].retained
  BY <1>1, <1>2
<1>4. ASSUME NEW r \in ReadRefs(s, o) PROVE <<slot[s].gen, o>> \in store[r.path].bytes
  <2>1. r \in slot[s].chunks \cup slot[s].external \cup pages[slot[s].gen] /\ o \in Span(r)
    BY <1>4 DEF ReadRefs, DirectRefs, PageRefs
  <2>. QED
    BY <1>3, <2>1, ByteHeld
<1>5. ReadRefs(s, o) # {}
  <2>1. CASE DirectRefs(s, o) # {}
    BY <2>1 DEF ReadRefs
  <2>2. CASE DirectRefs(s, o) = {}
    <3>1. Covers(pages[slot[s].gen], slot[s])
      BY ViewsNow DEF CInv, Served
    <3>2. PICK e \in pages[slot[s].gen] : o \in Span(e)
      BY <1>1, <2>2, <3>1 DEF Covers, DirectRefs
    <3>3. ASSUME e.external, NEW f \in pages[slot[s].gen], ~f.external, Overlap(e, f) PROVE FALSE
      <4>1. OfEntry(slot[s].gen, e) \in Claims /\ OfEntry(slot[s].gen, f) \in Claims
        BY <1>2, <3>2, <3>3, ClaimIs
      <4>2. /\ OfEntry(slot[s].gen, e).kind = "external" /\ OfEntry(slot[s].gen, f).kind = "chunk"
            /\ OfEntry(slot[s].gen, e).gen = OfEntry(slot[s].gen, f).gen
            /\ Overlap(OfEntry(slot[s].gen, e), OfEntry(slot[s].gen, f))
        BY <3>3, ClaimFields DEF Overlap
      <4>. QED
        BY <4>1, <4>2 DEF CInv, Core, ExternalApart
    <3>4. e \in PageRefs(s, o)
      BY <3>2, <3>3 DEF PageRefs
    <3>. QED
      BY <2>2, <3>4 DEF ReadRefs
  <2>. QED
    BY <2>1, <2>2
<1>. QED
  BY <1>4, <1>5

LEMMA SafeQueue ==
    ASSUME IInv, CInv
    PROVE  QueuedUnreferenced
<1>1. SUFFICES ASSUME NEW e \in Entries(gc)
               PROVE  /\ \A s \in Live : e.paths \cap Named(s) = {}
                      /\ e.gen # 0 => ~LiveGen(e.gen)
  BY DEF QueuedUnreferenced
<1>2. ASSUME NEW s \in Live, NEW p \in Named(s), p \in e.paths PROVE FALSE
  <2>1. s \in Streams
    BY LiveTyped
  <2>2. PICK r \in slot[s].chunks \cup slot[s].external \cup pages[slot[s].gen] :
          r.path = p /\ r.end > slot[s].retained
    BY <1>2, <2>1 DEF Named, PathsOf, CInv, Laid
  <2>3. p \in Doomed
    BY <1>1, <1>2, DoomedIs
  <2>. QED
    BY <2>2, <2>3, NamedHeld
<1>3. e.gen # 0 => ~LiveGen(e.gen)
  BY DEF IInv, QueueOK
<1>. QED
  BY <1>2, <1>3

LEMMA SafePages ==
    ASSUME IInv, CInv
    PROVE  IncarnationPages
BY ByteHeld DEF IncarnationPages

(* Every retained byte of a live stream is hot or is read from an object   *)
(* that holds it, at every step of the flush, compaction, offload and GC   *)
(* workers, whatever is refused, lost or committed late (flush_cold,       *)
(* compact_cold, offload_cold_refs, read_plan_at), within Limits.          *)
THEOREM RetainedAlwaysReadable ==
    ASSUME Limits
    PROVE  Spec => []RetainedReadable
<1>1. IInv /\ CInv /\ [Next]_vars => CInv'
  BY NextSafe
<1>2. IInv /\ CInv => RetainedReadable
  BY SafeReadable
<1>. QED
  BY <1>1, <1>2, InitSafe, Inductive, PTL DEF Spec

(* The GC queue never holds a path that a live stream names, nor a live    *)
(* incarnation, so the worker may delete what an entry names whenever it   *)
(* gets there (release_shared_cold_objects, enqueue_after,                 *)
(* run_cold_gc_group_once), within Limits.                                 *)
THEOREM QueuedNeverReferenced ==
    ASSUME Limits
    PROVE  Spec => []QueuedUnreferenced
<1>1. IInv /\ CInv /\ [Next]_vars => CInv'
  BY NextSafe
<1>2. IInv /\ CInv => QueuedUnreferenced
  BY SafeQueue
<1>. QED
  BY <1>1, <1>2, InitSafe, Inductive, PTL DEF Spec

(* Every page entry of a live stream at or above its retention names an    *)
(* object with those bytes of that incarnation, through rollbacks of the   *)
(* pages and recreated streams (write_cold_index_page,                     *)
(* rollback_cold_index_pages), within Limits.                              *)
THEOREM PagesOfIncarnation ==
    ASSUME Limits
    PROVE  Spec => []IncarnationPages
<1>1. IInv /\ CInv /\ [Next]_vars => CInv'
  BY NextSafe
<1>2. IInv /\ CInv => IncarnationPages
  BY SafePages
<1>. QED
  BY <1>1, <1>2, InitSafe, Inductive, PTL DEF Spec

---------------------------------------------------------------------------
(* Nothing is forgotten.                                                   *)

Queued(g) == \E e \in Entries(gc) : e.gen = g
Indexes(g, p) == \E e \in pages[g] : e.path = p

(* What NoLeak says of an object, with the run of a compaction of chunks   *)
(* only while no page names it.                                            *)
Kept(p) ==
    \/ flusher # Idle /\ flusher.path = p
    \/ compactor # Idle /\ compactor.path = p
    \/ compactor.stage = "indexed" /\ ~compactor.shared /\ p \in PathsOf(compactor.run)
    \/ p \in orphans
    \/ InSlots(p)
    \/ \E e \in Entries(gc) : p \in e.paths
    \/ \E g \in 1 .. MaxGen : (LiveGen(g) \/ Queued(g)) /\ Indexes(g, p)
AllKept == \A p \in Paths : Stored(p) => Kept(p)

(* A rollback forgets the worker's own entry only, and brings no external  *)
(* payload back.                                                           *)
RollsBack ==
    /\ flusher.stage = "indexed" /\ FlushEntry \in pages[flusher.gen] =>
         /\ pages[flusher.gen] \subseteq flusher.saved \cup {FlushEntry}
         /\ \A e \in flusher.saved : e.external => e \in pages[flusher.gen]
    /\ compactor.stage = "indexed" => pages[compactor.gen] \subseteq compactor.saved \cup {Replacement}

(* The objects of an incarnation are gone when its pages go. *)
Emptied ==
    collector.stage = "pages" => \A p \in IncarnationObjects(collector.todo[1].gen) : ~Stored(p)

KInv == AllKept /\ RollsBack /\ Emptied

(* How a step may change the store, and the pages of the dead. *)
StoreMoves ==
    \A p \in Paths :
      \/ store'[p] = store[p] \/ store'[p] = NoObject
      \/ p = lastPath + 1 /\ Kept(p)' /\ (store'[p].dir = 0 \/ LiveGen(store'[p].dir))

ExternalsStay ==
    \A g \in 1 .. MaxGen : ~LiveGen(g) => \A e \in pages'[g] : e.external => e \in pages[g]

(* Whatever named the object names it still, or something else does. *)
Carried(p) ==
    /\ flusher # Idle /\ flusher.path = p => Kept(p)'
    /\ compactor # Idle /\ compactor.path = p => Kept(p)'
    /\ compactor.stage = "indexed" /\ ~compactor.shared /\ p \in PathsOf(compactor.run) => Kept(p)'
    /\ InSlots(p) => Kept(p)'
    /\ \A g \in 1 .. MaxGen :
         Indexes(g, p) => Kept(p)' \/ (Indexes(g, p)' /\ (LiveGen(g) => LiveGen(g)'))

LEMMA KeptNext ==
    ASSUME IInv, IInv', AllKept, OnlyGoneLeave, orphans \subseteq orphans', StoreMoves,
           \A p \in Paths : store'[p] # NoObject => Carried(p)
    PROVE  AllKept'
<1>1. SUFFICES ASSUME NEW p \in Paths, store'[p] # NoObject PROVE Kept(p)'
  BY DEF AllKept, Stored
<1>2. CASE store'[p] = store[p]
  <2>0. Kept(p) /\ Carried(p)
    BY <1>1, <1>2 DEF AllKept, Stored
  <2>1. CASE p \in orphans
    BY <2>1 DEF Kept
  <2>2. CASE \E e \in Entries(gc) : p \in e.paths
    <3>1. PICK e \in Entries(gc) : p \in e.paths
      BY <2>2
    <3>2. PICK f \in Entries(gc') : SameTarget(e, f)
      BY <1>1, <3>1 DEF OnlyGoneLeave
    <3>3. p \in f.paths
      BY <3>1, <3>2 DEF SameTarget
    <3>. QED
      BY <3>2, <3>3 DEF Kept
  <2>3. CASE \E g \in 1 .. MaxGen : (LiveGen(g) \/ Queued(g)) /\ Indexes(g, p)
    <3>1. PICK g \in 1 .. MaxGen : (LiveGen(g) \/ Queued(g)) /\ Indexes(g, p)
      BY <2>3
    <3>2. SUFFICES ASSUME Indexes(g, p)', LiveGen(g) => LiveGen(g)' PROVE Kept(p)'
      BY <2>0, <3>1 DEF Carried
    <3>3. CASE LiveGen(g)
      BY <3>2, <3>3 DEF Kept
    <3>4. CASE Queued(g)
      <4>1. PICK e \in Entries(gc) : e.gen = g
        BY <3>4 DEF Queued
      <4>2. pages'[g] # {} /\ e.gen # 0
        BY <3>2, <4>1 DEF Indexes
      <4>3. PICK f \in Entries(gc') : SameTarget(e, f)
        BY <4>1, <4>2 DEF OnlyGoneLeave
      <4>4. Queued(g)'
        BY <4>1, <4>3 DEF SameTarget, Queued
      <4>. QED
        BY <3>2, <4>4 DEF Kept
    <3>. QED
      BY <3>1, <3>3, <3>4
  <2>. QED
    BY <2>0, <2>1, <2>2, <2>3 DEF Kept, Carried
<1>. QED
  BY <1>1, <1>2 DEF StoreMoves

LEMMA PagesStageIs ==
    ASSUME IInv, CInv, collector.stage = "pages"
    PROVE  LET g == collector.todo[1].gen IN
           g \in 1 .. MaxGen /\ g \in 0 .. lastGen /\ ~LiveGen(g)
<1>1. collector # Idle
  BY DEF Idle
<1>2. collector.todo # <<>> /\ collector.todo[1].gen # 0
  BY <1>1 DEF IInv, CollectorOK
<1>3. collector.todo \in Seq(GcEntry) /\ Len(collector.todo) \in Nat
  BY <1>1, CollectorTyped
<1>4. 1 \in 1 .. Len(collector.todo)
  BY <1>2, <1>3
<1>5. collector.todo[1].gen \in 0 .. MaxGen
  BY <1>1, <1>4, CollectorTyped
<1>6. collector.todo[1] \in Todo
  BY <1>1, <1>4 DEF Todo
<1>7. collector.todo[1].gen \in 0 .. lastGen /\ ~LiveGen(collector.todo[1].gen)
  BY <1>6 DEF CInv, Core, TodoDead
<1>. QED
  BY <1>2, <1>5, <1>7

LEMMA EmptiedNext ==
    ASSUME IInv, CInv, Emptied, StoreMoves, ExternalsStay,
           collector'.stage = "pages" => collector' = collector
    PROVE  Emptied'
<1>1. SUFFICES ASSUME collector'.stage = "pages", collector' = collector,
                      NEW g, g = collector.todo[1].gen,
                      NEW p \in Paths \cup PathsOf(pages'[g]),
                      store'[p] # NoObject,
                      \/ \E e \in pages'[g] : e.external /\ e.path = p
                      \/ p \in Paths /\ store'[p].dir = g
               PROVE  FALSE
  BY DEF Emptied, IncarnationObjects, PathsOf, Stored
<1>2. collector.stage = "pages" /\ g \in 1 .. MaxGen /\ ~LiveGen(g)
  BY <1>1, PagesStageIs
<1>3. \A q \in IncarnationObjects(g) : ~Stored(q)
  BY <1>1, <1>2 DEF Emptied
<1>4. CASE \E e \in pages'[g] : e.external /\ e.path = p
  <2>1. PICK e \in pages'[g] : e.external /\ e.path = p
    BY <1>4
  <2>2. e \in pages[g]
    BY <1>2, <2>1 DEF ExternalsStay
  <2>3. ~Stored(p)
    BY <1>3, <2>1, <2>2 DEF IncarnationObjects, PathsOf
  <2>4. p \in Paths /\ p <= lastPath
    BY <1>2, <2>1, <2>2, PageTyped, EntryRanged DEF IInv, ObjectsOK, Written
  <2>5. lastPath \in Nat
    BY DEF IInv, CountersOK
  <2>. QED
    BY <1>1, <2>3, <2>4, <2>5 DEF StoreMoves, Stored, Paths
<1>5. CASE p \in Paths /\ store'[p].dir = g
  <2>1. store'[p] = store[p]
    BY <1>1, <1>2, <1>5 DEF StoreMoves
  <2>2. p \in IncarnationObjects(g)
    BY <1>5, <2>1 DEF IncarnationObjects
  <2>. QED
    BY <1>1, <1>3, <2>1, <2>2 DEF Stored
<1>. QED
  BY <1>1, <1>4, <1>5

LEMMA RollsBackNext ==
    ASSUME IInv, RollsBack,
           \A g \in 0 .. MaxGen : pages'[g] = pages[g] \/ pages'[g] = {},
           flusher'.stage = "indexed" => flusher' = flusher,
           compactor'.stage = "indexed" => compactor' = compactor
    PROVE  RollsBack'
<1>1. ASSUME flusher'.stage = "indexed", FlushEntry' \in pages'[flusher'.gen]
      PROVE  /\ pages'[flusher'.gen] \subseteq flusher'.saved \cup {FlushEntry'}
             /\ \A e \in flusher'.saved : e.external => e \in pages'[flusher'.gen]
  <2>1. flusher' = flusher /\ flusher # Idle /\ FlushEntry' = FlushEntry
    BY <1>1 DEF FlushEntry, Idle
  <2>2. flusher.gen \in 0 .. MaxGen
    BY <2>1, FlusherTyped
  <2>3. pages'[flusher.gen] = pages[flusher.gen] \/ pages'[flusher.gen] = {}
    BY <2>2
  <2>. QED
    BY <1>1, <2>1, <2>3 DEF RollsBack
<1>2. ASSUME compactor'.stage = "indexed"
      PROVE  pages'[compactor'.gen] \subseteq compactor'.saved \cup {Replacement'}
  <2>1. compactor' = compactor /\ compactor # Idle /\ Replacement' = Replacement
    BY <1>2 DEF Replacement, Idle
  <2>2. compactor.gen \in 0 .. MaxGen
    BY <2>1, CompactorTyped
  <2>3. pages'[compactor.gen] = pages[compactor.gen] \/ pages'[compactor.gen] = {}
    BY <2>2
  <2>. QED
    BY <1>2, <2>1, <2>3 DEF RollsBack
<1>. QED
  BY <1>1, <1>2 DEF RollsBack

LEMMA SetToSeqAll ==
    ASSUME NEW S, IsFiniteSet(S), NEW p \in S
    PROVE  \E i \in 1 .. Len(SetToSeq(S)) : SetToSeq(S)[i] = p
<1> DEFINE n == Cardinality(S)
           f == SetToSeq(S)
<1>1. n \in Nat /\ ExistsBijection(1 .. n, S)
  BY FS_CardinalityType
<1>2. PICK b \in Bijection(1 .. n, S) : TRUE
  BY <1>1 DEF ExistsBijection
<1>3. b \in [1 .. n -> S] /\ IsInjective(b)
  BY <1>2 DEF Bijection, Injection
<1>4. f \in [1 .. n -> S] /\ IsInjective(f)
  BY <1>3 DEF SetToSeq
<1> HIDE DEF f
<1>5. Len(f) = n
  BY <1>1, <1>4
<1>6. ASSUME \A i \in 1 .. n : f[i] # p PROVE FALSE
  <2>1. f \in [1 .. n -> S \ {p}]
    BY <1>4, <1>6
  <2>2. IsFiniteSet(S \ {p}) /\ Cardinality(S \ {p}) = n - 1
    BY FS_RemoveElement
  <2>3. IsFiniteSet(1 .. n) /\ Cardinality(1 .. n) = n
    BY <1>1, FS_Interval
  <2>4. \E x, y \in 1 .. n : x # y /\ f[x] = f[y]
    <3>1. Cardinality(S \ {p}) < Cardinality(1 .. n)
      BY <1>1, <2>2, <2>3
    <3>2. PICK T : T = S \ {p}
      OBVIOUS
    <3>3. PICK I : I = 1 .. n
      OBVIOUS
    <3>4. IsFiniteSet(I) /\ IsFiniteSet(T) /\ Cardinality(T) < Cardinality(I) /\ f \in [I -> T]
      BY <2>1, <2>2, <2>3, <3>1, <3>2, <3>3
    <3>5. \E x, y \in I : x # y /\ f[x] = f[y]
      BY ONLY <3>4, FS_PigeonHole
    <3>. QED
      BY <3>3, <3>5
  <2>. QED
    BY <1>4, <2>4 DEF IsInjective
<1>. QED
  BY <1>5, <1>6 DEF f

LEMMA EachQueued ==
    ASSUME NEW q \in Queue, NEW graced \in BOOLEAN, NEW order \in Seq(Paths), NEW i \in 1 .. Len(order)
    PROVE  \E e \in Entries(EnqueueEach(q, order, graced)) : order[i] \in e.paths
<1> DEFINE m == Len(order)
           n == Len(q.pending)
           new(k) == [seq |-> q.next + k - 1, gen |-> 0, paths |-> {order[k]}, graced |-> graced]
           N == [k \in 1 .. m |-> new(k)]
           r == EnqueueEach(q, order, graced)
<1>1. /\ q.pending \in Seq(GcEntry) /\ q.next \in Nat \ {0} /\ n \in Nat /\ m \in Nat
      /\ MaxGen \in Nat
  BY EntriesType, ColdConstants
<1>a. \A k \in 1 .. m : new(k) \in GcEntry
  BY <1>1 DEF GcEntry
<1>b. N \in Seq(GcEntry) /\ Len(N) = m /\ N[i] = new(i)
  BY <1>1, <1>a
<1>3. r.pending = q.pending \o N
  BY DEF EnqueueEach
<1> HIDE DEF N, r
<1>2. q.pending \in Seq(GcEntry) /\ N \in Seq(GcEntry)
  BY <1>1, <1>b
<1>4. /\ Len(q.pending \o N) = Len(q.pending) + Len(N)
      /\ \A k \in 1 .. Len(q.pending) + Len(N) : (q.pending \o N)[k] =
           IF k <= Len(q.pending) THEN q.pending[k] ELSE N[k - Len(q.pending)]
  BY ONLY <1>2, ConcatProperties
<1>5. /\ n + i \in 1 .. n + m /\ ~(n + i <= n) /\ (n + i) - n = i
  BY <1>1
<1>6. r.pending[n + i] = new(i) /\ n + i \in 1 .. Len(r.pending)
  BY <1>b, <1>3, <1>4, <1>5
<1>7. r.pending[n + i] \in Entries(r)
  BY <1>6 DEF Entries
<1>8. order[i] \in new(i).paths
  OBVIOUS
<1>. QED
  BY <1>6, <1>7, <1>8 DEF r

(* A pack released by its last slice is queued. *)
LEMMA ReleasedQueued ==
    ASSUME NEW q \in Queue, NEW ps \in SUBSET Paths, NEW graced \in BOOLEAN, NEW p \in ps,
           refs[p] = 1
    PROVE  \E e \in Entries(QueueReleased(q, ps, graced)) : p \in e.paths
<1> DEFINE last == {x \in ps : refs[x] = 1}
<1>1. IsFiniteSet(Paths)
  <2>1. 1 \in Int /\ MaxPath \in Int
    BY ColdConstants
  <2>2. IsFiniteSet(1 .. MaxPath)
    BY ONLY <2>1, FS_Interval
  <2>. QED
    BY <2>2 DEF Paths
<1>2. IsFiniteSet(last)
  BY <1>1, FS_Subset
<1>3. last \subseteq Paths /\ p \in last
  OBVIOUS
<1>4. QueueReleased(q, ps, graced) = EnqueueEach(q, SetToSeq(last), graced)
  BY DEF QueueReleased
<1> HIDE DEF last
<1>5. SetToSeq(last) \in Seq(last)
  BY <1>2, SetToSeqType
<1>6. SetToSeq(last) \in Seq(Paths)
  BY <1>3, <1>5
<1>7. PICK i \in 1 .. Len(SetToSeq(last)) : SetToSeq(last)[i] = p
  BY <1>2, <1>3, SetToSeqAll
<1>. QED
  BY <1>4, <1>6, <1>7, EachQueued

LEMMA UnlessQueued ==
    ASSUME NEW q \in Queue, Ordered(q), NEW ps \in SUBSET Paths, NEW graced \in BOOLEAN, NEW p \in ps
    PROVE  \E e \in Entries(QueueUnless(q, ps, graced)) : p \in e.paths
<1> DEFINE e == [seq |-> q.next, gen |-> 0, paths |-> ps, graced |-> graced]
<1>1. QueueUnless(q, ps, graced) = Push(q, 0, ps, graced)
  BY DEF QueueUnless, EnqueueAfter
<1>2. 0 \in 0 .. MaxGen
  BY ColdConstants
<1>3. e \in Entries(Push(q, 0, ps, graced))
  BY <1>2, PushOrdered
<1>4. p \in e.paths
  OBVIOUS
<1>. QED
  BY <1>1, <1>3, <1>4

(* The last slice of a pack leaves: its count is one. *)
LEMMA LastSlice ==
    ASSUME IInv, RInv, NEW s \in Streams, Others(s), NEW p \in PathsOf(slot[s].chunks), ~InSlots(p)'
    PROVE  refs[p] = 1
<1>1. p \in Paths
  BY RefPaths
<1>2. \A t \in Streams : t # s => p \notin PathsOf(slot[t].chunks)
  BY DEF Others, InSlots, PathsOf
<1>3. Slicers(p) = {s}
  BY <1>2 DEF Slicers
<1>4. Cardinality(Slicers(p)) = 1
  BY <1>3, FS_Singleton
<1>. QED
  BY <1>1, <1>4 DEF RInv, Counted

LEMMA SliceKept ==
    ASSUME IInv, RInv, NEW s \in Streams, Others(s), NEW rs \in SUBSET slot[s].chunks,
           NEW q \in Queue, NEW graced \in BOOLEAN,
           Entries(QueueReleased(q, PathsOf(rs), graced)) \subseteq Entries(gc'),
           NEW p \in PathsOf(rs)
    PROVE  Kept(p)'
<1>1. CASE InSlots(p)'
  BY <1>1 DEF Kept
<1>2. CASE ~InSlots(p)'
  <2>1. p \in PathsOf(slot[s].chunks) /\ PathsOf(rs) \in SUBSET Paths
    BY RefPaths DEF PathsOf
  <2>2. refs[p] = 1
    BY <1>2, <2>1, LastSlice
  <2>3. \E e \in Entries(QueueReleased(q, PathsOf(rs), graced)) : p \in e.paths
    BY <2>1, <2>2, ReleasedQueued
  <2>4. \E e \in Entries(gc') : p \in e.paths
    BY <2>3
  <2>. QED
    BY <2>4 DEF Kept
<1>. QED
  BY <1>1, <1>2

(* The steps that move neither pages nor the uploading workers. *)
LEMMA QuietKept ==
    ASSUME IInv, IInv', CInv, KInv, OnlyGoneLeave, UNCHANGED <<pages, flusher, compactor>>,
           orphans \subseteq orphans', StoreMoves,
           \A p \in Paths : store'[p] # NoObject /\ InSlots(p) => Kept(p)',
           \A g \in 1 .. MaxGen : LiveGen(g) => LiveGen(g)' \/ Queued(g)'
                                     \/ \A p \in Paths : store'[p] # NoObject /\ Indexes(g, p) => Kept(p)'
    PROVE  /\ AllKept' /\ RollsBack'
           /\ (collector'.stage = "pages" => collector' = collector) => KInv'
<1>1. ExternalsStay
  BY DEF ExternalsStay
<1>2. (collector'.stage = "pages" => collector' = collector) => Emptied'
  BY <1>1, EmptiedNext DEF KInv
<1>3. RollsBack'
  BY RollsBackNext DEF KInv
<1>4. ASSUME NEW p \in Paths, store'[p] # NoObject PROVE Carried(p)
  <2>1. flusher # Idle /\ flusher.path = p => Kept(p)'
    BY DEF Kept
  <2>2. compactor # Idle /\ compactor.path = p => Kept(p)'
    BY DEF Kept
  <2>3. compactor.stage = "indexed" /\ ~compactor.shared /\ p \in PathsOf(compactor.run) => Kept(p)'
    BY DEF Kept, PathsOf
  <2>4. ASSUME NEW g \in 1 .. MaxGen, Indexes(g, p)
        PROVE  Kept(p)' \/ (Indexes(g, p)' /\ (LiveGen(g) => LiveGen(g)'))
    <3>1. Indexes(g, p)'
      BY <2>4 DEF Indexes
    <3>2. CASE LiveGen(g) /\ ~LiveGen(g)'
      <4>1. CASE Queued(g)'
        BY <3>1, <4>1 DEF Kept
      <4>. QED
        BY <1>4, <2>4, <3>2, <4>1
    <3>. QED
      BY <3>1, <3>2
  <2>. QED
    BY <1>4, <2>1, <2>2, <2>3, <2>4 DEF Carried
<1>5. AllKept'
  BY <1>4, KeptNext DEF KInv
<1>. QED
  BY <1>2, <1>3, <1>5 DEF KInv

LEMMA LiveStays ==
    ASSUME NEW s \in Streams, Others(s),
           slot[s].live => slot'[s].live /\ slot'[s].gen = slot[s].gen
    PROVE  \A g : LiveGen(g) => LiveGen(g)'
BY DEF Others, LiveGen, Live

LEMMA SlotsStay ==
    ASSUME NEW s \in Streams, Others(s),
           slot[s].chunks \subseteq slot'[s].chunks, slot[s].external \subseteq slot'[s].external
    PROVE  \A p : InSlots(p) => InSlots(p)'
<1>1. ASSUME NEW p, NEW t \in Streams, NEW r \in slot[t].chunks \cup slot[t].external, r.path = p
      PROVE  InSlots(p)'
  <2>1. r \in slot'[t].chunks \cup slot'[t].external
    BY <1>1 DEF Others
  <2>. QED
    BY <1>1, <2>1 DEF InSlots
<1>. QED
  BY <1>1 DEF InSlots

LEMMA CommandsKept ==
    ASSUME IInv, IInv', CInv, KInv, OnlyGoneLeave, NEW s \in Streams,
           \/ Create(s) \/ AppendInline(s) \/ \E o \in 1 .. MaxRetain : PublishSnapshot(s, o)
    PROVE  KInv'
<1>1. /\ Others(s) /\ (slot[s].live => slot'[s].live /\ slot'[s].gen = slot[s].gen)
      /\ slot[s].chunks \subseteq slot'[s].chunks /\ slot[s].external \subseteq slot'[s].external
      /\ UNCHANGED <<store, pages, flusher, compactor, collector, orphans>>
  BY CreateShape, InlineShape, SnapshotShape DEF Vacant
<1>2. \A g : LiveGen(g) => LiveGen(g)'
  BY <1>1, LiveStays
<1>3. \A p : InSlots(p) => InSlots(p)'
  BY <1>1, SlotsStay
<1>4. StoreMoves
  BY <1>1 DEF StoreMoves
<1>5. \A p \in Paths : store'[p] # NoObject /\ InSlots(p) => Kept(p)'
  BY <1>3 DEF Kept
<1>. QED
  BY <1>1, <1>2, <1>4, <1>5, QuietKept

LEMMA AppendExternalKept ==
    ASSUME IInv, IInv', CInv, KInv, OnlyGoneLeave, NEW s \in Streams, AppendExternal(s)
    PROVE  KInv'
<1> DEFINE r == [start |-> slot[s].tail, end |-> slot[s].tail + 1, path |-> lastPath + 1]
<1>1. /\ Others(s) /\ slot[s].live /\ slot'[s].live /\ slot'[s].gen = slot[s].gen
      /\ slot'[s].chunks = slot[s].chunks /\ slot'[s].external = slot[s].external \cup {r}
      /\ lastPath < MaxPath
      /\ store' = [store EXCEPT ![lastPath + 1] = [dir |-> 0, bytes |-> BytesOf(slot[s].gen, r)]]
      /\ UNCHANGED <<pages, flusher, compactor, collector, orphans>>
  BY ExternalShape
<1>2. \A g : LiveGen(g) => LiveGen(g)'
  BY <1>1, LiveStays
<1>3. \A p : InSlots(p) => InSlots(p)'
  BY <1>1, SlotsStay
<1>4. StoreMoves
  <2>1. r \in slot'[s].chunks \cup slot'[s].external /\ r.path = lastPath + 1
    BY <1>1
  <2>2. PICK q : q = lastPath + 1
    OBVIOUS
  <2>3. Kept(q)'
    BY <2>1, <2>2 DEF InSlots, Kept
  <2>4. store'[q].dir = 0 \/ q \notin Paths
    BY <1>1, <2>2 DEF IInv, ObjectsOK
  <2>5. \A p \in Paths : p # q => store'[p] = store[p]
    BY <1>1, <2>2 DEF IInv, ObjectsOK
  <2>. QED
    BY <2>2, <2>3, <2>4, <2>5 DEF StoreMoves
<1>5. \A p \in Paths : store'[p] # NoObject /\ InSlots(p) => Kept(p)'
  BY <1>3 DEF Kept
<1>. QED
  BY <1>1, <1>2, <1>4, <1>5, QuietKept

LEMMA StrandExternalKept ==
    ASSUME IInv, IInv', CInv, KInv, OnlyGoneLeave, NEW s \in Streams, StrandExternal(s)
    PROVE  KInv'
<1> DEFINE object == [dir |-> 0,
                      bytes |-> BytesOf(slot[s].gen, [start |-> slot[s].tail, end |-> slot[s].tail + 1,
                                                      path |-> lastPath'])]
<1>1. /\ lastPath' = lastPath + 1 /\ store' = [store EXCEPT ![lastPath'] = object]
      /\ orphans' = orphans \cup {lastPath'}
      /\ UNCHANGED <<slot, pages, flusher, compactor, collector>>
  BY DEF StrandExternal, replicated, workers
<1>2. object.dir = 0
  OBVIOUS
<1> HIDE DEF object
<1>3. PICK q : q = lastPath + 1
  OBVIOUS
<1>4. Kept(q)'
  BY <1>1, <1>3 DEF Kept
<1>5. StoreMoves
  <2>1. \A p \in Paths : p # q => store'[p] = store[p]
    BY <1>1, <1>3 DEF IInv, ObjectsOK
  <2>2. q \in Paths => store'[q].dir = 0
    BY <1>1, <1>2, <1>3 DEF IInv, ObjectsOK
  <2>. QED
    BY <1>3, <1>4, <2>1, <2>2 DEF StoreMoves
<1>6. \A p \in Paths : store'[p] # NoObject /\ InSlots(p) => Kept(p)'
  BY <1>1 DEF Kept, InSlots
<1>7. \A g \in 1 .. MaxGen : LiveGen(g) => LiveGen(g)'
  BY <1>1 DEF LiveGen, Live
<1>. QED
  BY <1>1, <1>5, <1>6, <1>7, QuietKept

(* What named the object in the other streams still does. *)
LEMMA OthersKept ==
    ASSUME NEW s \in Streams, Others(s), NEW p, InSlots(p),
           p \in PathsOf(slot[s].chunks) => Kept(p)', p \in PathsOf(slot[s].external) => Kept(p)'
    PROVE  Kept(p)'
<1>1. PICK t \in Streams : \E r \in slot[t].chunks \cup slot[t].external : r.path = p
  BY DEF InSlots
<1>2. CASE t = s
  BY <1>1, <1>2 DEF PathsOf
<1>3. CASE t # s
  BY <1>1, <1>3 DEF Others, InSlots, Kept
<1>. QED
  BY <1>2, <1>3

LEMMA RetentionKept ==
    ASSUME IInv, IInv', CInv, RInv, KInv, OnlyGoneLeave, NEW s \in Streams,
           NEW o \in 1 .. MaxRetain, AdvanceRetention(s, o)
    PROVE  KInv'
<1> DEFINE chunks == {r \in slot[s].chunks : r.end <= o}
           external == {r \in slot[s].external : r.end <= o}
           mid == QueueReleased(gc, PathsOf(chunks), TRUE)
<1>1. /\ Others(s) /\ slot[s].live /\ slot'[s].live /\ slot'[s].gen = slot[s].gen
      /\ slot'[s].chunks = slot[s].chunks \ chunks /\ slot'[s].external = slot[s].external \ external
      /\ gc' = QueueUnless(mid, PathsOf(external), TRUE)
      /\ UNCHANGED <<store, pages, flusher, compactor, collector, orphans>>
  BY RetentionShape
<1>2. /\ chunks \in SUBSET slot[s].chunks /\ external \in SUBSET slot[s].external
      /\ PathsOf(chunks) \in SUBSET Paths /\ PathsOf(external) \in SUBSET Paths
  BY RefPaths
<1>3. gc \in Queue /\ Ordered(gc)
  BY DEF IInv, QueueOK
<1> HIDE DEF chunks, external
<1>4. Grown(gc, mid, {0}, PathsOf(chunks))
  BY <1>2, <1>3, ReleaseGrows
<1>5. mid \in Queue /\ Ordered(mid)
  BY <1>4 DEF Grown
<1>6. Entries(mid) \subseteq Entries(gc')
  BY <1>1, <1>2, <1>5, UnlessGrows DEF Grown
<1>7. ASSUME NEW p, p \in PathsOf(chunks) PROVE Kept(p)'
  <2>1. PICK b \in BOOLEAN : b = TRUE
    OBVIOUS
  <2>. QED
    BY <1>1, <1>2, <1>3, <1>6, <1>7, <2>1, SliceKept
<1>8. ASSUME NEW p, p \in PathsOf(external) PROVE Kept(p)'
  <2>1. PICK b \in BOOLEAN : b = TRUE
    OBVIOUS
  <2>2. \E e \in Entries(gc') : p \in e.paths
    BY <1>1, <1>2, <1>5, <1>8, <2>1, UnlessQueued
  <2>. QED
    BY <2>2 DEF Kept
<1>9. ASSUME NEW p, InSlots(p) PROVE Kept(p)'
  <2>1. ASSUME NEW r \in slot[s].chunks, r.path = p PROVE Kept(p)'
    <3>1. CASE r \in chunks
      BY <1>7, <2>1, <3>1 DEF PathsOf
    <3>2. CASE r \notin chunks
      BY <1>1, <2>1, <3>2 DEF InSlots, Kept
    <3>. QED
      BY <3>1, <3>2
  <2>2. ASSUME NEW r \in slot[s].external, r.path = p PROVE Kept(p)'
    <3>1. CASE r \in external
      BY <1>8, <2>2, <3>1 DEF PathsOf
    <3>2. CASE r \notin external
      BY <1>1, <2>2, <3>2 DEF InSlots, Kept
    <3>. QED
      BY <3>1, <3>2
  <2>. QED
    BY <1>1, <1>9, <2>1, <2>2, OthersKept DEF PathsOf
<1>10. \A g : LiveGen(g) => LiveGen(g)'
  BY <1>1, LiveStays
<1>11. StoreMoves
  BY <1>1 DEF StoreMoves
<1>. QED
  BY <1>1, <1>9, <1>10, <1>11, QuietKept

(* A stream all of whose bytes are hot: its pages name only what a worker  *)
(* holds or what is left to the orphan sweep.                              *)
LEMMA HotPages ==
    ASSUME IInv, CInv, NEW s \in Live, ~(Cardinality(slot[s].hot) < slot[s].tail),
           NEW e \in pages[slot[s].gen]
    PROVE  \/ flusher # Idle /\ flusher.path = e.path
           \/ compactor # Idle /\ compactor.path = e.path
           \/ e.path \in orphans
<1>0. s \in Streams /\ slot[s].gen \in 0 .. MaxGen
  BY LiveTyped
<1>1. slot[s].tail \in Nat /\ slot[s].hot \subseteq 0 .. slot[s].tail - 1
  BY <1>0, SlotTyped
<1>2. slot[s].hot = 0 .. slot[s].tail - 1
  <2>1. PICK S : S = 0 .. slot[s].tail - 1
    OBVIOUS
  <2>2. IsFiniteSet(S) /\ Cardinality(S) = slot[s].tail
    <3>1. 0 \in Int /\ slot[s].tail - 1 \in Int
      BY <1>1
    <3>2. IsFiniteSet(0 .. slot[s].tail - 1)
          /\ Cardinality(0 .. slot[s].tail - 1)
               = IF 0 > slot[s].tail - 1 THEN 0 ELSE (slot[s].tail - 1) - 0 + 1
      BY <3>1, FS_Interval
    <3>. QED
      BY <1>1, <2>1, <3>2
  <2>3. slot[s].hot \in SUBSET S
    BY <1>1, <2>1
  <2>4. /\ IsFiniteSet(slot[s].hot) /\ Cardinality(slot[s].hot) <= Cardinality(S)
        /\ Cardinality(S) = Cardinality(slot[s].hot) => S = slot[s].hot
    BY <2>2, <2>3, FS_Subset
  <2>5. Cardinality(slot[s].hot) \in Nat
    BY <2>4, FS_CardinalityType
  <2>. QED
    BY <1>1, <2>1, <2>2, <2>4, <2>5
<1>3. e \in UNION Views(slot[s].gen)
  BY ViewsAre
<1>4. PICK c \in Claims : c = OfEntry(slot[s].gen, e)
  BY <1>0, <1>3, ViewClaims
<1>5. /\ c.gen = slot[s].gen /\ c.start = e.start /\ c.end = e.end
      /\ c.kind = IF e.external THEN "external" ELSE "chunk"
  BY <1>4, ClaimFields
<1>6. Ranged(e)
  BY <1>0, <1>3, ViewClaims
<1>7. c.end <= slot[s].tail /\ (c.kind = "external" => Span(c) \cap slot[s].hot = {})
  BY <1>5 DEF CInv, Core, InPlace
<1>8. e.start \in Span(e) /\ e.start \in Span(c) /\ e.start \in slot[s].hot
  BY <1>1, <1>2, <1>5, <1>6, <1>7 DEF Ranged, Span
<1>9. ~e.external /\ ~Robust(e, slot[s])
  BY <1>5, <1>7, <1>8 DEF Robust
<1>10. \/ flusher.stage = "indexed" /\ e = FlushEntry
       \/ compactor.stage = "indexed" /\ e = Replacement
       \/ e.path \in orphans
  BY <1>3, <1>9 DEF CInv, Clear
<1>11. FlushEntry.path = flusher.path /\ Replacement.path = compactor.path
  BY DEF FlushEntry, Replacement, Entry
<1>. QED
  BY <1>10, <1>11, StageIs

LEMMA StreamQueued ==
    ASSUME NEW q \in Queue, Ordered(q), NEW g \in 0 .. MaxGen
    PROVE  \E e \in Entries(EnqueueStream(q, g)) : e.gen = g
<1> DEFINE e(ps, b) == [seq |-> q.next, gen |-> g, paths |-> ps, graced |-> b]
<1>1. \A ps \in SUBSET Paths : \A b \in BOOLEAN : (g # 0 => ps = {}) =>
        e(ps, b) \in Entries(Push(q, g, ps, b))
  BY PushOrdered
<1>2. e({}, FALSE) \in Entries(Push(q, g, {}, FALSE))
  BY <1>1
<1>3. e({}, FALSE).gen = g
  OBVIOUS
<1>. QED
  BY <1>2, <1>3 DEF EnqueueStream

LEMMA DeleteKept ==
    ASSUME IInv, IInv', CInv, RInv, KInv, OnlyGoneLeave, NEW s \in Streams, Delete(s)
    PROVE  KInv'
<1> DEFINE hasColdObjects == \/ Cardinality(slot[s].hot) < slot[s].tail
                             \/ slot[s].chunks # {} \/ slot[s].external # {}
           q == EnqueueStream(gc, slot[s].gen)
           r == QueueUnless(q, PathsOf(slot[s].external), FALSE)
           queued == IF hasColdObjects THEN r ELSE gc
<1>1. gc' = QueueReleased(queued, PathsOf(slot[s].chunks), FALSE)
  BY DEF Delete
<1>2. /\ PathsOf(slot[s].chunks) \in SUBSET Paths /\ PathsOf(slot[s].external) \in SUBSET Paths
      /\ slot[s].gen \in 0 .. MaxGen
  BY RefPaths, SlotTyped
<1>3. gc \in Queue /\ Ordered(gc)
  BY DEF IInv, QueueOK
<1>4. /\ slot[s].live /\ Others(s) /\ slot'[s] = Vacant
      /\ UNCHANGED <<store, pages, flusher, compactor, collector, orphans>>
  BY DeleteShape
<1>5. PICK b \in BOOLEAN : b = FALSE
  OBVIOUS
<1>6. /\ Grown(gc, q, {slot[s].gen}, {})
      /\ \E e \in Entries(q) : e.gen = slot[s].gen
  <2>1. Grown(gc, q, {slot[s].gen}, {})
    BY <1>2, <1>3, PushGrows DEF EnqueueStream
  <2>2. \E e \in Entries(q) : e.gen = slot[s].gen
    BY <1>2, <1>3, StreamQueued
  <2>. QED
    BY <2>1, <2>2
<1> HIDE DEF q, hasColdObjects
<1>7. q \in Queue /\ Ordered(q)
  BY <1>6 DEF Grown
<1>8. Grown(q, r, {0}, PathsOf(slot[s].external))
  BY <1>2, <1>7, UnlessGrows
<1>9. ASSUME NEW p \in PathsOf(slot[s].external) PROVE \E e \in Entries(r) : p \in e.paths
  BY <1>2, <1>5, <1>7, UnlessQueued
<1> HIDE DEF r
<1>10. queued \in Queue /\ Ordered(queued)
  BY <1>3, <1>8 DEF Grown
<1> HIDE DEF queued
<1>11. Entries(queued) \subseteq Entries(gc')
  BY <1>1, <1>2, <1>10, ReleaseGrows DEF Grown
<1>12. ASSUME NEW p \in PathsOf(slot[s].chunks) PROVE Kept(p)'
  BY <1>1, <1>4, <1>5, <1>10, SliceKept
<1>13. ASSUME NEW p \in PathsOf(slot[s].external) PROVE Kept(p)'
  <2>1. slot[s].external # {}
    BY DEF PathsOf
  <2>2. queued = r
    BY <2>1 DEF queued, hasColdObjects
  <2>3. \E e \in Entries(gc') : p \in e.paths
    BY <1>9, <1>11, <2>2
  <2>. QED
    BY <2>3 DEF Kept
<1>14. \A p \in Paths : store'[p] # NoObject /\ InSlots(p) => Kept(p)'
  BY <1>4, <1>12, <1>13, OthersKept
<1>15. ASSUME NEW g \in 1 .. MaxGen, LiveGen(g)
       PROVE  LiveGen(g)' \/ Queued(g)' \/ \A p \in Paths : Indexes(g, p) => Kept(p)'
  <2>1. PICK t \in Live : slot[t].gen = g
    BY <1>15 DEF LiveGen
  <2>2. CASE t # s
    BY <1>4, <2>1, <2>2 DEF Others, LiveGen, Live
  <2>3. CASE t = s /\ hasColdObjects
    <3>1. Entries(q) \subseteq Entries(r) /\ queued = r
      BY <1>8, <2>3 DEF Grown, queued
    <3>2. \E e \in Entries(gc') : e.gen = g
      BY <1>6, <1>11, <2>1, <2>3, <3>1
    <3>. QED
      BY <3>2 DEF Queued
  <2>4. CASE t = s /\ ~hasColdObjects
    <3>1. s \in Live /\ ~(Cardinality(slot[s].hot) < slot[s].tail)
      BY <2>1, <2>4 DEF hasColdObjects
    <3>2. ASSUME NEW p \in Paths, Indexes(g, p) PROVE Kept(p)'
      <4>1. PICK e \in pages[slot[s].gen] : e.path = p
        BY <2>1, <2>4, <3>2 DEF Indexes
      <4>. QED
        BY <1>4, <3>1, <4>1, HotPages DEF Kept
    <3>. QED
      BY <3>2
  <2>. QED
    BY <2>2, <2>3, <2>4
<1>16. StoreMoves
  BY <1>4 DEF StoreMoves
<1>. QED
  BY <1>4, <1>14, <1>15, <1>16, QuietKept

(* The store loses objects, or nothing moves but the queue. *)
LEMMA StoreShrinks ==
    ASSUME \A p \in Paths : store'[p] = store[p] \/ store'[p] = NoObject
    PROVE  StoreMoves
BY DEF StoreMoves

LEMMA StillKept ==
    ASSUME IInv, IInv', CInv, KInv, OnlyGoneLeave,
           UNCHANGED <<slot, pages, flusher, compactor>>, orphans \subseteq orphans',
           \A p \in Paths : store'[p] = store[p] \/ store'[p] = NoObject
    PROVE  /\ AllKept' /\ RollsBack'
           /\ (collector'.stage = "pages" => collector' = collector) => KInv'
<1>1. \A p : InSlots(p) => InSlots(p)'
  BY DEF InSlots
<1>2. \A g : LiveGen(g) => LiveGen(g)'
  BY DEF LiveGen, Live
<1>3. \A p \in Paths : store'[p] # NoObject /\ InSlots(p) => Kept(p)'
  BY <1>1 DEF Kept
<1>. QED
  BY <1>2, <1>3, StoreShrinks, QuietKept

LEMMA WithoutShrinks ==
    ASSUME NEW objects, store' = Without(objects)
    PROVE  /\ \A p \in Paths : store'[p] = store[p] \/ store'[p] = NoObject
           /\ \A p \in Paths \cap objects : store'[p] = NoObject
BY DEF Without

LEMMA ReclaimedWorks ==
    ASSUME IInv, collector # Idle, collector' = Reclaimed
    PROVE  collector'.stage # "pages"
BY ReclaimedIs

LEMMA GcKept ==
    ASSUME IInv, IInv', CInv, KInv, OnlyGoneLeave,
           \/ PlanGc \/ ReclaimPaths \/ FailEntry \/ AckGc \/ LoseAck \/ AbandonGc
           \/ RefuseOffload \/ LoseOffload
    PROVE  KInv'
<1>1. UNCHANGED <<slot, pages, flusher, compactor, orphans>>
  BY DEF PlanGc, ReclaimPaths, FailEntry, AckGc, LoseAck, AbandonGc, RefuseOffload, LoseOffload,
         replicated, outcome
<1>2. \A p \in Paths : store'[p] = store[p] \/ store'[p] = NoObject
  <2>1. store' = store \/ ReclaimPaths \/ FailEntry
    BY DEF PlanGc, AckGc, LoseAck, AbandonGc, RefuseOffload, LoseOffload
  <2>2. ReclaimPaths \/ FailEntry => \E objects : store' = Without(objects)
    BY DEF ReclaimPaths, FailEntry
  <2>. QED
    BY <2>1, <2>2, WithoutShrinks
<1>3. collector'.stage = "pages" => collector' = collector
  <2>1. CASE PlanGc \/ AckGc \/ LoseAck \/ AbandonGc
    BY <2>1 DEF PlanGc, AckGc, LoseAck, AbandonGc, Idle
  <2>2. CASE RefuseOffload \/ LoseOffload
    BY <2>2 DEF RefuseOffload, LoseOffload
  <2>3. CASE ReclaimPaths
    <3>1. collector # Idle /\ collector' = Reclaimed
      BY <2>3 DEF ReclaimPaths, Collecting, Idle
    <3>. QED
      BY <3>1, ReclaimedWorks
  <2>4. CASE FailEntry
    <3>1. collector # Idle /\ collector.stage = "working"
      BY <2>4 DEF FailEntry, Collecting, Idle
    <3>2. collector \in Collection
      BY <3>1, CollectorTyped
    <3>3. \/ collector' = [collector EXCEPT !.todo = Tail(collector.todo)]
          \/ collector' = [collector EXCEPT !.todo = <<>>]
      BY <2>4, <3>2 DEF FailEntry, Collection
    <3>. QED
      BY <3>1, <3>2, <3>3 DEF Collection
  <2>. QED
    BY <2>1, <2>2, <2>3, <2>4
<1>. QED
  BY <1>1, <1>2, <1>3, StillKept

LEMMA ReclaimObjectsKept ==
    ASSUME IInv, IInv', CInv, KInv, OnlyGoneLeave, ReclaimObjects
    PROVE  KInv'
<1>1. /\ collector # Idle /\ collector.todo[1].gen # 0
      /\ UNCHANGED <<slot, pages, flusher, compactor, orphans>>
  BY DEF ReclaimObjects, Collecting, Idle, replicated, outcome
<1>2. PICK g : g = collector.todo[1].gen
  OBVIOUS
<1>3. CASE LiveGen(g)
  <2>1. collector' = Reclaimed /\ store' = store
    BY <1>2, <1>3 DEF ReclaimObjects
  <2>2. collector'.stage # "pages"
    BY <1>1, <2>1, ReclaimedWorks
  <2>. QED
    BY <1>1, <2>1, <2>2, StillKept
<1>4. CASE ~LiveGen(g)
  <2>1. store' = Without(IncarnationObjects(g)) /\ collector' = [collector EXCEPT !.stage = "pages"]
    BY <1>2, <1>4 DEF ReclaimObjects
  <2>2. collector'.todo = collector.todo
    BY <1>1, <2>1, CollectorTyped DEF Collection
  <2>3. AllKept' /\ RollsBack'
    BY <1>1, <2>1, WithoutShrinks, StillKept
  <2>4. Emptied'
    <3>1. SUFFICES ASSUME NEW p \in IncarnationObjects(g)' PROVE ~Stored(p)'
      <4>1. collector'.todo[1].gen = g
        BY <1>2, <2>2
      <4>2. IncarnationObjects(collector.todo[1].gen)' = IncarnationObjects(g)'
        BY <4>1 DEF IncarnationObjects
      <4>. QED
        BY <4>2 DEF Emptied
    <3>2. g \in 0 .. MaxGen
      <4>1. collector.todo # <<>>
        BY DEF ReclaimObjects, Collecting
      <4>2. 1 \in 1 .. Len(collector.todo)
        BY <1>1, <4>1, CollectorTyped
      <4>. QED
        BY <1>1, <1>2, <4>2, CollectorTyped
    <3>3. CASE p \in PathsOf({e \in pages'[g] : e.external})
      <4>1. p \in IncarnationObjects(g)
        BY <1>1, <3>3 DEF IncarnationObjects
      <4>2. p \in Paths
        BY <1>1, <3>2, <3>3, PageTyped, EntryRanged DEF PathsOf
      <4>. QED
        BY <2>1, <4>1, <4>2, WithoutShrinks DEF Stored
    <3>4. CASE p \in {x \in Paths : store'[x].dir = g}
      <4>1. CASE p \in IncarnationObjects(g)
        BY <2>1, <3>4, <4>1, WithoutShrinks DEF Stored
      <4>2. CASE p \notin IncarnationObjects(g)
        <5>1. store[p].dir # g
          BY <3>4, <4>2 DEF IncarnationObjects
        <5>2. store'[p] = NoObject
          BY <2>1, <3>4, <5>1, WithoutShrinks
        <5>. QED
          BY <5>2 DEF Stored
      <4>. QED
        BY <4>1, <4>2
    <3>. QED
      BY <3>1, <3>3, <3>4 DEF IncarnationObjects
  <2>. QED
    BY <2>3, <2>4 DEF KInv
<1>. QED
  BY <1>3, <1>4

LEMMA ReclaimPagesKept ==
    ASSUME IInv, IInv', CInv, KInv, OnlyGoneLeave, ReclaimPages
    PROVE  KInv'
<1>1. /\ collector # Idle /\ collector.stage = "pages" /\ collector' = Reclaimed
      /\ UNCHANGED <<slot, store, flusher, compactor, orphans>>
  BY DEF ReclaimPages, Collecting, Idle, replicated, outcome
<1>2. PICK g : g = collector.todo[1].gen
  OBVIOUS
<1>3. g \in 1 .. MaxGen /\ g \in 0 .. MaxGen /\ ~LiveGen(g)
  <2>1. g \in 1 .. MaxGen /\ ~LiveGen(g)
    BY <1>1, <1>2, PagesStageIs
  <2>. QED
    BY <2>1
<1>4. pages' = [pages EXCEPT ![g] = {}]
  BY <1>2, <1>3 DEF ReclaimPages
<1>5. pages'[g] = {} /\ \A h \in 0 .. MaxGen : h # g => pages'[h] = pages[h]
  BY <1>3, <1>4 DEF IInv, ObjectsOK
<1>6. Emptied'
  BY <1>1, ReclaimedWorks DEF Emptied
<1>7. RollsBack'
  BY <1>1, <1>5, RollsBackNext DEF KInv
<1>8. StoreMoves
  BY <1>1 DEF StoreMoves
<1>9. ASSUME NEW p \in Paths, store'[p] # NoObject, Indexes(g, p) PROVE FALSE
  <2>1. PICK e \in pages[g] : e.path = p
    BY <1>9 DEF Indexes
  <2>2. Stored(p)
    BY <1>1, <1>9 DEF Stored
  <2>3. p \notin IncarnationObjects(g)
    BY <1>1, <1>2, <2>2 DEF KInv, Emptied
  <2>4. ~e.external
    BY <2>1, <2>3 DEF IncarnationObjects, PathsOf
  <2>5. PICK c \in Claims : c = OfEntry(g, e)
    BY <1>3, ClaimIs
  <2>6. c.kind = "chunk" /\ c.gen = g /\ c.path = p
    BY <2>1, <2>4, <2>5, ClaimFields
  <2>7. store[p].dir = g
    BY <2>2, <2>6 DEF CInv, Core, Housed
  <2>. QED
    BY <1>9, <2>3, <2>7 DEF IncarnationObjects
<1>10. ASSUME NEW p \in Paths, store'[p] # NoObject PROVE Carried(p)
  <2>1. flusher # Idle /\ flusher.path = p => Kept(p)'
    BY <1>1 DEF Kept
  <2>2. compactor # Idle /\ compactor.path = p => Kept(p)'
    BY <1>1 DEF Kept
  <2>3. compactor.stage = "indexed" /\ ~compactor.shared /\ p \in PathsOf(compactor.run) => Kept(p)'
    BY <1>1 DEF Kept, PathsOf
  <2>4. InSlots(p) => Kept(p)'
    BY <1>1 DEF Kept, InSlots
  <2>5. ASSUME NEW h \in 1 .. MaxGen, Indexes(h, p)
        PROVE  Indexes(h, p)' /\ (LiveGen(h) => LiveGen(h)')
    <3>1. h # g
      BY <1>9, <1>10, <2>5
    <3>2. pages'[h] = pages[h]
      BY <1>5, <3>1
    <3>. QED
      BY <1>1, <2>5, <3>2 DEF Indexes, LiveGen, Live
  <2>. QED
    BY <2>1, <2>2, <2>3, <2>4, <2>5 DEF Carried
<1>11. AllKept'
  BY <1>1, <1>8, <1>10, KeptNext DEF KInv
<1>. QED
  BY <1>6, <1>7, <1>11 DEF KInv

LEMMA OffloadKept ==
    ASSUME IInv, IInv', CInv, KInv, OnlyGoneLeave, NEW s \in Streams, NEW rs, Paged(s, rs),
           slot' = [slot EXCEPT ![s].external = @ \ rs],
           UNCHANGED <<store, pages, flusher, compactor, collector, orphans>>
    PROVE  KInv'
<1>1. /\ Others(s) /\ slot'[s].live = slot[s].live /\ slot'[s].gen = slot[s].gen
      /\ slot'[s].chunks = slot[s].chunks /\ slot'[s].external = slot[s].external \ rs
  BY RefsShape
<1>2. \A g : LiveGen(g) => LiveGen(g)'
  BY <1>1, LiveStays
<1>3. ASSUME NEW p, InSlots(p) PROVE Kept(p)'
  <2>1. p \in PathsOf(slot[s].chunks) => Kept(p)'
    BY <1>1 DEF PathsOf, InSlots, Kept
  <2>2. ASSUME NEW r \in slot[s].external, r.path = p PROVE Kept(p)'
    <3>1. CASE r \notin rs
      BY <1>1, <2>2, <3>1 DEF InSlots, Kept
    <3>2. CASE r \in rs
      <4>1. s \in Live
        BY <2>2, SlotTyped DEF Vacant, Live
      <4>2. PICK g \in 1 .. MaxGen : g = slot[s].gen
        BY <4>1, LiveTyped
      <4>3. LiveGen(g)'
        BY <1>2, <4>1, <4>2 DEF LiveGen
      <4>4. Entry(r, TRUE) \in pages'[g] /\ Entry(r, TRUE).path = p
        BY <2>2, <3>2, <4>2, EntryFields DEF Paged
      <4>. QED
        BY <4>3, <4>4 DEF Indexes, Kept
    <3>. QED
      BY <3>1, <3>2
  <2>. QED
    BY <1>1, <1>3, <2>1, <2>2, OthersKept DEF PathsOf
<1>4. StoreMoves
  BY DEF StoreMoves
<1>. QED
  BY <1>2, <1>3, <1>4, QuietKept

LEMMA OffloadsKept ==
    ASSUME IInv, IInv', CInv, KInv, OnlyGoneLeave,
           PublishOffload \/ (CommitLimbo /\ limbo.kind = "offload")
    PROVE  KInv'
<1>1. CASE PublishOffload
  <2>1. /\ offloader # Idle
        /\ slot' = [slot EXCEPT ![offloader.stream].external = @ \ offloader.refs]
        /\ UNCHANGED <<store, pages, flusher, compactor, collector, orphans>>
    BY <1>1 DEF PublishOffload, outcome
  <2>2. offloader.stream \in Streams
    BY <2>1 DEF IInv, OffloaderOK, Offload
  <2>3. Paged(offloader.stream, offloader.refs)
    BY <2>1 DEF CInv, Indexed
  <2>. QED
    BY <2>1, <2>2, <2>3, OffloadKept
<1>2. CASE CommitLimbo /\ limbo.kind = "offload"
  <2>1. /\ slot' = [slot EXCEPT ![limbo.stream].external = @ \ limbo.refs]
        /\ UNCHANGED <<store, pages, flusher, compactor, collector, orphans>>
    BY <1>2 DEF CommitLimbo, ApplyLimbo, workers
  <2>2. limbo.stream \in Streams
    BY <1>2 DEF IInv, LimboOK, LostCommand, NoCommand
  <2>3. Paged(limbo.stream, limbo.refs)
    BY <1>2 DEF CInv, Indexed
  <2>. QED
    BY <2>1, <2>2, <2>3, OffloadKept
<1>. QED
  BY <1>1, <1>2

(* The bytes move from hot to a chunk or slice of the object at path. *)
LEMMA FlushColdKept ==
    ASSUME IInv, NEW c \in Candidate, NEW path, NEW shared \in BOOLEAN,
           FlushFits(c), FlushCold(c, path, shared)
    PROVE  /\ \A p : InSlots(p) => InSlots(p)'
           /\ \A g : LiveGen(g) => LiveGen(g)'
           /\ shared => InSlots(path)'
<1> DEFINE s == c.stream
           new == IF shared THEN {[start |-> c.start, end |-> c.end, path |-> path]} ELSE {}
<1>1. /\ s \in Streams /\ slot[s].live /\ Others(s) /\ slot'[s].live
      /\ slot'[s].gen = slot[s].gen
      /\ slot'[s].chunks = slot[s].chunks \cup new /\ slot'[s].external = slot[s].external
  BY FlushColdShape
<1>2. \A p : InSlots(p) => InSlots(p)'
  BY <1>1, SlotsStay
<1>3. \A g : LiveGen(g) => LiveGen(g)'
  BY <1>1, LiveStays
<1>4. ASSUME shared PROVE InSlots(path)'
  <2>1. PICK r : r = [start |-> c.start, end |-> c.end, path |-> path]
    OBVIOUS
  <2>2. r \in slot'[s].chunks /\ r.path = path
    BY <1>1, <1>4, <2>1
  <2>. QED
    BY <1>1, <2>2 DEF InSlots
<1>. QED
  BY <1>2, <1>3, <1>4

LEMMA CommitKept ==
    ASSUME IInv, IInv', CInv, KInv, OnlyGoneLeave, CommitLimbo \/ DiscardLimbo
    PROVE  KInv'
<1>0. UNCHANGED <<store, pages, flusher, compactor, collector, orphans>>
  BY DEF CommitLimbo, DiscardLimbo, workers
<1>1. CASE slot' = slot
  BY <1>0, <1>1, StillKept
<1>2. CASE CommitLimbo /\ limbo.kind = "flush"
  <2>1. \/ FlushFits(limbo.candidate) /\ FlushCold(limbo.candidate, limbo.path, limbo.shared)
        \/ slot' = slot
    BY <1>2 DEF CommitLimbo, ApplyLimbo, replicated
  <2>2. limbo.candidate \in Candidate /\ limbo.shared \in BOOLEAN
    BY <1>2 DEF IInv, LimboOK, LostCommand, NoCommand
  <2>3. CASE FlushFits(limbo.candidate) /\ FlushCold(limbo.candidate, limbo.path, limbo.shared)
    <3>1. /\ \A p : InSlots(p) => InSlots(p)'
          /\ \A g : LiveGen(g) => LiveGen(g)'
      BY <2>2, <2>3, FlushColdKept
    <3>2. \A p \in Paths : store'[p] # NoObject /\ InSlots(p) => Kept(p)'
      BY <3>1 DEF Kept
    <3>3. StoreMoves
      BY <1>0 DEF StoreMoves
    <3>. QED
      BY <1>0, <3>1, <3>2, <3>3, QuietKept
  <2>. QED
    BY <1>1, <2>1, <2>3
<1>3. CASE CommitLimbo /\ limbo.kind = "compact"
  <2>1. ~limbo.job.shared
    BY <1>3 DEF CInv, Modes, LimboAt
  <2>2. slot' = slot
    BY <1>3, <2>1 DEF CommitLimbo, ApplyLimbo, CompactCold, CompactRaw
  <2>. QED
    BY <1>1, <2>2
<1>4. CASE CommitLimbo /\ limbo.kind \in {"ack", "defer"}
  <2>1. slot' = slot
    BY <1>4 DEF CommitLimbo, ApplyLimbo
  <2>. QED
    BY <1>1, <2>1
<1>5. CASE CommitLimbo /\ limbo.kind = "offload"
  BY <1>5, OffloadsKept
<1>6. CASE DiscardLimbo
  BY <1>1, <1>6 DEF DiscardLimbo, replicated
<1>7. CommitLimbo => limbo.kind \in {"flush", "compact", "offload", "ack", "defer"}
  BY DEF CommitLimbo, IInv, LimboOK, LostCommand
<1>. QED
  BY <1>2, <1>3, <1>4, <1>5, <1>6, <1>7

(* A worker starts with an upload. *)
LEMMA UploadKept ==
    ASSUME IInv, IInv', CInv, KInv, OnlyGoneLeave, UNCHANGED <<slot, pages, collector, orphans>>,
           flusher' = flusher \/ (flusher = Idle /\ flusher'.stage # "indexed"),
           compactor' = compactor \/ (compactor = Idle /\ compactor'.stage # "indexed"),
           StoreMoves
    PROVE  KInv'
<1>1. ExternalsStay
  BY DEF ExternalsStay
<1>2. Emptied'
  BY <1>1, EmptiedNext DEF KInv
<1>3. RollsBack'
  BY RollsBackNext DEF KInv
<1>4. ASSUME NEW p \in Paths PROVE Carried(p)
  <2>1. flusher # Idle /\ flusher.path = p => Kept(p)'
    BY DEF Kept
  <2>2. compactor # Idle /\ compactor.path = p => Kept(p)'
    BY DEF Kept
  <2>3. compactor.stage = "indexed" /\ ~compactor.shared /\ p \in PathsOf(compactor.run) => Kept(p)'
    <3>1. compactor.stage = "indexed" => compactor' = compactor
      BY StageIs
    <3>. QED
      BY <3>1 DEF Kept, PathsOf
  <2>4. InSlots(p) => Kept(p)'
    BY DEF Kept, InSlots
  <2>5. \A g \in 1 .. MaxGen : Indexes(g, p) => Indexes(g, p)' /\ (LiveGen(g) => LiveGen(g)')
    BY DEF Indexes, LiveGen, Live
  <2>. QED
    BY <2>1, <2>2, <2>3, <2>4, <2>5 DEF Carried
<1>5. AllKept'
  BY <1>4, KeptNext DEF KInv
<1>. QED
  BY <1>2, <1>3, <1>5 DEF KInv

LEMMA UploadMoves ==
    ASSUME IInv, NEW object, store' = [store EXCEPT ![lastPath + 1] = object],
           NEW q, q = lastPath + 1, Kept(q)', object.dir = 0 \/ LiveGen(object.dir)
    PROVE  StoreMoves
<1>1. \A p \in Paths : p # q => store'[p] = store[p]
  BY DEF IInv, ObjectsOK
<1>2. q \in Paths => store'[q] = object
  BY DEF IInv, ObjectsOK
<1>. QED
  BY <1>1, <1>2 DEF StoreMoves

LEMMA PlanFlushKept ==
    ASSUME IInv, IInv', CInv, KInv, OnlyGoneLeave, NEW s \in Live, NEW cap \in Int,
           NEW shared \in BOOLEAN, NEW c, c = Prefix(s, cap), PlanFlush(<<c>>, shared)
    PROVE  KInv'
<1> DEFINE object == [dir |-> IF shared THEN 0 ELSE <<c>>[1].gen, bytes |-> Payload(<<c>>)]
<1>1. /\ flusher = Idle /\ lastPath' = lastPath + 1
      /\ store' = [store EXCEPT ![lastPath + 1] = object]
      /\ flusher'.stage = "uploaded" /\ flusher'.path = lastPath + 1 /\ flusher' # Idle
      /\ UNCHANGED <<slot, pages, compactor, collector, orphans>>
  BY DEF PlanFlush, replicated, outcome, Idle
<1>2. c.gen = slot[s].gen
  BY DEF Prefix
<1>3. object.dir = 0 \/ LiveGen(object.dir)
  BY <1>2 DEF LiveGen
<1> HIDE DEF object
<1>4. PICK q : q = lastPath + 1
  OBVIOUS
<1>5. Kept(q)'
  BY <1>1, <1>4 DEF Kept
<1>6. StoreMoves
  BY <1>1, <1>3, <1>4, <1>5, UploadMoves
<1>. QED
  BY <1>1, <1>6, UploadKept

LEMMA PlansKept ==
    ASSUME Limits, IInv, IInv', CInv, KInv, OnlyGoneLeave, PlanExclusive \/ PlanPack
    PROVE  KInv'
<1>1. CASE PlanExclusive
  <2>1. PICK s \in Live : PlanFlush(Planned(<<s>>), FALSE)
    BY <1>1 DEF PlanExclusive
  <2>2. Len(<<s>>) = 1 /\ <<s>>[1] = s
    OBVIOUS
  <2>3. PICK cap \in Int : Planned(<<s>>) = <<Prefix(s, cap)>>
    BY <2>2, PlannedOne
  <2>. QED
    BY <2>1, <2>3, PlanFlushKept
<1>2. CASE PlanPack
  <2>1. PICK T \in SUBSET Live : /\ Cardinality(T) \in 1 .. PackWidth
                                 /\ \E order \in SetToSeqs(T) : PlanFlush(Planned(order), TRUE)
    BY <1>2 DEF PlanPack
  <2>2. PICK order \in SetToSeqs(T) : PlanFlush(Planned(order), TRUE)
    BY <2>1
  <2>3. order \in [1 .. Cardinality(T) -> T]
    BY DEF SetToSeqs
  <2>4. Cardinality(T) = 1
    BY <2>1, ColdConstants DEF Limits
  <2>5. Len(order) = 1 /\ order[1] \in Live
    BY <2>3, <2>4
  <2>6. PICK cap \in Int : Planned(order) = <<Prefix(order[1], cap)>>
    BY <2>5, PlannedOne
  <2>. QED
    BY <2>2, <2>5, <2>6, PlanFlushKept
<1>. QED
  BY <1>1, <1>2

LEMMA PlanCompactionKept ==
    ASSUME IInv, IInv', CInv, KInv, OnlyGoneLeave, NEW s \in Live, NEW run, NEW shared \in BOOLEAN,
           PlanCompaction(s, run, shared)
    PROVE  KInv'
<1> DEFINE object == [dir |-> slot[s].gen,
                      bytes |-> IF shared THEN UNION {BytesOf(slot[s].gen, r) : r \in run}
                                          ELSE UNION {store[r.path].bytes : r \in run}]
<1>1. /\ compactor = Idle /\ lastPath' = lastPath + 1
      /\ store' = [store EXCEPT ![lastPath + 1] = object]
      /\ compactor'.stage = "uploaded" /\ compactor'.path = lastPath + 1 /\ compactor' # Idle
      /\ UNCHANGED <<slot, pages, flusher, collector, orphans>>
  BY DEF PlanCompaction, replicated, outcome, Idle
<1>2. object.dir = 0 \/ LiveGen(object.dir)
  BY DEF LiveGen
<1> HIDE DEF object
<1>3. PICK q : q = lastPath + 1
  OBVIOUS
<1>4. Kept(q)'
  BY <1>1, <1>3 DEF Kept
<1>5. StoreMoves
  BY <1>1, <1>2, <1>3, <1>4, UploadMoves
<1>. QED
  BY <1>1, <1>5, UploadKept

LEMMA PlanCompactionsKept ==
    ASSUME IInv, IInv', CInv, KInv, OnlyGoneLeave, PlanShared \/ PlanRaw
    PROVE  KInv'
<1>1. PICK a \in BOOLEAN, b \in BOOLEAN : a = TRUE /\ b = FALSE
  OBVIOUS
<1>. QED
  BY <1>1, PlanCompactionKept DEF PlanShared, PlanRaw

(* The other steps of the workers: what was named still is, or is gone. *)
LEMMA WorkKept ==
    ASSUME IInv, IInv', CInv, KInv, OnlyGoneLeave, collector' = collector,
           orphans \subseteq orphans', RollsBack', ExternalsStay,
           \A p \in Paths : store'[p] = store[p] \/ store'[p] = NoObject,
           \A g : LiveGen(g) => LiveGen(g)',
           \A p \in Paths : store'[p] # NoObject =>
             /\ flusher # Idle /\ flusher.path = p => Kept(p)'
             /\ compactor # Idle /\ compactor.path = p => Kept(p)'
             /\ compactor.stage = "indexed" /\ ~compactor.shared /\ p \in PathsOf(compactor.run) => Kept(p)'
             /\ InSlots(p) => Kept(p)',
           \A g \in 1 .. MaxGen : \A e \in pages[g] : \A p \in Paths :
             e.path = p /\ store'[p] # NoObject => e \in pages'[g] \/ Kept(p)'
    PROVE  KInv'
<1>1. StoreMoves
  BY StoreShrinks
<1>2. Emptied'
  BY <1>1, EmptiedNext DEF KInv
<1>3. ASSUME NEW p \in Paths, store'[p] # NoObject PROVE Carried(p)
  <2>1. ASSUME NEW g \in 1 .. MaxGen, Indexes(g, p)
        PROVE  Kept(p)' \/ (Indexes(g, p)' /\ (LiveGen(g) => LiveGen(g)'))
    <3>1. PICK e \in pages[g] : e.path = p
      BY <2>1 DEF Indexes
    <3>2. e \in pages'[g] \/ Kept(p)'
      BY <1>3, <3>1
    <3>3. e \in pages'[g] => Indexes(g, p)'
      BY <3>1 DEF Indexes
    <3>. QED
      BY <3>2, <3>3
  <2>. QED
    BY <1>3, <2>1 DEF Carried
<1>4. AllKept'
  BY <1>1, <1>3, KeptNext DEF KInv
<1>. QED
  BY <1>2, <1>4 DEF KInv

(* A page write of the worker that has its turn. *)
LEMMA PageWriteKept ==
    ASSUME IInv, IInv', CInv, KInv, OnlyGoneLeave, UNCHANGED <<slot, store, collector, orphans>>,
           flusher # Idle => flusher' # Idle /\ flusher'.path = flusher.path,
           compactor # Idle => compactor' # Idle /\ compactor'.path = compactor.path,
           compactor.stage # "indexed",
           RollsBack', NEW g \in 0 .. MaxGen, LiveGen(g),
           \A h \in 0 .. MaxGen : h # g => pages'[h] = pages[h],
           \A e \in pages[g] : \A p \in Paths :
             e.path = p => e \in pages'[g] \/ p \in orphans \/ Kept(p)'
    PROVE  KInv'
<1>1. ExternalsStay
  BY DEF ExternalsStay
<1>2. \A h : LiveGen(h) => LiveGen(h)'
  BY DEF LiveGen, Live
<1>3. ASSUME NEW p \in Paths
      PROVE  /\ flusher # Idle /\ flusher.path = p => Kept(p)'
             /\ compactor # Idle /\ compactor.path = p => Kept(p)'
             /\ InSlots(p) => Kept(p)'
  <2>1. flusher # Idle /\ flusher.path = p => Kept(p)'
    BY DEF Kept
  <2>2. compactor # Idle /\ compactor.path = p => Kept(p)'
    BY DEF Kept
  <2>3. InSlots(p) => Kept(p)'
    BY DEF Kept, InSlots
  <2>. QED
    BY <2>1, <2>2, <2>3
<1>4. ASSUME NEW h \in 1 .. MaxGen, NEW e \in pages[h], NEW p \in Paths, e.path = p
      PROVE  e \in pages'[h] \/ Kept(p)'
  <2>1. CASE h = g
    <3>1. p \in orphans => Kept(p)'
      BY DEF Kept
    <3>. QED
      BY <1>4, <2>1, <3>1
  <2>2. CASE h # g
    BY <1>4, <2>2
  <2>. QED
    BY <2>1, <2>2
<1>. QED
  BY <1>1, <1>2, <1>3, <1>4, WorkKept

LEMMA IndexFlushKept ==
    ASSUME Limits, IInv, IInv', CInv, KInv, OnlyGoneLeave, IndexFlush, FlushFits(flusher.todo[1])
    PROVE  KInv'
<1> DEFINE c == flusher.todo[1]
           g == slot[c.stream].gen
<1>1. /\ flusher.stage = "uploaded" /\ ~flusher.shared /\ MayIndex
      /\ pages' = [pages EXCEPT ![g] = Clipped(pages[g], FlushEntry)]
      /\ flusher' = [flusher EXCEPT !.stage = "indexed", !.gen = g, !.saved = pages[g]]
      /\ UNCHANGED <<slot, store, compactor, collector, orphans>>
  BY DEF IndexFlush, replicated
<1>2. flusher # Idle /\ compactor.stage # "indexed" /\ flusher.stage # "indexed"
  BY <1>1, MayIndexAlone DEF Idle
<1>3. c.stream \in Live /\ Span(c) \subseteq slot[c.stream].hot /\ g \in 0 .. MaxGen /\ LiveGen(g)
  <2>1. c.stream \in Live /\ Span(c) \subseteq slot[c.stream].hot
    BY <1>2, FlusherTyped DEF FlushFits, Live
  <2>. QED
    BY <2>1, LiveTyped
<1>4. /\ flusher'.gen = g /\ flusher'.saved = pages[g] /\ flusher' # Idle
      /\ flusher'.path = flusher.path /\ flusher'.todo = flusher.todo
  <2>1. flusher \in Flush
    BY <1>2, FlusherTyped
  <2>. QED
    BY <1>1, <2>1 DEF Flush, Idle
<1>5. FlushEntry' = FlushEntry
  BY <1>4 DEF FlushEntry
<1>6. Ranged(FlushEntry) /\ FlushEntry.start = c.start /\ FlushEntry.end = c.end /\ ~FlushEntry.external
  <2>1. FlushEntry \in PageEntry
    BY <1>2, FlusherTyped
  <2>. QED
    BY <2>1, EntryRanged DEF FlushEntry, Entry
<1>7. Span(FlushEntry) \subseteq slot[c.stream].hot
  BY <1>3, <1>6 DEF Span
<1>8. /\ pages'[g] = Clipped(pages[g], FlushEntry)
      /\ \A h \in 0 .. MaxGen : h # g => pages'[h] = pages[h]
  BY <1>1, <1>3 DEF IInv, ObjectsOK
<1>9. ASSUME NEW e \in pages[g] PROVE e \in pages'[g] \/ (~e.external /\ e.path \in orphans)
  <2>1. SUFFICES ASSUME e \notin pages'[g] PROVE ~e.external /\ e.path \in orphans
    OBVIOUS
  <2>2. Overlap(FlushEntry, e) /\ Ranged(e)
    BY <1>3, <1>8, <2>1, PageTyped, EntryRanged DEF Clipped
  <2>3. ~e.external
    <3>1. SUFFICES ASSUME e.external PROVE FALSE
      OBVIOUS
    <3>2. PICK d \in Claims : d = OfEntry(g, e)
      BY <1>3, ClaimIs
    <3>3. d.gen = g /\ d.kind = "external" /\ d.start = e.start /\ d.end = e.end
      BY <3>1, <3>2, ClaimFields
    <3>4. Overlap(FlushEntry, d)
      BY <2>2, <3>3 DEF Overlap
    <3>. QED
      BY <1>3, <1>6, <1>7, <3>3, <3>4, HotApart
  <2>4. ~Robust(e, slot[c.stream])
    BY <1>6, <1>7, <1>8, <2>1, <2>2, ClipKeeps
  <2>5. e \in UNION Views(g)
    BY ViewsAre
  <2>. QED
    BY <1>2, <1>3, <2>3, <2>4, <2>5 DEF CInv, Clear
<1> HIDE DEF c, g
<1>10. RollsBack'
  <2>1. pages'[g] \subseteq pages[g] \cup {FlushEntry}
    BY <1>8 DEF Clipped
  <2>2. \A e \in pages[g] : e.external => e \in pages'[g]
    BY <1>9
  <2>. QED
    BY <1>1, <1>2, <1>4, <1>5, <2>1, <2>2 DEF RollsBack
<1>11. \A e \in pages[g] : \A p \in Paths : e.path = p => e \in pages'[g] \/ p \in orphans \/ Kept(p)'
  BY <1>9
<1>. QED
  BY <1>1, <1>2, <1>3, <1>4, <1>8, <1>10, <1>11, PageWriteKept

LEMMA IndexOffloadKept ==
    ASSUME Limits, IInv, IInv', CInv, KInv, OnlyGoneLeave, NEW s \in Streams, IndexOffload(s)
    PROVE  KInv'
<1> DEFINE g == slot[s].gen
           new == {Entry(r, TRUE) : r \in slot[s].external}
           page == {f \in pages[g] : \A e \in new : f = e \/ ~Overlap(e, f)} \cup new
<1>1. /\ MayIndex /\ slot[s].live /\ pages' = [pages EXCEPT ![g] = page]
      /\ UNCHANGED <<slot, store, flusher, compactor, collector, orphans>>
  BY DEF IndexOffload, replicated, outcome
<1>2. /\ flusher.stage # "indexed" /\ compactor.stage # "indexed"
  BY <1>1, MayIndexAlone
<1>3. s \in Live /\ g \in 0 .. MaxGen /\ LiveGen(g)
  BY <1>1, LiveTyped DEF Live
<1>4. ASSUME NEW f \in pages[g] PROVE f \in page
  <2>1. SUFFICES ASSUME NEW e \in new, Overlap(e, f) PROVE f = e
    BY <1>4
  <2>2. PICK r \in slot[s].external : e = Entry(r, TRUE)
    BY <2>1
  <2>3. OfEntry(g, f) \in Claims /\ f \in PageEntry
    BY <1>3, ClaimIs, PageTyped
  <2>4. Overlap(r, OfEntry(g, f)) /\ OfEntry(g, f).gen = g
    BY <2>1, <2>2 DEF Overlap, Entry, OfEntry, OfRef, Claim
  <2>5. OfEntry(g, f) = OfEntry(g, e) /\ e \in PageEntry
    BY <2>2, <2>3, <2>4, ExternalIs
  <2>. QED
    BY <2>3, <2>5, OneEntry
<1> HIDE DEF page
<1>5. /\ pages[g] \subseteq pages'[g]
      /\ \A h \in 0 .. MaxGen : h # g => pages'[h] = pages[h]
  BY <1>1, <1>3, <1>4 DEF IInv, ObjectsOK
<1> HIDE DEF g
<1>6. RollsBack'
  BY <1>1, <1>2 DEF RollsBack
<1>. QED
  BY <1>1, <1>2, <1>3, <1>5, <1>6, PageWriteKept

LEMMA IndexCompactionKept ==
    ASSUME Limits, IInv, IInv', CInv, KInv, OnlyGoneLeave, IndexCompaction,
           compactor.shared \/ compactor.run \subseteq pages[slot[compactor.stream].gen]
    PROVE  KInv'
<1> DEFINE s == compactor.stream
           g == slot[s].gen
<1>1. /\ compactor.stage = "uploaded" /\ MayIndex
      /\ pages' = [pages EXCEPT ![g] = IF compactor.shared THEN Clipped(pages[g], Replacement)
                                       ELSE (pages[g] \ compactor.run) \cup {Replacement}]
      /\ compactor' = [compactor EXCEPT !.stage = "indexed", !.gen = g, !.saved = pages[g]]
      /\ UNCHANGED <<slot, store, flusher, collector, orphans>>
  BY DEF IndexCompaction, replicated
<1>2. compactor # Idle /\ flusher.stage # "indexed" /\ compactor.stage # "indexed"
  BY <1>1, MayIndexAlone DEF Idle
<1>3. s \in Live /\ g \in 0 .. MaxGen /\ LiveGen(g)
  BY <1>2, ReplacementIs, LiveTyped
<1>4. /\ compactor'.stage = "indexed" /\ compactor'.gen = g /\ compactor'.saved = pages[g]
      /\ compactor' # Idle /\ compactor'.path = compactor.path /\ compactor'.run = compactor.run
      /\ compactor'.shared = compactor.shared
  <2>1. compactor \in Compaction
    BY <1>2, CompactorTyped
  <2>. QED
    BY <1>1, <2>1 DEF Compaction, Idle
<1>5. Replacement' = Replacement
  BY <1>4 DEF Replacement, First, Beyond
<1>6. /\ pages'[g] = IF compactor.shared THEN Clipped(pages[g], Replacement)
                     ELSE (pages[g] \ compactor.run) \cup {Replacement}
      /\ \A h \in 0 .. MaxGen : h # g => pages'[h] = pages[h]
  BY <1>1, <1>3 DEF IInv, ObjectsOK
<1>7. ASSUME compactor.shared, NEW e \in pages[g], e \notin pages'[g] PROVE e.path \in orphans
  <2>1. Overlap(Replacement, e) /\ Ranged(e) /\ Ranged(Replacement)
    BY <1>2, <1>3, <1>6, <1>7, PageTyped, EntryRanged, ReplacementIs DEF Clipped
  <2>2. ~e.external
    <3>1. SUFFICES ASSUME e.external PROVE FALSE
      OBVIOUS
    <3>2. PICK d \in Claims : d = OfEntry(g, e)
      BY <1>3, <1>7, ClaimIs
    <3>3. PICK n \in Claims : n = OfEntry(g, Replacement) /\ n.kind = "chunk"
      BY <1>2, ReplacementIs
    <3>4. d.gen = g /\ d.kind = "external" /\ d.start = e.start /\ d.end = e.end
      BY <3>1, <3>2, ClaimFields
    <3>5. n.gen = g /\ n.start = Replacement.start /\ n.end = Replacement.end
      BY <3>3, ClaimFields
    <3>6. Overlap(d, n)
      BY <2>1, <3>4, <3>5 DEF Overlap
    <3>. QED
      BY <3>3, <3>4, <3>5, <3>6 DEF CInv, Core, ExternalApart
  <2>3. ~Robust(e, slot[s])
    <3>1. PICK o \in Span(Replacement) : o \in Span(e)
      BY <2>1, Touching
    <3>2. PICK r \in compactor.run : o \in Span(r) /\ Ranged(r)
      BY <1>2, ReplacementIs
    <3>3. Overlap(e, r)
      BY <2>1, <3>1, <3>2, Touching
    <3>4. r \in slot[s].chunks
      BY <1>2, <1>7, <3>2 DEF CInv, Modes, CompactorAt
    <3>. QED
      BY <3>3, <3>4 DEF Robust
  <2>4. e \in UNION Views(g)
    BY <1>7, ViewsAre
  <2>. QED
    BY <1>2, <1>3, <2>2, <2>3, <2>4 DEF CInv, Clear
<1>8. ASSUME ~compactor.shared, NEW e \in pages[g], NEW p, e.path = p, e \notin pages'[g] PROVE Kept(p)'
  <2>1. e \in compactor'.run
    BY <1>4, <1>6, <1>8
  <2>2. p \in PathsOf(compactor'.run)
    BY <1>8, <2>1 DEF PathsOf
  <2>3. PathsOf(compactor'.run) = PathsOf(compactor.run)'
    BY DEF PathsOf
  <2>. QED
    BY <1>4, <1>8, <2>2, <2>3 DEF Kept
<1> HIDE DEF g, s
<1>9. RollsBack'
  <2>1. pages'[g] \subseteq pages[g] \cup {Replacement}
    BY <1>6 DEF Clipped
  <2>. QED
    BY <1>1, <1>2, <1>4, <1>5, <2>1 DEF RollsBack
<1>10. \A e \in pages[g] : \A p \in Paths : e.path = p => e \in pages'[g] \/ p \in orphans \/ Kept(p)'
  BY <1>7, <1>8
<1>. QED
  BY <1>1, <1>2, <1>3, <1>4, <1>6, <1>9, <1>10, PageWriteKept

(* A flush that ends without being published. *)
LEMMA DropFlushKept ==
    ASSUME IInv, IInv', CInv, KInv, OnlyGoneLeave, flusher # Idle, flusher' = Idle,
           UNCHANGED <<slot, compactor, collector>>, Discard(flusher.path),
           pages' = IF flusher.stage = "indexed"
                    THEN RolledBack(flusher.gen, FlushEntry, flusher.saved) ELSE pages
    PROVE  KInv'
<1>1. flusher'.stage # "indexed"
  BY DEF Idle
<1>2. flusher.stage = "indexed" => flusher.gen \in 0 .. MaxGen
  BY FlusherTyped
<1>3. ASSUME NEW g \in 0 .. MaxGen
      PROVE  \/ pages'[g] = pages[g]
             \/ /\ flusher.stage = "indexed" /\ g = flusher.gen /\ FlushEntry \in pages[g]
                /\ pages'[g] = flusher.saved
  BY <1>2, <1>3 DEF RolledBack, IInv, ObjectsOK
<1>4. /\ \A p \in Paths : store'[p] = store[p] \/ store'[p] = NoObject
      /\ orphans \subseteq orphans'
  BY DEF Discard, IInv, ObjectsOK
<1>5. \A p \in Paths : p = flusher.path => store'[p] = NoObject \/ Kept(p)'
  <2>1. \A p \in Paths : p = flusher.path => store'[p] = NoObject \/ p \in orphans'
    BY DEF Discard, IInv, ObjectsOK
  <2>. QED
    BY <2>1 DEF Kept
<1>6. RollsBack'
  <2>1. ASSUME compactor.stage = "indexed" PROVE pages'[compactor.gen] \subseteq compactor.saved \cup {Replacement}
    <3>1. flusher.stage # "indexed"
      BY <2>1, TurnAlone
    <3>. QED
      BY <2>1, <3>1 DEF KInv, RollsBack
  <2>2. Replacement' = Replacement
    BY DEF Replacement
  <2>. QED
    BY <1>1, <2>1, <2>2 DEF RollsBack
<1>7. ExternalsStay
  <2>1. SUFFICES ASSUME NEW g \in 1 .. MaxGen, NEW e \in pages'[g], e.external PROVE e \in pages[g]
    BY DEF ExternalsStay
  <2>. QED
    BY <1>3, <2>1 DEF KInv, RollsBack
<1>8. \A g : LiveGen(g) => LiveGen(g)'
  BY DEF LiveGen, Live
<1>9. ASSUME NEW p \in Paths, store'[p] # NoObject
      PROVE  /\ flusher # Idle /\ flusher.path = p => Kept(p)'
             /\ compactor # Idle /\ compactor.path = p => Kept(p)'
             /\ compactor.stage = "indexed" /\ ~compactor.shared /\ p \in PathsOf(compactor.run) => Kept(p)'
             /\ InSlots(p) => Kept(p)'
  <2>1. flusher.path = p => Kept(p)'
    BY <1>5, <1>9
  <2>2. compactor # Idle /\ compactor.path = p => Kept(p)'
    BY DEF Kept
  <2>3. compactor.stage = "indexed" /\ ~compactor.shared /\ p \in PathsOf(compactor.run) => Kept(p)'
    BY DEF Kept, PathsOf
  <2>4. InSlots(p) => Kept(p)'
    BY DEF Kept, InSlots
  <2>. QED
    BY <2>1, <2>2, <2>3, <2>4
<1>10. ASSUME NEW g \in 1 .. MaxGen, NEW e \in pages[g], NEW p \in Paths, e.path = p, store'[p] # NoObject
       PROVE  e \in pages'[g] \/ Kept(p)'
  <2>1. e = FlushEntry => Kept(p)'
    BY <1>5, <1>10, EntryFields DEF FlushEntry, Entry
  <2>. QED
    BY <1>3, <1>10, <2>1 DEF KInv, RollsBack
<1>. QED
  BY <1>4, <1>6, <1>7, <1>8, <1>9, <1>10, WorkKept

(* A compaction that ends without being published. *)
LEMMA DropCompactionKept ==
    ASSUME IInv, IInv', CInv, KInv, OnlyGoneLeave, compactor # Idle, CompactionRefused,
           UNCHANGED <<slot, flusher, collector>>
    PROVE  KInv'
<1>0. /\ compactor' = Idle /\ Discard(compactor.path)
      /\ pages' = IF compactor.stage = "indexed"
                  THEN RolledBack(compactor.gen, Replacement, compactor.saved) ELSE pages
  BY DEF CompactionRefused
<1>1. compactor'.stage # "indexed"
  BY <1>0 DEF Idle
<1>2. compactor.stage = "indexed" =>
        /\ compactor.gen \in 0 .. MaxGen /\ compactor.gen \in 1 .. MaxGen /\ LiveGen(compactor.gen)
        /\ Replacement \in pages[compactor.gen]
        /\ ~compactor.shared => compactor.run \subseteq compactor.saved
  <2>1. ASSUME compactor.stage = "indexed"
        PROVE  compactor.gen \in 0 .. MaxGen /\ compactor.gen \in 1 .. MaxGen /\ LiveGen(compactor.gen)
    <3>1. compactor.gen = slot[compactor.stream].gen
      BY <2>1 DEF CInv, Modes, CompactorAt
    <3>2. compactor.stream \in Live
      BY ReplacementIs
    <3>. QED
      BY <3>1, <3>2, LiveTyped
  <2>. QED
    BY <2>1 DEF CInv, Indexed
<1>3. /\ compactor.stage = "indexed" => pages'[compactor.gen] = compactor.saved
      /\ \A g \in 0 .. MaxGen : pages'[g] = pages[g] \/ (compactor.stage = "indexed" /\ g = compactor.gen)
  BY <1>0, <1>2 DEF RolledBack, IInv, ObjectsOK
<1>4. /\ \A p \in Paths : store'[p] = store[p] \/ store'[p] = NoObject
      /\ orphans \subseteq orphans'
  BY <1>0 DEF Discard, IInv, ObjectsOK
<1>5. \A p \in Paths : p = compactor.path => store'[p] = NoObject \/ Kept(p)'
  <2>1. \A p \in Paths : p = compactor.path => store'[p] = NoObject \/ p \in orphans'
    BY <1>0 DEF Discard, IInv, ObjectsOK
  <2>. QED
    BY <2>1 DEF Kept
<1>6. RollsBack'
  <2>1. flusher.stage = "indexed" => pages' = pages
    BY <1>0, TurnAlone
  <2>2. FlushEntry' = FlushEntry
    BY DEF FlushEntry
  <2>. QED
    BY <1>1, <2>1, <2>2 DEF KInv, RollsBack
<1>7. ExternalsStay
  BY <1>2, <1>3 DEF ExternalsStay
<1>8. \A g : LiveGen(g) => LiveGen(g)'
  BY DEF LiveGen, Live
<1>9. ASSUME NEW p \in Paths, store'[p] # NoObject
      PROVE  /\ flusher # Idle /\ flusher.path = p => Kept(p)'
             /\ compactor # Idle /\ compactor.path = p => Kept(p)'
             /\ compactor.stage = "indexed" /\ ~compactor.shared /\ p \in PathsOf(compactor.run) => Kept(p)'
             /\ InSlots(p) => Kept(p)'
  <2>1. compactor.path = p => Kept(p)'
    BY <1>5, <1>9
  <2>2. flusher # Idle /\ flusher.path = p => Kept(p)'
    BY DEF Kept
  <2>3. ASSUME compactor.stage = "indexed", ~compactor.shared, p \in PathsOf(compactor.run) PROVE Kept(p)'
    <3>1. PICK e \in compactor.run : e.path = p
      BY <2>3 DEF PathsOf
    <3>2. PICK g \in 1 .. MaxGen : g = compactor.gen
      BY <1>2, <2>3
    <3>3. e \in pages'[g] /\ LiveGen(g)'
      BY <1>2, <1>3, <1>8, <2>3, <3>1, <3>2
    <3>. QED
      BY <3>1, <3>3 DEF Kept, Indexes
  <2>4. InSlots(p) => Kept(p)'
    BY DEF Kept, InSlots
  <2>. QED
    BY <2>1, <2>2, <2>3, <2>4
<1>10. ASSUME NEW g \in 1 .. MaxGen, NEW e \in pages[g], NEW p \in Paths, e.path = p, store'[p] # NoObject
       PROVE  e \in pages'[g] \/ Kept(p)'
  <2>1. e = Replacement => Kept(p)'
    BY <1>5, <1>10, EntryFields DEF Replacement, Entry
  <2>. QED
    BY <1>3, <1>10, <2>1 DEF KInv, RollsBack
<1>. QED
  BY <1>4, <1>6, <1>7, <1>8, <1>9, <1>10, WorkKept

(* A worker ends with its proposal answered, its answer lost, or half way. *)
LEMMA EndKept ==
    ASSUME IInv, IInv', CInv, KInv, OnlyGoneLeave, UNCHANGED <<store, pages, collector>>,
           orphans \subseteq orphans',
           flusher' = flusher \/ flusher' = Idle, compactor' = compactor \/ compactor' = Idle,
           \A g : LiveGen(g) => LiveGen(g)',
           flusher' = flusher \/ \A p \in Paths : flusher.path = p => Kept(p)',
           compactor' = compactor \/ \A p \in Paths :
             /\ compactor.path = p => Kept(p)'
             /\ compactor.stage = "indexed" /\ ~compactor.shared /\ p \in PathsOf(compactor.run) =>
                  Kept(p)',
           \A p \in Paths : InSlots(p) => Kept(p)'
    PROVE  KInv'
<1>1. ExternalsStay
  BY DEF ExternalsStay
<1>2. RollsBack'
  <2>1. flusher'.stage = "indexed" => flusher' = flusher
    BY DEF Idle
  <2>2. compactor'.stage = "indexed" => compactor' = compactor
    BY DEF Idle
  <2>. QED
    BY <2>1, <2>2, RollsBackNext DEF KInv
<1>3. ASSUME NEW p \in Paths
      PROVE  /\ flusher # Idle /\ flusher.path = p => Kept(p)'
             /\ compactor # Idle /\ compactor.path = p => Kept(p)'
             /\ compactor.stage = "indexed" /\ ~compactor.shared /\ p \in PathsOf(compactor.run) => Kept(p)'
  <2>1. flusher # Idle /\ flusher.path = p => Kept(p)'
    BY DEF Kept
  <2>2. compactor # Idle /\ compactor.path = p => Kept(p)'
    BY DEF Kept
  <2>3. compactor.stage = "indexed" /\ ~compactor.shared /\ p \in PathsOf(compactor.run) => Kept(p)'
    BY DEF Kept, PathsOf
  <2>. QED
    BY <2>1, <2>2, <2>3
<1>4. \A p \in Paths : store'[p] = store[p] \/ store'[p] = NoObject
  OBVIOUS
<1>5. \A g \in 1 .. MaxGen : \A e \in pages[g] : e \in pages'[g]
  OBVIOUS
<1>. QED
  BY <1>1, <1>2, <1>3, <1>4, <1>5, WorkKept

LEMMA FlushKept ==
    ASSUME Limits, IInv, IInv', CInv, KInv, OnlyGoneLeave,
           IndexFlush \/ PublishFlush \/ RefuseFlush \/ LoseFlush \/ AbandonFlush
    PROVE  KInv'
<1>1. flusher # Idle
  <2>1. flusher = Idle => flusher.stage = "idle"
    BY DEF Idle
  <2>2. flusher.stage = "uploaded" \/ flusher # Idle
    BY DEF IndexFlush, PublishFlush, RefuseFlush, LoseFlush, AbandonFlush
  <2>. QED
    BY <2>1, <2>2
<1>2. Len(flusher.todo) = 1 /\ ~flusher.published
  BY <1>1 DEF CInv, Modes, FlusherAt
<1>3. ASSUME FlushRefused, UNCHANGED <<slot, compactor, collector>>
      PROVE  KInv'
  BY <1>1, <1>2, <1>3, DropFlushKept DEF FlushRefused
<1>4. CASE IndexFlush
  <2>1. CASE FlushFits(flusher.todo[1])
    BY <1>4, <2>1, IndexFlushKept
  <2>2. CASE ~FlushFits(flusher.todo[1])
    BY <1>3, <1>4, <2>2 DEF IndexFlush, replicated
  <2>. QED
    BY <2>1, <2>2
<1>5. CASE RefuseFlush
  BY <1>3, <1>5 DEF RefuseFlush, replicated
<1>6. CASE PublishFlush
  <2>1. FlushProposing /\ UNCHANGED <<compactor, collector>>
    BY <1>6 DEF PublishFlush
  <2>2. CASE /\ FlushFits(flusher.todo[1])
             /\ FlushCold(flusher.todo[1], flusher.path, flusher.shared)
             /\ NextSlice(TRUE) /\ UNCHANGED pages
    <3>1. flusher' = Idle /\ store' = store /\ orphans' = orphans
      BY <1>2, <2>2 DEF NextSlice
    <3>2. flusher.todo[1] \in Candidate /\ flusher.shared \in BOOLEAN
      BY <1>1, FlusherTyped
    <3>3. PICK path \in Paths : path = flusher.path
      BY <1>1, FlusherTyped
    <3>4. /\ \A p : InSlots(p) => InSlots(p)'
          /\ \A g : LiveGen(g) => LiveGen(g)'
          /\ flusher.shared => InSlots(path)'
      BY <2>2, <3>2, <3>3, FlushColdKept
    <3>5. Kept(path)'
      <4>1. CASE flusher.shared
        BY <3>4, <4>1 DEF Kept
      <4>2. CASE ~flusher.shared
        <5>1. flusher.stage = "indexed"
          BY <2>1, <4>2 DEF FlushProposing
        <5>2. flusher.gen = flusher.todo[1].gen
          BY <1>1, <5>1 DEF CInv, Modes, FlusherAt
        <5>3. flusher.todo[1].stream \in Live /\ slot[flusher.todo[1].stream].gen = flusher.gen
          BY <1>1, <2>2, <5>2, FlusherTyped DEF FlushFits, Live
        <5>4. PICK g \in 1 .. MaxGen : g = flusher.gen /\ LiveGen(g)
          BY <5>3, LiveTyped
        <5>5. FlushEntry \in pages[g]
          BY <5>1, <5>4 DEF CInv, Indexed
        <5>6. PICK e \in pages[g] : e.path = path
          BY <3>3, <5>5 DEF FlushEntry, Entry
        <5>7. Indexes(g, path)' /\ LiveGen(g)'
          BY <2>2, <3>4, <5>4, <5>6 DEF Indexes
        <5>. QED
          BY <5>7 DEF Kept
      <4>. QED
        BY <4>1, <4>2
    <3>6. \A p \in Paths : InSlots(p) => Kept(p)'
      BY <3>4 DEF Kept
    <3>. QED
      BY <2>1, <2>2, <3>1, <3>3, <3>4, <3>5, <3>6, EndKept
  <2>3. CASE flusher.shared /\ NextSlice(flusher.published) /\ UNCHANGED <<replicated, pages>>
    <3>1. flusher' = Idle /\ Discard(flusher.path)
      BY <1>2, <2>3 DEF NextSlice
    <3>2. flusher.stage # "indexed"
      BY <2>1, <2>3 DEF FlushProposing
    <3>. QED
      BY <1>1, <2>1, <2>3, <3>1, <3>2, DropFlushKept DEF replicated
  <2>4. CASE FlushRefused /\ UNCHANGED replicated
    BY <1>3, <2>1, <2>4 DEF replicated
  <2>. QED
    BY <1>6, <2>2, <2>3, <2>4 DEF PublishFlush
<1>7. CASE LoseFlush \/ AbandonFlush
  <2>1. /\ orphans' = orphans \cup {flusher.path} /\ flusher' = Idle
        /\ UNCHANGED <<slot, store, pages, compactor, collector>>
    BY <1>2, <1>7 DEF LoseFlush, AbandonFlush, replicated
  <2>2. \A g : LiveGen(g) => LiveGen(g)'
    BY <2>1 DEF LiveGen, Live
  <2>3. \A p \in Paths : InSlots(p) => Kept(p)'
    BY <2>1 DEF InSlots, Kept
  <2>4. \A p \in Paths : flusher.path = p => Kept(p)'
    BY <2>1 DEF Kept
  <2>. QED
    BY <2>1, <2>2, <2>3, <2>4, EndKept
<1>. QED
  BY <1>4, <1>5, <1>6, <1>7

(* The page names the replacement until the compaction is answered. *)
LEMMA ReplacementKept ==
    ASSUME IInv, CInv, compactor.stage = "indexed", pages' = pages,
           \A g : LiveGen(g) => LiveGen(g)', NEW p, compactor.path = p
    PROVE  Kept(p)'
<1>1. compactor # Idle /\ compactor.gen = slot[compactor.stream].gen
  BY StageIs DEF CInv, Modes, CompactorAt
<1>2. compactor.stream \in Live
  BY <1>1, ReplacementIs
<1>3. PICK g \in 1 .. MaxGen : g = compactor.gen /\ LiveGen(g)
  BY <1>1, <1>2, LiveTyped
<1>4. Replacement \in pages[g] /\ Replacement.path = p
  BY <1>1, <1>3, ReplacementIs DEF CInv, Indexed
<1>5. Indexes(g, p)' /\ LiveGen(g)'
  BY <1>3, <1>4 DEF Indexes
<1>. QED
  BY <1>5 DEF Kept

LEMMA PublishRawKept ==
    ASSUME IInv, IInv', CInv, KInv, OnlyGoneLeave, PublishCompaction, ~compactor.shared
    PROVE  KInv'
<1>1. /\ compactor.stage = "indexed" /\ CompactCold(compactor)
      /\ UNCHANGED <<flusher, collector>>
  BY DEF PublishCompaction
<1>2. compactor # Idle /\ compactor \in Compaction /\ compactor.run # {} /\ slot[compactor.stream].live
  BY <1>1, StageIs, CompactorTyped DEF CInv, Modes, CompactorAt
<1>3. compactor' = Idle /\ UNCHANGED <<store, pages, orphans>>
  BY <1>2 DEF PublishCompaction, CompactAccepted
<1>4. slot' = slot /\ gc' = EnqueueAfter(gc, PathsOf(compactor.run), TRUE)
  BY <1>1, <1>2 DEF CompactCold, CompactRaw
<1>5. PathsOf(compactor.run) \in SUBSET Paths /\ PathsOf(compactor.run) # {}
  <2>1. compactor.run \in (SUBSET Ref) \cup (SUBSET PageEntry)
    BY <1>2 DEF Compaction
  <2>. QED
    BY <1>2, <2>1, EntryRanged DEF PathsOf
<1>6. gc \in Queue /\ Ordered(gc)
  BY DEF IInv, QueueOK
<1>7. ASSUME NEW p \in PathsOf(compactor.run) PROVE Kept(p)'
  <2>1. PICK b \in BOOLEAN : b = TRUE
    OBVIOUS
  <2>2. gc' = QueueUnless(gc, PathsOf(compactor.run), b)
    BY <1>4, <1>5, <2>1 DEF QueueUnless
  <2>3. \E e \in Entries(gc') : p \in e.paths
    BY <1>5, <1>6, <1>7, <2>2, UnlessQueued
  <2>. QED
    BY <2>3 DEF Kept
<1>8. \A g : LiveGen(g) => LiveGen(g)'
  BY <1>4 DEF LiveGen, Live
<1>9. \A p \in Paths : InSlots(p) => Kept(p)'
  BY <1>4 DEF InSlots, Kept
<1>10. \A p \in Paths : compactor.path = p => Kept(p)'
  BY <1>1, <1>3, <1>8, ReplacementKept
<1>. QED
  BY <1>1, <1>3, <1>7, <1>8, <1>9, <1>10, EndKept

LEMMA PublishSharedKept ==
    ASSUME IInv, IInv', CInv, RInv, KInv, OnlyGoneLeave, PublishCompaction, compactor.shared
    PROVE  KInv'
<1> DEFINE s == compactor.stream
           run == compactor.run
<1>1. /\ compactor.stage = "indexed" /\ CompactCold(compactor)
      /\ UNCHANGED <<flusher, collector>>
  BY DEF PublishCompaction
<1>2. compactor # Idle /\ s \in Streams /\ slot[s].live /\ run \subseteq slot[s].chunks
  BY <1>1, StageIs, CompactorTyped DEF CInv, Modes, CompactorAt
<1>3. compactor' = Idle /\ UNCHANGED <<store, pages, orphans>>
  BY <1>2 DEF PublishCompaction, CompactAccepted, SharedRunMatches
<1>4. /\ slot' = [slot EXCEPT ![s].chunks = @ \ run]
      /\ gc' = QueueReleased(gc, PathsOf(run), TRUE)
  BY <1>1, <1>2 DEF CompactCold, CompactShared, SharedRunMatches
<1>5. /\ Others(s) /\ slot'[s].live = slot[s].live /\ slot'[s].gen = slot[s].gen
      /\ slot'[s].chunks = slot[s].chunks \ run /\ slot'[s].external = slot[s].external
  BY <1>2, <1>4, RefsShape
<1>6. gc \in Queue
  BY DEF IInv, QueueOK
<1> HIDE DEF s, run
<1>7. ASSUME NEW p \in PathsOf(run) PROVE Kept(p)'
  <2>1. PICK b \in BOOLEAN : b = TRUE
    OBVIOUS
  <2>2. Entries(QueueReleased(gc, PathsOf(run), b)) \subseteq Entries(gc')
    BY <1>4, <2>1
  <2>3. run \in SUBSET slot[s].chunks
    BY <1>2
  <2>. QED
    BY <1>2, <1>5, <1>6, <1>7, <2>2, <2>3, SliceKept
<1>8. \A g : LiveGen(g) => LiveGen(g)'
  BY <1>2, <1>5, LiveStays
<1>9. ASSUME NEW p \in Paths, InSlots(p) PROVE Kept(p)'
  <2>1. ASSUME NEW r \in slot[s].chunks, r.path = p PROVE Kept(p)'
    <3>1. CASE r \in run
      BY <1>7, <2>1, <3>1 DEF PathsOf
    <3>2. CASE r \notin run
      BY <1>2, <1>5, <2>1, <3>2 DEF InSlots, Kept
    <3>. QED
      BY <3>1, <3>2
  <2>2. p \in PathsOf(slot[s].external) => Kept(p)'
    BY <1>2, <1>5 DEF PathsOf, InSlots, Kept
  <2>. QED
    BY <1>2, <1>5, <1>9, <2>1, <2>2, OthersKept DEF PathsOf
<1>10. \A p \in Paths : compactor.path = p => Kept(p)'
  BY <1>1, <1>3, <1>8, ReplacementKept
<1>. QED
  BY <1>1, <1>3, <1>8, <1>9, <1>10, EndKept

LEMMA CompactionKept ==
    ASSUME Limits, IInv, IInv', CInv, RInv, KInv, OnlyGoneLeave,
           IndexCompaction \/ PublishCompaction \/ RefuseCompaction \/ LoseCompaction
           \/ AbandonCompaction
    PROVE  KInv'
<1>1. compactor # Idle
  BY StageIs DEF IndexCompaction, PublishCompaction, RefuseCompaction, LoseCompaction,
                 AbandonCompaction, Idle
<1>2. CASE IndexCompaction
  <2>1. CASE compactor.shared \/ compactor.run \subseteq pages[slot[compactor.stream].gen]
    BY <1>2, <2>1, IndexCompactionKept
  <2>2. CASE ~(compactor.shared \/ compactor.run \subseteq pages[slot[compactor.stream].gen])
    BY <1>1, <1>2, <2>2, DropCompactionKept DEF IndexCompaction, replicated
  <2>. QED
    BY <2>1, <2>2
<1>3. CASE RefuseCompaction
  BY <1>1, <1>3, DropCompactionKept DEF RefuseCompaction, replicated
<1>4. CASE PublishCompaction
  <2>1. compactor.shared \in BOOLEAN
    BY <1>1, CompactorTyped
  <2>. QED
    BY <1>4, <2>1, PublishRawKept, PublishSharedKept
<1>5. CASE LoseCompaction
  <2>1. /\ orphans' = orphans \cup {compactor.path} \cup PathsOf(compactor.run)
        /\ compactor' = Idle /\ UNCHANGED <<slot, store, pages, flusher, collector>>
    BY <1>5 DEF LoseCompaction, replicated
  <2>2. \A g : LiveGen(g) => LiveGen(g)'
    BY <2>1 DEF LiveGen, Live
  <2>3. \A p \in Paths : InSlots(p) => Kept(p)'
    BY <2>1 DEF InSlots, Kept
  <2>4. \A p \in Paths : compactor.path = p \/ p \in PathsOf(compactor.run) => Kept(p)'
    BY <2>1 DEF Kept
  <2>5. orphans \subseteq orphans'
    BY <2>1
  <2>. QED
    BY <2>1, <2>2, <2>3, <2>4, <2>5, EndKept
<1>6. CASE AbandonCompaction
  <2>1. /\ compactor.path \in orphans' /\ orphans \subseteq orphans'
        /\ compactor.stage = "indexed" => PathsOf(compactor.run) \subseteq orphans'
        /\ compactor' = Idle /\ UNCHANGED <<slot, store, pages, flusher, collector>>
    BY <1>6 DEF AbandonCompaction, replicated
  <2>2. \A g : LiveGen(g) => LiveGen(g)'
    BY <2>1 DEF LiveGen, Live
  <2>3. \A p \in Paths : InSlots(p) => Kept(p)'
    BY <2>1 DEF InSlots, Kept
  <2>4. \A p \in Paths : p \in orphans' => Kept(p)'
    BY DEF Kept
  <2>5. \A p \in Paths : /\ compactor.path = p => Kept(p)'
                         /\ compactor.stage = "indexed" /\ p \in PathsOf(compactor.run) => Kept(p)'
    BY <2>1, <2>4
  <2>. QED
    BY <2>1, <2>2, <2>3, <2>5, EndKept
<1>. QED
  BY <1>2, <1>3, <1>4, <1>5, <1>6

LEMMA NextKept ==
    ASSUME Limits, IInv, CInv, RInv, KInv, [Next]_vars
    PROVE  KInv'
<1>0. IInv'
  BY NextInv
<1>1. CASE Next
  <2>0. OnlyGoneLeave
    BY <1>1, NextInv
  <2>1. CASE \E s \in Streams : \/ Create(s) \/ AppendInline(s) \/ AppendExternal(s) \/ Delete(s)
                                \/ \E o \in 1 .. MaxRetain : \/ PublishSnapshot(s, o)
                                                             \/ AdvanceRetention(s, o)
    BY <1>0, <2>0, <2>1, CommandsKept, AppendExternalKept, DeleteKept, RetentionKept
  <2>7. CASE \E s \in Streams : StrandExternal(s)
    BY <1>0, <2>0, <2>7, StrandExternalKept
  <2>2. CASE PlanExclusive \/ PlanPack \/ IndexFlush \/ PublishFlush \/ RefuseFlush \/ LoseFlush
             \/ AbandonFlush
    BY <1>0, <2>0, <2>2, PlansKept, FlushKept
  <2>3. CASE PlanShared \/ PlanRaw \/ IndexCompaction \/ PublishCompaction
             \/ RefuseCompaction \/ LoseCompaction \/ AbandonCompaction
    BY <1>0, <2>0, <2>3, PlanCompactionsKept, CompactionKept
  <2>4. CASE (\E s \in Streams : IndexOffload(s)) \/ PublishOffload \/ RefuseOffload \/ LoseOffload
    BY <1>0, <2>0, <2>4, IndexOffloadKept, OffloadsKept, GcKept
  <2>5. CASE PlanGc \/ ReclaimPaths \/ ReclaimObjects \/ ReclaimPages \/ FailEntry
             \/ AckGc \/ LoseAck \/ AbandonGc
    BY <1>0, <2>0, <2>5, GcKept, ReclaimObjectsKept, ReclaimPagesKept
  <2>6. CASE CommitLimbo \/ DiscardLimbo
    BY <1>0, <2>0, <2>6, CommitKept
  <2>. QED
    BY <1>1, <2>1, <2>2, <2>3, <2>4, <2>5, <2>6, <2>7 DEF Next
<1>2. CASE UNCHANGED vars
  <2>1. UNCHANGED <<slot, gc, store, pages, flusher, compactor, collector, orphans>>
    BY <1>2 DEF vars, replicated, workers, outcome
  <2>2. OnlyGoneLeave
    BY <2>1 DEF OnlyGoneLeave, SameTarget
  <2>3. orphans \subseteq orphans' /\ \A p \in Paths : store'[p] = store[p]
    BY <2>1
  <2>. QED
    BY <1>0, <2>1, <2>2, <2>3, StillKept
<1>. QED
  BY <1>1, <1>2

LEMMA InitKept == Init => KInv
<1>1. SUFFICES ASSUME Init PROVE KInv
  OBVIOUS
<1>2. AllKept
  BY <1>1 DEF Init, AllKept, Stored
<1>3. RollsBack /\ Emptied
  BY <1>1 DEF Init, RollsBack, Emptied, Idle
<1>. QED
  BY <1>2, <1>3 DEF KInv

(* What is kept is held, named or queued; the chunks of a removed          *)
(* incarnation are found in its directory.                                 *)
LEMMA KeptNoLeak ==
    ASSUME IInv, CInv, KInv
    PROVE  NoLeak
<1>1. SUFFICES ASSUME NEW p \in Paths, Stored(p)
               PROVE  \/ WorkersHold(p) \/ p \in orphans
                      \/ \E s \in Live : p \in PathsOf(slot[s].chunks \cup slot[s].external \cup pages[slot[s].gen])
                      \/ \E e \in Entries(gc) : p \in e.paths \/ (e.gen # 0 /\ p \in IncarnationObjects(e.gen))
  BY DEF NoLeak
<1>2. Kept(p)
  BY <1>1 DEF KInv, AllKept
<1>3. CASE \/ flusher # Idle /\ flusher.path = p
           \/ compactor # Idle /\ compactor.path = p
           \/ compactor.stage = "indexed" /\ ~compactor.shared /\ p \in PathsOf(compactor.run)
  BY <1>3, StageIs DEF WorkersHold
<1>4. CASE InSlots(p)
  <2>1. PICK s \in Streams : \E r \in slot[s].chunks \cup slot[s].external : r.path = p
    BY <1>4 DEF InSlots
  <2>2. s \in Live
    BY <2>1, SlotTyped DEF Vacant, Live
  <2>. QED
    BY <2>1, <2>2 DEF PathsOf
<1>5. CASE \E g \in 1 .. MaxGen : (LiveGen(g) \/ Queued(g)) /\ Indexes(g, p)
  <2>1. PICK g \in 1 .. MaxGen : (LiveGen(g) \/ Queued(g)) /\ Indexes(g, p)
    BY <1>5
  <2>2. PICK f \in pages[g] : f.path = p
    BY <2>1 DEF Indexes
  <2>3. CASE LiveGen(g)
    <3>1. PICK s \in Live : slot[s].gen = g
      BY <2>3 DEF LiveGen
    <3>2. f \in slot[s].chunks \cup slot[s].external \cup pages[slot[s].gen]
      BY <2>2, <3>1
    <3>. QED
      BY <2>2, <3>1, <3>2 DEF PathsOf
  <2>4. CASE Queued(g)
    <3>1. PICK e \in Entries(gc) : e.gen = g
      BY <2>4 DEF Queued
    <3>2. p \in IncarnationObjects(g)
      <4>1. CASE f.external
        BY <2>2, <4>1 DEF IncarnationObjects, PathsOf
      <4>2. CASE ~f.external
        <5>1. PICK c \in Claims : c = OfEntry(g, f)
          BY <2>2, ClaimIs
        <5>2. c.kind = "chunk" /\ c.gen = g /\ c.path = p
          BY <2>2, <4>2, <5>1, ClaimFields
        <5>3. store[p].dir = g
          BY <1>1, <5>2 DEF CInv, Core, Housed
        <5>. QED
          BY <1>1, <5>3 DEF IncarnationObjects
      <4>. QED
        BY <4>1, <4>2
    <3>. QED
      BY <2>1, <3>1, <3>2
  <2>. QED
    BY <2>1, <2>3, <2>4
<1>6. CASE \E e \in Entries(gc) : p \in e.paths
  BY <1>6
<1>7. CASE p \in orphans
  BY <1>7
<1>8. \/ flusher # Idle /\ flusher.path = p
      \/ compactor # Idle /\ compactor.path = p
      \/ compactor.stage = "indexed" /\ ~compactor.shared /\ p \in PathsOf(compactor.run)
      \/ InSlots(p) \/ (\E g \in 1 .. MaxGen : (LiveGen(g) \/ Queued(g)) /\ Indexes(g, p))
      \/ (\E e \in Entries(gc) : p \in e.paths) \/ p \in orphans
  BY <1>2 DEF Kept
<1>. QED
  BY <1>3, <1>4, <1>5, <1>6, <1>7, <1>8

(* Every object in the store is held by a worker, named by a live stream,  *)
(* covered by a queued entry, or left to the orphan sweep, which only an   *)
(* unanswered proposal, a failed owner or a failed delete of a refused     *)
(* upload does: rolled back pages, released slices, deleted streams and GC *)
(* passes that start over forget no object (rollback_cold_index_pages,     *)
(* delete_rejected_pack, release_shared_cold_objects, remove_stream_state, *)
(* run_cold_gc_group_once), within Limits.                                 *)
THEOREM NothingLeaks ==
    ASSUME Limits
    PROVE  Spec => []NoLeak
<1>1. SliceLimits
  BY DEF Limits, SliceLimits
<1>2. IInv /\ RInv /\ [Next]_vars => RInv'
  BY <1>1, NextCounted
<1>3. IInv /\ CInv /\ [Next]_vars => CInv'
  BY NextSafe
<1>4. IInv /\ CInv /\ RInv /\ KInv /\ [Next]_vars => KInv'
  BY NextKept
<1>5. IInv /\ CInv /\ KInv => NoLeak
  BY KeptNoLeak
<1>. QED
  BY <1>2, <1>3, <1>4, <1>5, InitCounted, InitSafe, InitKept, Inductive, PTL DEF Spec
=============================================================================

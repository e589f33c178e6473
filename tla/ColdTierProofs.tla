--------------------------- MODULE ColdTierProofs ---------------------------
(* What leaves the GC queue is reclaimed, for every value of the constants. *)
EXTENDS ColdTier, FiniteSetTheorems, SequenceTheorems, WellFoundedInduction, TLAPS

(* An entry's objects are gone, and an incarnation's pages. *)
Gone(e) ==
    /\ \A p \in e.paths : store[p] = NoObject
    /\ e.gen # 0 => pages[e.gen] = {}

(* The paths were handed out. *)
Written(rs) == \A r \in rs : r.path <= lastPath

Queue == [pending : Seq(GcEntry), next : Nat \ {0}]

(* The queue's numbers increase. *)
Ordered(q) ==
    /\ \A i, j \in 1 .. Len(q.pending) : i < j => q.pending[i].seq < q.pending[j].seq
    /\ \A i \in 1 .. Len(q.pending) : q.pending[i].seq < q.next

CountersOK ==
    /\ lastGen \in 0 .. MaxGen /\ lastPath \in 0 .. MaxPath
    /\ refs \in [Paths -> Nat] /\ orphans \subseteq Paths

(* Offsets are ordered, and no two live streams have one generation. *)
SlotOK ==
    /\ slot \in [Streams -> Slot]
    /\ \A s \in Streams :
         /\ slot[s].retained <= slot[s].snapshot /\ slot[s].snapshot <= slot[s].tail
         /\ slot[s].hot \subseteq 0 .. slot[s].tail - 1
         /\ Written(slot[s].chunks) /\ Written(slot[s].external)
         /\ slot[s].live => slot[s].gen \in 1 .. lastGen
         /\ ~slot[s].live => slot[s] = Vacant
    /\ \A s, t \in Live : slot[s].gen = slot[t].gen => s = t

(* A queued incarnation is no more, and nothing queued is still to come. *)
QueueOK ==
    /\ gc \in Queue /\ Ordered(gc)
    /\ \A e \in Entries(gc) :
         /\ e.gen <= lastGen /\ ~LiveGen(e.gen)
         /\ \A p \in e.paths : p <= lastPath

ObjectsOK ==
    /\ store \in [Paths -> Object]
    /\ \A p \in Paths : Stored(p) => p <= lastPath
    /\ pages \in [0 .. MaxGen -> SUBSET PageEntry]
    /\ \A g \in 0 .. MaxGen : Written(pages[g])

FlusherOK ==
    /\ flusher \in {Idle} \cup Flush
    /\ flusher # Idle => /\ flusher.todo # <<>>
                         /\ flusher.path <= lastPath /\ Written(flusher.saved)

CompactorOK ==
    /\ compactor \in {Idle} \cup Compaction
    /\ compactor # Idle =>
         /\ compactor.run # {} /\ Written(compactor.run)
         /\ compactor.path <= lastPath /\ Written(compactor.saved)

OffloaderOK == offloader \in {Idle} \cup Offload

(* What the collector counts as reclaimed is gone, and up to the entries   *)
(* it took, the queue holds nothing else.                                  *)
CollectorOK ==
    /\ collector \in {Idle} \cup Collection
    /\ collector # Idle =>
         /\ collector.acked < gc.next
         /\ \A i \in 1 .. Len(collector.todo) : collector.todo[i].seq < gc.next
         /\ collector.stage = "pages" => collector.todo # <<>> /\ collector.todo[1].gen # 0
         /\ \A e \in Entries(gc) :
              /\ e.seq <= collector.acked => Gone(e)
              /\ \A i \in 1 .. Len(collector.todo) :
                   e.seq <= collector.todo[i].seq =>
                     Gone(e) \/ \E j \in 1 .. i : e = collector.todo[j]

(* So is what an ack without an answer counts. *)
LimboOK ==
    /\ limbo \in {NoCommand} \cup LostCommand
    /\ limbo.kind = "flush" => limbo.path <= lastPath
    /\ limbo.kind = "compact" => Written(limbo.job.run)
    /\ limbo.kind = "ack" => /\ limbo.upTo < gc.next
                             /\ \A e \in Entries(gc) : e.seq <= limbo.upTo => Gone(e)

IInv ==
    /\ CountersOK /\ SlotOK /\ QueueOK /\ ObjectsOK
    /\ FlusherOK /\ CompactorOK /\ OffloaderOK /\ CollectorOK /\ LimboOK

---------------------------------------------------------------------------
(* Sequences and the queue's operations.                                   *)

(* Every set of naturals but the empty one has a smallest member. *)
Less == {pair \in Nat \X Nat : pair[1] < pair[2]}

LEMMA SmallestExists ==
    ASSUME NEW S \in SUBSET Nat, S # {}
    PROVE  \E m \in S : \A n \in S : m <= n
<1>1. IsWellFoundedOn(Less, Nat)
  BY NatLessThanWellFounded DEF OpToRel, Less
<1>2. PICK m \in S : \A n \in S : ~(<<n, m>> \in Less)
  BY <1>1, WFMin
<1>3. ASSUME NEW n \in S PROVE m <= n
  <2>1. n \in Nat /\ m \in Nat
    OBVIOUS
  <2>2. <<n, m>> \in Nat \X Nat /\ <<n, m>>[1] = n /\ <<n, m>>[2] = m
    BY <2>1
  <2>3. n < m => <<n, m>> \in Less
    BY <2>2 DEF Less
  <2>4. ~(n < m)
    BY <1>2, <2>3
  <2>. QED
    BY <2>1, <2>4
<1>. QED
  BY <1>3

LEMMA SetToSeqType ==
    ASSUME NEW S, IsFiniteSet(S)
    PROVE  SetToSeq(S) \in Seq(S)
<1> DEFINE n == Cardinality(S)
<1>1. n \in Nat /\ ExistsBijection(1 .. n, S)
  BY FS_CardinalityType
<1>2. PICK f \in Bijection(1 .. n, S) : TRUE
  BY <1>1 DEF ExistsBijection
<1>3. f \in [1 .. n -> S] /\ IsInjective(f)
  BY <1>2 DEF Bijection, Injection
<1>4. SetToSeq(S) \in [1 .. n -> S] /\ IsInjective(SetToSeq(S))
  BY <1>3 DEF SetToSeq
<1>. QED
  BY <1>1, <1>4

LEMMA PushOrdered ==
    ASSUME NEW q \in Queue, Ordered(q), NEW g \in 0 .. MaxGen, NEW ps \in SUBSET Paths,
           NEW graced \in BOOLEAN, g # 0 => ps = {}
    PROVE  /\ Push(q, g, ps, graced) \in Queue
           /\ Ordered(Push(q, g, ps, graced))
           /\ Push(q, g, ps, graced).next >= q.next
           /\ Entries(Push(q, g, ps, graced)) =
                Entries(q) \cup {[seq |-> q.next, gen |-> g, paths |-> ps, graced |-> graced]}
<1> DEFINE e == [seq |-> q.next, gen |-> g, paths |-> ps, graced |-> graced]
           n == Len(q.pending)
           p == Push(q, g, ps, graced)
<1>1. q.pending \in Seq(GcEntry) /\ q.next \in Nat \ {0} /\ n \in Nat
  BY DEF Queue
<1>2. e \in GcEntry
  BY <1>1 DEF GcEntry
<1>3. p.pending = Append(q.pending, e) /\ p.next = q.next + 1
  BY DEF Push
<1>4. p \in Queue
  BY <1>1, <1>2 DEF Push, Queue
<1>5. /\ Len(p.pending) = n + 1 /\ p.pending[n + 1] = e
      /\ \A i \in 1 .. n : p.pending[i] = q.pending[i]
  BY <1>1, <1>2, <1>3
<1>6. Ordered(p)
  <2>1. \A i \in 1 .. n : q.pending[i].seq \in Nat /\ q.pending[i].seq < q.next
    <3>1. \A i \in 1 .. n : q.pending[i] \in GcEntry
      BY <1>1
    <3>. QED
      BY <3>1 DEF Ordered, GcEntry
  <2>2. \A i \in 1 .. n + 1 : p.pending[i].seq < p.next
    BY <1>1, <1>3, <1>5, <2>1
  <2>3. ASSUME NEW i \in 1 .. n + 1, NEW j \in 1 .. n + 1, i < j
        PROVE  p.pending[i].seq < p.pending[j].seq
    <3>1. i \in 1 .. n
      BY <1>1, <2>3
    <3>2. CASE j = n + 1
      BY <1>1, <1>5, <2>1, <3>1, <3>2
    <3>3. CASE j \in 1 .. n
      BY <1>5, <2>3, <3>1, <3>3 DEF Ordered
    <3>. QED
      BY <1>1, <3>2, <3>3
  <2>. QED
    BY <1>5, <2>2, <2>3 DEF Ordered
<1>7. Entries(p) = Entries(q) \cup {e}
  <2>1. \A x : x \in Entries(p) <=> \E i \in 1 .. n + 1 : x = p.pending[i]
    BY <1>5 DEF Entries
  <2>2. \A x : x \in Entries(q) <=> \E i \in 1 .. n : x = q.pending[i]
    BY DEF Entries
  <2>3. \A i \in 1 .. n + 1 : i \in 1 .. n \/ i = n + 1
    BY <1>1
  <2>4. n + 1 \in 1 .. n + 1 /\ \A i \in 1 .. n : i \in 1 .. n + 1
    BY <1>1
  <2>. QED
    BY <1>5, <2>1, <2>2, <2>3, <2>4
<1>. QED
  BY <1>1, <1>3, <1>4, <1>6, <1>7

(* The queue grew: what it held is there, and each new entry has a new     *)
(* number, a generation of G and paths of P.                               *)
Grown(q, r, G, P) ==
    /\ r \in Queue /\ Ordered(r) /\ r.next >= q.next
    /\ Entries(q) \subseteq Entries(r)
    /\ \A e \in Entries(r) \ Entries(q) :
         e.seq >= q.next /\ e.gen \in G /\ e.paths \subseteq P

LEMMA EntriesType ==
    ASSUME NEW q \in Queue
    PROVE  /\ Entries(q) \subseteq GcEntry
           /\ \A e \in Entries(q) : /\ e.seq \in Nat /\ e.seq # 0 /\ e.gen \in 0 .. MaxGen
                                     /\ e.paths \subseteq Paths /\ (e.gen # 0 => e.paths = {})
           /\ q.next \in Nat \ {0} /\ q.pending \in Seq(GcEntry) /\ Len(q.pending) \in Nat
<1>1. q.pending \in Seq(GcEntry) /\ q.next \in Nat \ {0}
  BY DEF Queue
<1>2. Entries(q) \subseteq GcEntry
  BY <1>1 DEF Entries
<1>3. \A e \in GcEntry : /\ e.seq \in Nat /\ e.seq # 0 /\ e.gen \in 0 .. MaxGen
                         /\ e.paths \subseteq Paths /\ (e.gen # 0 => e.paths = {})
  BY DEF GcEntry
<1>. QED
  BY <1>1, <1>2, <1>3

LEMMA GrownTransitive ==
    ASSUME NEW q \in Queue, NEW r, NEW t, NEW G, NEW P, NEW H, NEW O,
           Grown(q, r, G, P), Grown(r, t, H, O)
    PROVE  Grown(q, t, G \cup H, P \cup O)
<1>1. r \in Queue /\ t \in Queue
  BY DEF Grown
<1>2. q.next \in Nat /\ r.next \in Nat /\ t.next \in Nat /\ \A e \in Entries(t) : e.seq \in Nat
  BY <1>1, EntriesType
<1>3. t.next >= q.next
  BY <1>2 DEF Grown
<1>4. ASSUME NEW e \in Entries(t) \ Entries(q)
      PROVE  e.seq >= q.next /\ e.gen \in G \cup H /\ e.paths \subseteq P \cup O
  <2>1. CASE e \in Entries(r)
    BY <2>1 DEF Grown
  <2>2. CASE e \notin Entries(r)
    BY <1>2, <2>2 DEF Grown
  <2>. QED
    BY <2>1, <2>2
<1>. QED
  BY <1>3, <1>4 DEF Grown

LEMMA GrownNot ==
    ASSUME NEW q \in Queue, Ordered(q), NEW G, NEW P
    PROVE  Grown(q, q, G, P)
<1>1. q.next \in Nat
  BY EntriesType
<1>. QED
  BY <1>1 DEF Grown

LEMMA PushGrows ==
    ASSUME NEW q \in Queue, Ordered(q), NEW g \in 0 .. MaxGen, NEW ps \in SUBSET Paths,
           NEW graced \in BOOLEAN, g # 0 => ps = {}
    PROVE  Grown(q, Push(q, g, ps, graced), {g}, ps)
<1> DEFINE e == [seq |-> q.next, gen |-> g, paths |-> ps, graced |-> graced]
           p == Push(q, g, ps, graced)
<1>1. p \in Queue /\ Ordered(p) /\ p.next >= q.next /\ Entries(p) = Entries(q) \cup {e}
  BY PushOrdered
<1>2. q.next \in Nat
  BY EntriesType
<1>. QED
  BY <1>1, <1>2 DEF Grown

LEMMA EachGrows ==
    ASSUME NEW q \in Queue, Ordered(q), NEW ps \in SUBSET Paths, NEW graced \in BOOLEAN,
           NEW order \in Seq(ps)
    PROVE  Grown(q, EnqueueEach(q, order, graced), {0}, ps)
<1> DEFINE m == Len(order)
           n == Len(q.pending)
           new(i) == [seq |-> q.next + i - 1, gen |-> 0, paths |-> {order[i]}, graced |-> graced]
           N == [i \in 1 .. m |-> new(i)]
           r == EnqueueEach(q, order, graced)
<1>1. /\ q.pending \in Seq(GcEntry) /\ q.next \in Nat \ {0} /\ n \in Nat /\ m \in Nat
      /\ MaxGen \in Nat
  BY EntriesType, ColdConstants
<1>2. \A i \in 1 .. m : new(i) \in GcEntry /\ new(i).seq = q.next + i - 1 /\ order[i] \in ps
  BY <1>1 DEF GcEntry
<1>3. N \in Seq(GcEntry) /\ Len(N) = m /\ \A i \in 1 .. m : N[i] = new(i)
  BY <1>1, <1>2
<1>4. r.pending = q.pending \o N /\ r.next = q.next + m /\ r = [pending |-> r.pending, next |-> r.next]
  BY DEF EnqueueEach
<1> HIDE DEF N, r
<1>5. /\ r.pending \in Seq(GcEntry) /\ Len(r.pending) = n + m
      /\ \A i \in 1 .. n : r.pending[i] = q.pending[i]
      /\ \A i \in n + 1 .. n + m : r.pending[i] = N[i - n]
  <2>1. /\ r.pending \in Seq(GcEntry) /\ Len(r.pending) = n + m
        /\ \A i \in 1 .. n + m :
             r.pending[i] = IF i <= n THEN q.pending[i] ELSE N[i - n]
    <3>1. /\ q.pending \o N \in Seq(GcEntry)
          /\ Len(q.pending \o N) = Len(q.pending) + Len(N)
          /\ \A i \in 1 .. Len(q.pending) + Len(N) : (q.pending \o N)[i] =
               IF i <= Len(q.pending) THEN q.pending[i] ELSE N[i - Len(q.pending)]
      <4>1. q.pending \in Seq(GcEntry) /\ N \in Seq(GcEntry)
        BY <1>1, <1>3
      <4>. QED
        BY ONLY <4>1, ConcatProperties
    <3>. QED
      BY <1>3, <1>4, <3>1
  <2>2. /\ \A i \in 1 .. n : i \in 1 .. n + m /\ i <= n
        /\ \A i \in n + 1 .. n + m : i \in 1 .. n + m /\ ~(i <= n)
    BY <1>1
  <2>. QED
    BY <2>1, <2>2
<1>6. \A i \in n + 1 .. n + m : i - n \in 1 .. m /\ r.pending[i] = new(i - n)
                                 /\ r.pending[i].seq = q.next + (i - n) - 1
  <2>1. \A i \in n + 1 .. n + m : i - n \in 1 .. m
    BY <1>1
  <2>. QED
    BY <1>2, <1>3, <1>5, <2>1
<1>65. q.next + m \in Nat /\ r.next = q.next + m /\ r.next \in Nat \ {0} /\ q.next \in Nat
  BY <1>1, <1>4
<1> HIDE DEF n, m, new
<1>7. \A i \in 1 .. n : r.pending[i].seq \in Nat /\ r.pending[i].seq < q.next
  <2>1. \A i \in 1 .. n : q.pending[i] \in GcEntry
    BY <1>1 DEF n
  <2>. QED
    BY <1>5, <2>1 DEF Ordered, GcEntry, n
<1>8. Ordered(r)
  <2>1. \A i \in 1 .. n + m : i \in 1 .. n \/ i \in n + 1 .. n + m
    BY <1>1
  <2>2. \A i \in 1 .. n + m : r.pending[i].seq < r.next
    <3>1. \A i \in 1 .. n : r.pending[i].seq < r.next
      BY <1>1, <1>65, <1>7
    <3>2. \A i \in n + 1 .. n + m : r.pending[i].seq < r.next
      BY <1>1, <1>6, <1>65
    <3>. QED
      BY <2>1, <3>1, <3>2
  <2>3. ASSUME NEW i \in 1 .. n + m, NEW j \in 1 .. n + m, i < j
        PROVE  r.pending[i].seq < r.pending[j].seq
    <3>1. CASE j \in 1 .. n
      <4>1. i \in 1 .. n
        BY <1>1, <2>3, <3>1
      <4>. QED
        BY <1>5, <2>3, <3>1, <4>1 DEF Ordered, n
    <3>2. CASE j \in n + 1 .. n + m /\ i \in 1 .. n
      BY <1>1, <1>6, <1>7, <3>2
    <3>3. CASE j \in n + 1 .. n + m /\ i \in n + 1 .. n + m
      BY <1>1, <1>6, <2>3, <3>3
    <3>. QED
      BY <2>1, <3>1, <3>2, <3>3
  <2>. QED
    BY <1>5, <2>2, <2>3 DEF Ordered
<1>9. r \in Queue /\ r.next >= q.next
  <2>1. r \in Queue
    BY <1>4, <1>5, <1>65 DEF Queue
  <2>. QED
    BY <1>1, <1>65, <2>1
<1>10. Entries(q) \subseteq Entries(r)
  <2>1. \A i \in 1 .. n : i \in 1 .. Len(r.pending)
    BY <1>1, <1>5
  <2>. QED
    BY <1>5, <2>1 DEF Entries, n
<1>11. ASSUME NEW e \in Entries(r) \ Entries(q)
       PROVE  e.seq >= q.next /\ e.gen \in {0} /\ e.paths \subseteq ps
  <2>1. PICK i \in 1 .. n + m : e = r.pending[i]
    BY <1>5 DEF Entries
  <2>2. i \notin 1 .. n
    BY <1>5, <1>11, <2>1 DEF Entries, n
  <2>3. i \in n + 1 .. n + m
    BY <1>1, <2>1, <2>2
  <2>4. e = new(i - n) /\ i - n \in 1 .. m /\ e.seq = q.next + (i - n) - 1
    BY <1>6, <2>1, <2>3
  <2>5. e.gen = 0 /\ e.paths = {order[i - n]}
    BY <2>4 DEF new
  <2>6. order[i - n] \in ps
    BY <1>2, <2>4
  <2>7. e.seq >= q.next
    BY <1>1, <2>4
  <2>. QED
    BY <2>5, <2>6, <2>7
<1>. QED
  BY <1>8, <1>9, <1>10, <1>11 DEF Grown, r

(* The queue moved: what it holds was there or has a new number. *)
Moved(q, r) ==
    /\ r \in Queue /\ Ordered(r) /\ r.next >= q.next
    /\ \A e \in Entries(r) : e \in Entries(q) \/ e.seq >= q.next

LEMMA AckPops ==
    ASSUME NEW q \in Queue, Ordered(q), NEW u \in Nat
    PROVE  /\ Moved(q, Ack(q, u))
           /\ Entries(Ack(q, u)) \subseteq Entries(q)
           /\ \A e \in Entries(q) \ Entries(Ack(q, u)) : e.seq <= u
<1> DEFINE n == Len(q.pending)
           popped == {k \in 0 .. n : \A i \in 1 .. k : q.pending[i].seq <= u}
           k == CHOOSE m \in popped : \A j \in popped : j <= m
           r == Ack(q, u)
<1>1. q.pending \in Seq(GcEntry) /\ q.next \in Nat \ {0} /\ n \in Nat
  BY EntriesType
<1>2. popped \subseteq 0 .. n /\ 0 \in popped
  BY <1>1
<1>3. \E m \in popped : \A j \in popped : j <= m
  <2> DEFINE up == {x \in Nat : x \in 0 .. n /\ n - x \in popped}
  <2>1. n \in up /\ up \in SUBSET Nat
    BY <1>1, <1>2
  <2>2. PICK x \in up : \A y \in up : x <= y
    <3> HIDE DEF up
    <3>. QED
      BY <2>1, SmallestExists
  <2>3. n - x \in popped
    BY <2>2
  <2>4. ASSUME NEW j \in popped PROVE j <= n - x
    <3>1. n - j \in up
      BY <1>1, <1>2
    <3>2. x <= n - j
      BY <2>2, <3>1
    <3>. QED
      BY <1>1, <1>2, <2>2, <3>2
  <2>. QED
    BY <2>3, <2>4
<1>4. k \in popped
  <2> HIDE DEF popped
  <2>. QED
    BY <1>3
<1>5. k \in 0 .. n /\ \A i \in 1 .. k : q.pending[i].seq <= u
  BY <1>4
<1>6. r = [q EXCEPT !.pending = SubSeq(q.pending, k + 1, n)]
  BY DEF Ack
<1> HIDE DEF k, popped, r
<1>7. r \in Queue /\ r.next = q.next /\ r.pending = SubSeq(q.pending, k + 1, n)
  <2>1. SubSeq(q.pending, k + 1, n) \in Seq(GcEntry)
    BY <1>1, <1>5
  <2>2. q = [pending |-> q.pending, next |-> q.next]
    BY DEF Queue
  <2>3. r = [pending |-> SubSeq(q.pending, k + 1, n), next |-> q.next]
    BY <1>6, <2>2
  <2>. QED
    BY <1>1, <2>1, <2>3 DEF Queue
<1>8. Len(r.pending) = n - k /\ \A i \in 1 .. n - k : r.pending[i] = q.pending[k + i] /\ k + i \in 1 .. n
  BY <1>1, <1>5, <1>7
<1>9. Ordered(r)
  <2>1. ASSUME NEW i \in 1 .. n - k, NEW j \in 1 .. n - k, i < j
        PROVE  r.pending[i].seq < r.pending[j].seq
    <3>1. k + i < k + j
      BY <1>1, <1>5, <2>1
    <3>. QED
      BY <1>8, <3>1 DEF Ordered
  <2>2. \A i \in 1 .. n - k : r.pending[i].seq < r.next
    BY <1>7, <1>8 DEF Ordered
  <2>. QED
    BY <1>8, <2>1, <2>2 DEF Ordered
<1>10. Entries(r) \subseteq Entries(q)
  BY <1>8 DEF Entries
<1>11. ASSUME NEW e \in Entries(q) \ Entries(r) PROVE e.seq <= u
  <2>1. PICK i \in 1 .. n : e = q.pending[i]
    BY DEF Entries
  <2>2. CASE i <= k
    <3>1. i \in 1 .. k
      BY <1>1, <1>5, <2>1, <2>2
    <3>. QED
      BY <1>5, <2>1, <3>1
  <2>3. CASE ~(i <= k)
    <3>1. i - k \in 1 .. n - k /\ k + (i - k) = i
      BY <1>1, <1>5, <2>1, <2>3
    <3>2. e = r.pending[i - k]
      BY <1>8, <2>1, <3>1
    <3>3. e \in Entries(r)
      BY <1>8, <3>1, <3>2 DEF Entries
    <3>. QED
      BY <1>11, <3>3
  <2>. QED
    BY <2>2, <2>3
<1>12. r.next >= q.next
  BY <1>1, <1>7
<1>. QED
  BY <1>7, <1>9, <1>10, <1>11, <1>12 DEF Moved, r



LEMMA DropOrdered ==
    ASSUME NEW q \in Queue, Ordered(q), NEW i \in 1 .. Len(q.pending), NEW d,
           d = [q EXCEPT !.pending = SubSeq(q.pending, 1, i - 1)
                                     \o SubSeq(q.pending, i + 1, Len(q.pending))]
    PROVE  /\ d \in Queue /\ Ordered(d) /\ d.next = q.next
           /\ Entries(d) = {q.pending[j] : j \in 1 .. Len(q.pending) \ {i}}
<1> DEFINE n == Len(q.pending)
           a == SubSeq(q.pending, 1, i - 1)
           b == SubSeq(q.pending, i + 1, n)
<1>1. q.pending \in Seq(GcEntry) /\ q.next \in Nat \ {0} /\ n \in Nat /\ i \in Int
  BY EntriesType
<1>2. a \in Seq(GcEntry) /\ Len(a) = i - 1 /\ \A j \in 1 .. i - 1 : a[j] = q.pending[j]
  BY <1>1
<1>3. b \in Seq(GcEntry) /\ Len(b) = n - i /\ \A j \in 1 .. n - i : b[j] = q.pending[i + j]
  BY <1>1
<1>4. q = [pending |-> q.pending, next |-> q.next]
  BY DEF Queue
<1>5. d = [pending |-> a \o b, next |-> q.next]
  BY <1>4
<1>6. /\ a \o b \in Seq(GcEntry) /\ Len(a \o b) = Len(a) + Len(b)
      /\ \A j \in 1 .. Len(a) + Len(b) : (a \o b)[j] = IF j <= Len(a) THEN a[j] ELSE b[j - Len(a)]
  <2>1. a \in Seq(GcEntry) /\ b \in Seq(GcEntry)
    BY <1>2, <1>3
  <2> HIDE DEF a, b
  <2>. QED
    BY ONLY <2>1, ConcatProperties
<1>7. d \in Queue /\ d.next = q.next /\ d.pending = a \o b
  BY <1>1, <1>5, <1>6 DEF Queue
<1> DEFINE at(j) == IF j < i THEN j ELSE j + 1
<1> HIDE DEF a, b, n
<1>8. n = Len(q.pending) /\ i \in 1 .. n
  BY DEF n
<1>9. /\ Len(d.pending) = n - 1
      /\ \A j \in 1 .. n - 1 : d.pending[j] = q.pending[at(j)] /\ at(j) \in 1 .. n /\ at(j) # i
  <2>1. Len(d.pending) = n - 1
    <3>1. Len(d.pending) = (i - 1) + (n - i)
      BY <1>2, <1>3, <1>6, <1>7
    <3>. QED
      BY <1>1, <1>8, <3>1
  <2>2. ASSUME NEW j \in 1 .. n - 1
        PROVE  d.pending[j] = q.pending[at(j)] /\ at(j) \in 1 .. n /\ at(j) # i
    <3>1. at(j) \in 1 .. n /\ at(j) # i
      BY <1>1, <1>8
    <3>2. j \in 1 .. Len(a) + Len(b)
      BY <1>1, <1>2, <1>3, <1>8
    <3>3. CASE j < i
      <4>1. j \in 1 .. i - 1 /\ j <= Len(a)
        BY <1>1, <1>2, <1>8, <3>3
      <4>. QED
        BY <1>2, <1>6, <1>7, <3>1, <3>2, <3>3, <4>1
    <3>4. CASE ~(j < i)
      <4>1. j - (i - 1) \in 1 .. n - i /\ ~(j <= Len(a)) /\ i + (j - (i - 1)) = j + 1
        BY <1>1, <1>2, <1>8, <3>4
      <4>2. d.pending[j] = b[j - (i - 1)]
        BY <1>2, <1>6, <1>7, <3>2, <4>1
      <4>. QED
        BY <1>3, <3>1, <3>4, <4>1, <4>2
    <3>. QED
      BY <3>3, <3>4
  <2>. QED
    BY <2>1, <2>2
<1>10. Ordered(d)
  <2>1. ASSUME NEW j \in 1 .. n - 1, NEW k \in 1 .. n - 1, j < k
        PROVE  d.pending[j].seq < d.pending[k].seq
    <3>1. at(j) < at(k)
      BY <1>1, <1>8, <2>1
    <3>2. at(j) \in 1 .. n /\ at(k) \in 1 .. n /\ d.pending[j] = q.pending[at(j)]
          /\ d.pending[k] = q.pending[at(k)]
      BY <1>9
    <3> HIDE DEF at
    <3>. QED
      BY <1>8, <3>1, <3>2 DEF Ordered
  <2>2. ASSUME NEW j \in 1 .. n - 1 PROVE d.pending[j].seq < d.next
    <3>1. at(j) \in 1 .. n /\ d.pending[j] = q.pending[at(j)]
      BY <1>9
    <3> HIDE DEF at
    <3>. QED
      BY <1>7, <1>8, <3>1 DEF Ordered
  <2>. QED
    BY <1>9, <2>1, <2>2 DEF Ordered
<1>11. Entries(d) = {q.pending[j] : j \in 1 .. n \ {i}}
  <2>1. ASSUME NEW e \in Entries(d) PROVE e \in {q.pending[j] : j \in 1 .. n \ {i}}
    <3>1. PICK j \in 1 .. n - 1 : e = d.pending[j]
      BY <1>9 DEF Entries
    <3>2. e = q.pending[at(j)] /\ at(j) \in 1 .. n \ {i}
      BY <1>9, <3>1
    <3> HIDE DEF at
    <3>. QED
      BY <3>2
  <2>2. ASSUME NEW j \in 1 .. n \ {i} PROVE q.pending[j] \in Entries(d)
    <3> DEFINE k == IF j < i THEN j ELSE j - 1
    <3>1. k \in 1 .. n - 1 /\ at(k) = j
      BY <1>1, <1>8
    <3>2. d.pending[k] = q.pending[j]
      BY <1>9, <3>1
    <3> HIDE DEF k
    <3>. QED
      BY <1>9, <3>1, <3>2 DEF Entries
  <2>. QED
    BY <2>1, <2>2
<1>. QED
  BY <1>7, <1>8, <1>10, <1>11

LEMMA DeferMoves ==
    ASSUME NEW q \in Queue, Ordered(q), NEW seq \in Nat
    PROVE  /\ Moved(q, Defer(q, seq))
           /\ \A e \in Entries(q) : \E f \in Entries(Defer(q, seq)) : SameTarget(e, f)
           /\ \A e \in Entries(Defer(q, seq)) :
                \/ e \in Entries(q) /\ e.seq # seq
                \/ e.seq >= q.next /\ \E f \in Entries(q) : SameTarget(e, f)
<1> DEFINE n == Len(q.pending)
           at == {i \in 1 .. n : q.pending[i].seq = seq}
           r == Defer(q, seq)
<1>1. /\ q.next \in Nat /\ n \in Nat /\ \A i \in 1 .. n : q.pending[i] \in Entries(q)
  BY EntriesType DEF Entries
<1>2. CASE at = {}
  <2>1. r = q
    BY <1>2 DEF Defer
  <2>2. \A e \in Entries(q) : e.seq # seq
    BY <1>2 DEF Entries
  <2>. QED
    BY <1>1, <2>1, <2>2 DEF Moved, SameTarget
<1>3. CASE at # {}
  <2> DEFINE i == CHOOSE j \in at : TRUE
             e == q.pending[i]
             d == [q EXCEPT !.pending = SubSeq(q.pending, 1, i - 1)
                                        \o SubSeq(q.pending, i + 1, Len(q.pending))]
             f == [seq |-> d.next, gen |-> e.gen, paths |-> e.paths, graced |-> TRUE]
  <2>1. i \in at
    BY <1>3
  <2>2. i \in 1 .. Len(q.pending) /\ e.seq = seq /\ e \in Entries(q)
    BY <1>1, <2>1
  <2>3. r = Push(d, e.gen, e.paths, TRUE)
    BY <1>3 DEF Defer
  <2> HIDE DEF i, r
  <2>4. /\ d \in Queue /\ Ordered(d) /\ d.next = q.next
        /\ Entries(d) = {q.pending[j] : j \in 1 .. Len(q.pending) \ {i}}
    <3> HIDE DEF d
    <3>1. d = [q EXCEPT !.pending = SubSeq(q.pending, 1, i - 1)
                                    \o SubSeq(q.pending, i + 1, Len(q.pending))]
      BY DEF d
    <3>. QED
      BY <2>2, <3>1, DropOrdered
  <2> HIDE DEF d, e
  <2>5. e.gen \in 0 .. MaxGen /\ e.paths \in SUBSET Paths /\ (e.gen # 0 => e.paths = {})
    BY <2>2, EntriesType
  <2>6. /\ r \in Queue /\ Ordered(r) /\ r.next >= d.next /\ Entries(r) = Entries(d) \cup {f}
    BY <2>3, <2>4, <2>5, PushOrdered
  <2>7. f.seq = q.next /\ SameTarget(e, f) /\ SameTarget(f, e)
    BY <2>4 DEF SameTarget
  <2>8. ASSUME NEW x \in Entries(d) PROVE x \in Entries(q) /\ x.seq # seq
    <3>1. PICK j \in 1 .. Len(q.pending) \ {i} : x = q.pending[j]
      BY <2>4
    <3>2. j < i \/ i < j
      BY <1>1, <2>2
    <3>3. x.seq < e.seq \/ e.seq < x.seq
      BY <2>2, <3>1, <3>2 DEF Ordered, e
    <3>4. x \in Entries(q) /\ x.seq \in Nat /\ e.seq \in Nat
      BY <1>1, <2>2, <3>1, EntriesType
    <3>. QED
      BY <2>2, <3>3, <3>4
  <2>9. ASSUME NEW x \in Entries(q) PROVE \E y \in Entries(r) : SameTarget(x, y)
    <3>1. PICK j \in 1 .. Len(q.pending) : x = q.pending[j]
      BY DEF Entries
    <3>2. CASE j = i
      BY <2>6, <2>7, <3>1, <3>2 DEF e
    <3>3. CASE j # i
      BY <2>4, <2>6, <3>1, <3>3 DEF SameTarget
    <3>. QED
      BY <3>2, <3>3
  <2>10. f.seq >= q.next /\ r.next >= q.next
    BY <1>1, <2>4, <2>6, <2>7
  <2> HIDE DEF f
  <2>11. \A x \in Entries(r) : \/ x \in Entries(q) /\ x.seq # seq
                               \/ x.seq >= q.next /\ \E y \in Entries(q) : SameTarget(x, y)
    BY <2>2, <2>6, <2>7, <2>8, <2>10
  <2>12. Moved(q, r)
    BY <2>6, <2>10, <2>11 DEF Moved
  <2>. QED
    BY <2>9, <2>11, <2>12 DEF r
<1>. QED
  BY <1>2, <1>3


---------------------------------------------------------------------------
(* What the workers compute.                                               *)

LEMMA LargestExists ==
    ASSUME NEW n \in Nat, NEW S \in SUBSET (0 .. n), S # {}
    PROVE  \E m \in S : \A k \in S : k <= m
<1> DEFINE up == {x \in Nat : x \in 0 .. n /\ n - x \in S}
<1>1. PICK k \in S : TRUE
  OBVIOUS
<1>2. n - k \in up /\ up \in SUBSET Nat
  BY <1>1
<1>3. PICK x \in up : \A y \in up : x <= y
  <2> HIDE DEF up
  <2>. QED
    BY <1>2, SmallestExists
<1>4. n - x \in S /\ x \in 0 .. n
  BY <1>3
<1>5. ASSUME NEW j \in S PROVE j <= n - x
  <2>1. n - j \in up
    OBVIOUS
  <2>2. x <= n - j
    BY <1>3, <2>1
  <2>. QED
    BY <1>4, <2>2
<1>. QED
  BY <1>4, <1>5

LEMMA MinType ==
    ASSUME NEW S \in SUBSET Nat, S # {}
    PROVE  Min(S) \in S /\ \A n \in S : Min(S) <= n
<1>1. \E m \in S : \A n \in S : m <= n
  BY SmallestExists
<1>. QED
  BY <1>1 DEF Min

LEMMA MaxType ==
    ASSUME NEW n \in Nat, NEW S \in SUBSET (0 .. n), S # {}
    PROVE  Max(S) \in S /\ \A k \in S : k <= Max(S)
<1>1. \E m \in S : \A k \in S : k <= m
  BY LargestExists
<1>. QED
  BY <1>1 DEF Max

LEMMA RefMade ==
    ASSUME NEW a \in 0 .. MaxTail, NEW b \in 0 .. MaxTail, a < b, NEW p \in Paths,
           NEW x \in BOOLEAN
    PROVE  /\ [start |-> a, end |-> b, path |-> p] \in Ref
           /\ Entry([start |-> a, end |-> b, path |-> p], x) \in PageEntry
           /\ Entry([start |-> a, end |-> b, path |-> p], x).path = p
<1>1. <<a, b>> \in Ranges /\ <<a, b>>[1] = a /\ <<a, b>>[2] = b
  BY DEF Ranges
<1>2. [start |-> a, end |-> b, path |-> p] \in Ref
  BY <1>1 DEF Ref
<1>. QED
  BY <1>2 DEF PageEntry, Entry

LEMMA RefType ==
    /\ \A r \in Ref : /\ r.start \in 0 .. MaxTail /\ r.end \in 0 .. MaxTail
                      /\ r.start < r.end /\ r.path \in Paths
    /\ \A r \in PageEntry : /\ r.start \in 0 .. MaxTail /\ r.end \in 0 .. MaxTail
                            /\ r.start < r.end /\ r.path \in Paths
<1>1. ASSUME NEW r \in Ref
      PROVE  /\ r.start \in 0 .. MaxTail /\ r.end \in 0 .. MaxTail
             /\ r.start < r.end /\ r.path \in Paths
  <2>1. PICK q \in Ranges, p \in Paths : r = [start |-> q[1], end |-> q[2], path |-> p]
    BY DEF Ref
  <2>2. q[1] \in 0 .. MaxTail /\ q[2] \in 0 .. MaxTail /\ q[1] < q[2]
    BY DEF Ranges
  <2>. QED
    BY <2>1, <2>2
<1>2. ASSUME NEW r \in PageEntry
      PROVE  /\ r.start \in 0 .. MaxTail /\ r.end \in 0 .. MaxTail
             /\ r.start < r.end /\ r.path \in Paths
  <2>1. PICK q \in Ref, x \in BOOLEAN : r = Entry(q, x)
    BY DEF PageEntry
  <2>2. r.start = q.start /\ r.end = q.end /\ r.path = q.path
    BY <2>1 DEF Entry
  <2>. QED
    BY <1>1, <2>2
<1>. QED
  BY <1>1, <1>2

LEMMA HotStartType ==
    ASSUME SlotOK, NEW s \in Streams
    PROVE  HotStart(s) \in 0 .. slot[s].tail /\ slot[s].tail \in 0 .. MaxTail /\ slot[s].gen \in 0 .. MaxGen
<1>1. slot[s] \in Slot /\ slot[s].hot \subseteq 0 .. slot[s].tail - 1
  BY DEF SlotOK
<1>2. slot[s].tail \in 0 .. MaxTail /\ slot[s].gen \in 0 .. MaxGen
  BY <1>1 DEF Slot
<1>3. CASE slot[s].hot = {}
  BY <1>2, <1>3 DEF HotStart
<1>4. CASE slot[s].hot # {}
  <2>1. slot[s].hot \in SUBSET Nat
    BY <1>1, <1>2
  <2>2. Min(slot[s].hot) \in slot[s].hot
    BY <1>4, <2>1, MinType
  <2>. QED
    BY <1>1, <1>2, <1>4, <2>2 DEF HotStart
<1>. QED
  BY <1>2, <1>3, <1>4

LEMMA PrefixType ==
    ASSUME SlotOK, NEW s \in Streams, NEW cap \in Int
    PROVE  Prefix(s, cap) \in Plan
<1> DEFINE start == HotStart(s)
           M == Min({slot[s].tail, start + cap})
           ends == {n \in start + 1 .. M : start .. n - 1 \subseteq slot[s].hot}
           end == IF ends = {} THEN start ELSE Max(ends)
<1>1. start \in 0 .. slot[s].tail /\ slot[s].tail \in 0 .. MaxTail /\ slot[s].gen \in 0 .. MaxGen
  BY HotStartType
<1>2. MaxTail \in Nat
  BY ColdConstants
<1> HIDE DEF start
<1>3. M \in Int /\ M <= slot[s].tail
  <2>1. slot[s].tail \in Int /\ start + cap \in Int
    BY <1>1
  <2>2. \E x \in {slot[s].tail, start + cap} : \A y \in {slot[s].tail, start + cap} : x <= y
    BY <2>1
  <2>. QED
    BY <2>1, <2>2 DEF Min
<1> HIDE DEF M
<1>4. ends \in SUBSET (0 .. MaxTail)
  BY <1>1, <1>2, <1>3
<1> HIDE DEF ends
<1>5. end \in 0 .. MaxTail
  <2>1. CASE ends = {}
    BY <1>1, <1>2, <2>1
  <2>2. CASE ends # {}
    BY <1>2, <1>4, <2>2, MaxType
  <2>. QED
    BY <2>1, <2>2
<1>6. Prefix(s, cap) = [stream |-> s, gen |-> slot[s].gen, start |-> start, end |-> end]
  BY DEF Prefix, start, M, ends
<1> HIDE DEF end
<1>7. start \in 0 .. MaxTail
  BY <1>1, <1>2
<1>. QED
  BY <1>1, <1>5, <1>6, <1>7 DEF Plan

LEMMA PayloadFinite ==
    ASSUME NEW t \in Seq(Plan)
    PROVE  /\ Payload(t) \in SUBSET ((0 .. MaxGen) \X (0 .. MaxTail))
           /\ Cardinality(Payload(t)) \in Nat
<1>1. Payload(t) \in SUBSET ((0 .. MaxGen) \X (0 .. MaxTail))
  <2>1. ASSUME NEW b \in Payload(t) PROVE b \in (0 .. MaxGen) \X (0 .. MaxTail)
    <3>1. PICK i \in DOMAIN t : b \in BytesOf(t[i].gen, t[i])
      BY DEF Payload
    <3>2. t[i] \in Plan
      BY <3>1
    <3>3. t[i].gen \in 0 .. MaxGen /\ t[i].start \in 0 .. MaxTail /\ t[i].end \in 0 .. MaxTail
      BY <3>2 DEF Plan
    <3>4. PICK o \in t[i].start .. t[i].end - 1 : b = <<t[i].gen, o>>
      BY <3>1 DEF BytesOf, Span
    <3>5. o \in 0 .. MaxTail
      BY <3>3, ColdConstants
    <3>. QED
      BY <3>3, <3>4, <3>5
  <2>. QED
    BY <2>1
<1>2. IsFiniteSet(0 .. MaxGen) /\ IsFiniteSet(0 .. MaxTail)
  <2>1. 0 \in Int /\ MaxGen \in Int /\ MaxTail \in Int
    BY ColdConstants
  <2>. QED
    BY ONLY <2>1, FS_Interval
<1>3. IsFiniteSet((0 .. MaxGen) \X (0 .. MaxTail))
  BY <1>2, FS_Product
<1>4. IsFiniteSet(Payload(t))
  BY <1>1, <1>3, FS_Subset
<1>. QED
  BY <1>1, <1>4, FS_CardinalityType


(* The plan of a pass is a recursive function of the number of candidates: *)
(* there is one such function, so each value is what the definition says.  *)
Extended(order, i, t) ==
    Append(t, Prefix(order[i], MaxFlush - Cardinality(Payload(t))))

Passes(g, k, order) ==
    /\ g[0] = <<>>
    /\ \A i \in Nat : i < k => g[i + 1] = Extended(order, i + 1, g[i])

LEMMA PassesAgree ==
    ASSUME NEW order, NEW g, NEW h, NEW k \in Nat, NEW m \in Nat,
           Passes(g, k, order), Passes(h, m, order)
    PROVE  \A i \in Nat : i <= k /\ i <= m => g[i] = h[i]
<1> DEFINE bad == {i \in Nat : i <= k /\ i <= m /\ g[i] # h[i]}
<1>1. SUFFICES ASSUME bad # {} PROVE FALSE
  OBVIOUS
<1>2. PICK i \in bad : \A j \in bad : i <= j
  <2> HIDE DEF bad
  <2>1. bad \in SUBSET Nat
    BY DEF bad
  <2>. QED
    BY <1>1, <2>1, SmallestExists
<1>3. i \in Nat /\ i <= k /\ i <= m /\ g[i] # h[i]
  BY <1>2
<1>4. i # 0
  BY <1>3 DEF Passes
<1>5. i - 1 \in Nat /\ i - 1 < k /\ i - 1 < m /\ (i - 1) + 1 = i /\ ~(i <= i - 1)
  BY <1>3, <1>4
<1>6. g[i - 1] = h[i - 1]
  BY <1>2, <1>5
<1>7. g[i] = Extended(order, i, g[i - 1]) /\ h[i] = Extended(order, i, h[i - 1])
  BY <1>5 DEF Passes
<1>. QED
  BY <1>3, <1>6, <1>7

LEMMA PassesExist ==
    ASSUME NEW order, NEW k \in Nat
    PROVE  \E g : Passes(g, k, order)
<1> DEFINE bad == {i \in Nat : ~\E g : Passes(g, i, order)}
<1>1. SUFFICES ASSUME bad # {} PROVE FALSE
  OBVIOUS
<1>2. PICK i \in bad : \A j \in bad : i <= j
  <2> HIDE DEF bad
  <2>1. bad \in SUBSET Nat
    BY DEF bad
  <2>. QED
    BY <1>1, <2>1, SmallestExists
<1>3. i \in Nat /\ ~\E g : Passes(g, i, order)
  BY <1>2
<1>4. i # 0
  <2> DEFINE g == [j \in Nat |-> <<>>]
  <2>1. Passes(g, 0, order)
    BY DEF Passes
  <2>. QED
    BY <1>3, <2>1
<1>5. i - 1 \in Nat /\ ~(i <= i - 1)
  BY <1>3, <1>4
<1>6. PICK g : Passes(g, i - 1, order)
  BY <1>2, <1>5
<1> DEFINE h == [j \in Nat |-> IF j = i THEN Extended(order, i, g[i - 1]) ELSE g[j]]
<1>7. h[0] = <<>>
  BY <1>4, <1>6 DEF Passes
<1>8. ASSUME NEW j \in Nat, j < i PROVE h[j + 1] = Extended(order, j + 1, h[j])
  <2>1. CASE j = i - 1
    BY <2>1, <1>3, <1>5
  <2>2. CASE j # i - 1
    <3>1. j < i - 1 /\ j + 1 # i /\ j # i /\ j + 1 \in Nat
      BY <2>2, <1>3, <1>8
    <3>2. g[j + 1] = Extended(order, j + 1, g[j])
      BY <1>6, <3>1 DEF Passes
    <3>. QED
      BY <3>1, <3>2
  <2>. QED
    BY <2>1, <2>2
<1>9. Passes(h, i, order)
  BY <1>7, <1>8 DEF Passes
<1>. QED
  BY <1>3, <1>9

LEMMA PlannedPasses ==
    ASSUME NEW order
    PROVE  \E g : /\ Planned(order) = g[Len(order)]
                  /\ \A k \in Nat : Passes(g, k, order)
<1> DEFINE part(i) == CHOOSE g : Passes(g, i, order)
           body(f) == [i \in Nat |-> IF i = 0 THEN <<>>
                                     ELSE Extended(order, i, f[i - 1])]
           f == [i \in Nat |-> part(i)[i]]
           plan == CHOOSE g : g = body(g)
<1>1. \A i \in Nat : Passes(part(i), i, order)
  BY PassesExist
<1> HIDE DEF part
<1>2. ASSUME NEW i \in Nat, i # 0 PROVE f[i] = Extended(order, i, f[i - 1])
  <2>1. i - 1 \in Nat /\ i - 1 < i /\ i - 1 <= i - 1 /\ (i - 1) + 1 = i
    BY <1>2
  <2>2. Passes(part(i), i, order) /\ Passes(part(i - 1), i - 1, order)
    BY <1>1, <2>1
  <2>3. part(i)[i] = Extended(order, i, part(i)[i - 1])
    BY <2>1, <2>2 DEF Passes
  <2>4. part(i)[i - 1] = part(i - 1)[i - 1]
    BY <2>1, <2>2, PassesAgree
  <2>. QED
    BY <2>1, <2>3, <2>4
<1>3. f[0] = <<>>
  BY <1>1 DEF Passes
<1>4. f = body(f)
  BY <1>2, <1>3
<1> HIDE DEF f
<1>5. Planned(order) = plan[Len(order)]
  BY DEF Planned, Extended
<1>6. plan = body(plan)
  <2> HIDE DEF body
  <2>. QED
    BY <1>4
<1> HIDE DEF plan
<1>7. plan[0] = <<>> /\ \A i \in Nat : plan[i + 1] = Extended(order, i + 1, plan[i])
  BY <1>6
<1>8. \A k \in Nat : Passes(plan, k, order)
  BY <1>7 DEF Passes
<1>. QED
  BY <1>5, <1>8

LEMMA PlannedType ==
    ASSUME SlotOK, NEW order \in Seq(Streams)
    PROVE  Planned(order) \in Seq(Plan) /\ Len(Planned(order)) = Len(order)
<1>1. PICK g : Planned(order) = g[Len(order)] /\ \A k \in Nat : Passes(g, k, order)
  BY PlannedPasses
<1> DEFINE n == Len(order)
           good(i) == g[i] \in Seq(Plan) /\ Len(g[i]) = i
           bad == {i \in Nat : i <= n /\ ~good(i)}
<1>2. n \in Nat
  OBVIOUS
<1>3. SUFFICES ASSUME bad # {} PROVE FALSE
  BY <1>1, <1>2
<1>4. PICK i \in bad : \A j \in bad : i <= j
  <2> HIDE DEF bad
  <2>1. bad \in SUBSET Nat
    BY DEF bad
  <2>. QED
    BY <1>3, <2>1, SmallestExists
<1>5. i \in Nat /\ i <= n /\ ~good(i)
  BY <1>4
<1>6. i # 0
  <2>1. g[0] = <<>>
    BY <1>1 DEF Passes
  <2>2. good(0)
    BY <2>1
  <2>. QED
    BY <1>5, <2>2
<1>7. i - 1 \in Nat /\ i - 1 <= n /\ i - 1 < i /\ (i - 1) + 1 = i /\ ~(i <= i - 1) /\ i \in 1 .. n
  BY <1>2, <1>5, <1>6
<1>8. good(i - 1)
  BY <1>4, <1>7
<1>9. g[i] = Extended(order, i, g[i - 1])
  BY <1>1, <1>5, <1>7 DEF Passes
<1>10. Prefix(order[i], MaxFlush - Cardinality(Payload(g[i - 1]))) \in Plan
  <2>1. Cardinality(Payload(g[i - 1])) \in Nat
    BY <1>8, PayloadFinite
  <2>2. MaxFlush - Cardinality(Payload(g[i - 1])) \in Int
    BY <2>1, ColdConstants
  <2>3. order[i] \in Streams
    BY <1>7
  <2>. QED
    BY <2>2, <2>3, PrefixType
<1>11. good(i)
  BY <1>7, <1>8, <1>9, <1>10 DEF Extended
<1>. QED
  BY <1>5, <1>11

LEMMA RunBounds ==
    ASSUME NEW run \in (SUBSET Ref) \cup (SUBSET PageEntry), run # {}
    PROVE  /\ First(run) \in 0 .. MaxTail /\ Beyond(run) \in 0 .. MaxTail
           /\ First(run) < Beyond(run)
           /\ First(run) \in {r.start : r \in run}
           /\ PathsOf(run) \subseteq Paths
<1>1. \A r \in run : /\ r.start \in 0 .. MaxTail /\ r.end \in 0 .. MaxTail
                     /\ r.start < r.end /\ r.path \in Paths
  <2>1. CASE run \in SUBSET Ref
    BY <2>1, RefType
  <2>2. CASE run \in SUBSET PageEntry
    BY <2>2, RefType
  <2>. QED
    BY <2>1, <2>2
<1>2. MaxTail \in Nat
  BY ColdConstants
<1> DEFINE S == {r.start : r \in run}
           E == {r.end : r \in run}
<1>3. S \in SUBSET Nat /\ S # {} /\ S \subseteq 0 .. MaxTail
  BY <1>1
<1>4. E \in SUBSET (0 .. MaxTail) /\ E # {}
  BY <1>1
<1>5. PICK r \in run : TRUE
  OBVIOUS
<1>6. r.start \in S /\ r.end \in E
  OBVIOUS
<1> HIDE DEF S, E
<1>7. Min(S) \in S /\ Min(S) <= r.start
  BY <1>3, <1>6, MinType
<1>8. Max(E) \in E /\ r.end <= Max(E)
  BY <1>2, <1>4, <1>6, MaxType
<1>9. First(run) = Min(S) /\ Beyond(run) = Max(E)
  BY DEF First, Beyond, S, E
<1>10. First(run) \in 0 .. MaxTail /\ Beyond(run) \in 0 .. MaxTail
  BY <1>3, <1>4, <1>7, <1>8, <1>9
<1>11. First(run) < Beyond(run)
  BY <1>1, <1>2, <1>5, <1>7, <1>8, <1>9, <1>10
<1>. QED
  BY <1>1, <1>7, <1>9, <1>10, <1>11 DEF PathsOf, S

LEMMA SharedRunType ==
    ASSUME SlotOK, NEW s \in Streams, slot[s].chunks # {}
    PROVE  SharedRun(s) \subseteq slot[s].chunks /\ SharedRun(s) # {}
<1> DEFINE C == slot[s].chunks
<1>1. C \in SUBSET Ref
  BY DEF SlotOK, Slot
<1>2. SharedRun(s) \subseteq C
  BY DEF SharedRun
<1>3. First(C) \in {r.start : r \in C}
  BY <1>1, RunBounds
<1>4. PICK r \in C : First(C) = r.start
  BY <1>3
<1>5. r.start \in 0 .. MaxTail /\ r.end \in 0 .. MaxTail
  BY <1>1, RefType
<1>6. {x.start : x \in {r}} = {r.start} /\ {x.end : x \in {r}} = {r.end}
  OBVIOUS
<1>7. First({r}) = r.start /\ Beyond({r}) = r.end
  BY <1>5, <1>6 DEF First, Beyond, Min, Max
<1>8. Covered({r}) = Span(r)
  BY DEF Covered
<1>9. Contiguous({r})
  BY <1>7, <1>8 DEF Contiguous, Span
<1>10. Cardinality({r}) = 1
  BY FS_Singleton
<1>11. r \in SharedRun(s)
  BY <1>4, <1>7, <1>9, <1>10 DEF SharedRun
<1>. QED
  BY <1>2, <1>11


---------------------------------------------------------------------------
(* What every step keeps.                                                  *)

(* Counters only grow, an incarnation is never live again, an object that  *)
(* is gone stays gone and so do the pages of a removed incarnation.        *)
Aging ==
    /\ lastPath <= lastPath' /\ lastGen <= lastGen'
    /\ \A s \in Streams :
         slot'[s].live => slot'[s].gen > lastGen \/ (slot[s].live /\ slot'[s].gen = slot[s].gen)
    /\ \A p \in Paths : p <= lastPath /\ store[p] = NoObject => store'[p] = NoObject
    /\ \A g \in 1 .. MaxGen :
         g <= lastGen /\ ~LiveGen(g) /\ pages[g] = {} => pages'[g] = {}

(* The action of AckedReclaimed. *)
OnlyGoneLeave ==
    \A e \in Entries(gc) :
       (\A f \in Entries(gc') : ~SameTarget(e, f)) =>
         /\ \A p \in e.paths : store'[p] = NoObject
         /\ e.gen # 0 => pages'[e.gen] = {}

LEMMA GoneStays ==
    ASSUME IInv, Aging
    PROVE  \A e \in Entries(gc) : Gone(e) => Gone(e)'
<1>1. ASSUME NEW e \in Entries(gc), Gone(e) PROVE Gone(e)'
  <2>1. e.gen \in 0 .. MaxGen /\ e.paths \subseteq Paths
    BY EntriesType DEF IInv, QueueOK
  <2>2. e.gen <= lastGen /\ ~LiveGen(e.gen) /\ \A p \in e.paths : p <= lastPath
    BY DEF IInv, QueueOK
  <2>3. ASSUME NEW p \in e.paths PROVE store'[p] = NoObject
    BY <1>1, <2>1, <2>2 DEF Aging, Gone
  <2>4. e.gen # 0 => pages'[e.gen] = {}
    BY <1>1, <2>1, <2>2, ColdConstants DEF Aging, Gone
  <2>. QED
    BY <2>3, <2>4 DEF Gone
<1>. QED
  BY <1>1

LEMMA NotLiveStays ==
    ASSUME IInv, CountersOK', Aging, NEW g \in 0 .. MaxGen, g <= lastGen, ~LiveGen(g)
    PROVE  ~LiveGen(g)'
<1>1. SUFFICES ASSUME NEW s \in Streams, slot'[s].live, slot'[s].gen = g PROVE FALSE
  BY DEF LiveGen, Live
<1>2. ~(g > lastGen)
  BY DEF IInv, CountersOK
<1>3. slot[s].live /\ slot[s].gen = g
  BY <1>1, <1>2 DEF Aging
<1>. QED
  BY <1>3 DEF LiveGen, Live

LEMMA QueueStays ==
    ASSUME IInv, CountersOK', Aging, gc' = gc
    PROVE  QueueOK' /\ Moved(gc, gc') /\ OnlyGoneLeave
<1>1. gc \in Queue /\ Ordered(gc) /\ gc.next \in Nat
  BY EntriesType DEF IInv, QueueOK
<1>2. Moved(gc, gc')
  BY <1>1 DEF Moved
<1>3. ASSUME NEW e \in Entries(gc)
      PROVE  e.gen <= lastGen' /\ ~LiveGen(e.gen)' /\ \A p \in e.paths : p <= lastPath'
  <2>1. e.gen \in 0 .. MaxGen /\ e.paths \subseteq Paths
    BY <1>1, EntriesType
  <2>2. e.gen <= lastGen /\ ~LiveGen(e.gen) /\ \A p \in e.paths : p <= lastPath
    BY DEF IInv, QueueOK
  <2>3. ~LiveGen(e.gen)'
    BY <2>1, <2>2, NotLiveStays
  <2>4. /\ lastGen \in Nat /\ lastGen' \in Nat /\ lastGen <= lastGen'
        /\ lastPath \in Nat /\ lastPath' \in Nat /\ lastPath <= lastPath'
    BY DEF IInv, CountersOK, Aging
  <2>. QED
    BY <2>1, <2>2, <2>3, <2>4 DEF Paths
<1>4. QueueOK'
  BY <1>1, <1>3 DEF QueueOK
<1>5. OnlyGoneLeave
  BY DEF OnlyGoneLeave, SameTarget
<1>. QED
  BY <1>2, <1>4, <1>5

LEMMA QueueGrows ==
    ASSUME IInv, CountersOK', Aging, NEW G, NEW P, Grown(gc, gc', G, P),
           \A g \in G : g <= lastGen' /\ ~LiveGen(g)', \A p \in P : p <= lastPath'
    PROVE  QueueOK' /\ Moved(gc, gc') /\ OnlyGoneLeave
<1>1. gc \in Queue /\ gc' \in Queue /\ Ordered(gc')
  BY DEF IInv, QueueOK, Grown
<1>2. Moved(gc, gc')
  BY <1>1 DEF Moved, Grown
<1>3. ASSUME NEW e \in Entries(gc')
      PROVE  e.gen <= lastGen' /\ ~LiveGen(e.gen)' /\ \A p \in e.paths : p <= lastPath'
  <2>1. CASE e \notin Entries(gc)
    BY <2>1 DEF Grown
  <2>2. CASE e \in Entries(gc)
    <3>1. e.gen \in 0 .. MaxGen /\ e.paths \subseteq Paths
      BY <1>1, <2>2, EntriesType
    <3>2. e.gen <= lastGen /\ ~LiveGen(e.gen) /\ \A p \in e.paths : p <= lastPath
      BY <2>2 DEF IInv, QueueOK
    <3>3. ~LiveGen(e.gen)'
      BY <3>1, <3>2, NotLiveStays
    <3>4. /\ lastGen \in Nat /\ lastGen' \in Nat /\ lastGen <= lastGen'
          /\ lastPath \in Nat /\ lastPath' \in Nat /\ lastPath <= lastPath'
      BY DEF IInv, CountersOK, Aging
    <3>. QED
      BY <3>1, <3>2, <3>3, <3>4 DEF Paths
  <2>. QED
    BY <2>1, <2>2
<1>4. QueueOK'
  BY <1>1, <1>3 DEF QueueOK
<1>5. OnlyGoneLeave
  BY DEF OnlyGoneLeave, SameTarget, Grown
<1>. QED
  BY <1>2, <1>4, <1>5

LEMMA CollectorKeeps ==
    ASSUME IInv, Aging, Moved(gc, gc'), collector # Idle, collector' \in Collection,
           collector'.acked = collector.acked, collector'.todo = collector.todo,
           collector'.stage = "pages" => collector.todo # <<>> /\ collector.todo[1].gen # 0
    PROVE  CollectorOK'
<1>1. gc \in Queue /\ gc' \in Queue
  BY DEF IInv, QueueOK, Moved
<1>2. /\ gc.next \in Nat /\ gc'.next \in Nat /\ gc'.next >= gc.next
      /\ \A e \in Entries(gc') : e.seq \in Nat
      /\ \A e \in Entries(gc') : e \in Entries(gc) \/ e.seq >= gc.next
  BY <1>1, EntriesType DEF Moved
<1> DEFINE todo == collector.todo
<1>3. collector \in Collection /\ CollectorOK
  BY DEF IInv, CollectorOK
<1>4. collector.acked \in Nat /\ todo \in Seq(GcEntry)
  BY <1>3 DEF Collection
<1>5. \A i \in 1 .. Len(todo) : todo[i].seq \in Nat /\ todo[i].seq < gc.next
  <2>1. \A i \in 1 .. Len(todo) : todo[i] \in GcEntry
    BY <1>4
  <2>. QED
    BY <1>3, <2>1 DEF CollectorOK, GcEntry
<1>6. collector.acked < gc.next
  BY <1>3 DEF CollectorOK
<1>7. ASSUME NEW e \in Entries(gc'), e.seq <= collector.acked PROVE Gone(e)'
  <2>1. e \in Entries(gc)
    BY <1>2, <1>4, <1>6, <1>7
  <2>2. Gone(e)
    BY <1>3, <1>7, <2>1 DEF CollectorOK
  <2>. QED
    BY <2>1, <2>2, GoneStays
<1>8. ASSUME NEW e \in Entries(gc'), NEW i \in 1 .. Len(todo), e.seq <= todo[i].seq
      PROVE  Gone(e)' \/ \E j \in 1 .. i : e = todo[j]
  <2>1. e \in Entries(gc)
    BY <1>2, <1>5, <1>8
  <2>2. Gone(e) \/ \E j \in 1 .. i : e = todo[j]
    BY <1>3, <1>8, <2>1 DEF CollectorOK
  <2>. QED
    BY <2>1, <2>2, GoneStays
<1>9. collector.acked < gc'.next /\ \A i \in 1 .. Len(todo) : todo[i].seq < gc'.next
  BY <1>2, <1>4, <1>5, <1>6
<1> HIDE DEF todo
<1>. QED
  BY <1>7, <1>8, <1>9 DEF CollectorOK, todo

LEMMA CollectorStays ==
    ASSUME IInv, Aging, Moved(gc, gc'), collector' = collector
    PROVE  CollectorOK'
<1>1. CASE collector = Idle
  BY <1>1 DEF CollectorOK
<1>2. CASE collector # Idle
  <2>1. collector \in Collection /\ CollectorOK
    BY <1>2 DEF IInv, CollectorOK
  <2>2. collector.stage = "pages" => collector.todo # <<>> /\ collector.todo[1].gen # 0
    BY <1>2, <2>1 DEF CollectorOK
  <2>. QED
    BY <1>2, <2>1, <2>2, CollectorKeeps
<1>. QED
  BY <1>1, <1>2

LEMMA LimboStays ==
    ASSUME IInv, CountersOK', Aging, Moved(gc, gc'), limbo' = limbo
    PROVE  LimboOK'
<1>1. gc \in Queue /\ gc' \in Queue
  BY DEF IInv, QueueOK, Moved
<1>2. /\ gc.next \in Nat /\ gc'.next \in Nat /\ gc'.next >= gc.next
      /\ \A e \in Entries(gc') : e.seq \in Nat
      /\ \A e \in Entries(gc') : e \in Entries(gc) \/ e.seq >= gc.next
  BY <1>1, EntriesType DEF Moved
<1>3. lastPath \in Nat /\ lastPath' \in Nat /\ lastPath <= lastPath'
  BY DEF IInv, CountersOK, Aging
<1>4. limbo \in {NoCommand} \cup LostCommand /\ LimboOK
  BY DEF IInv, LimboOK
<1>5. limbo.kind = "flush" => limbo.path <= lastPath'
  <2>1. limbo.kind = "flush" => limbo.path \in Paths
    BY <1>4 DEF LostCommand, NoCommand
  <2>. QED
    BY <1>3, <1>4, <2>1 DEF LimboOK, Paths
<1>6. limbo.kind = "compact" => Written(limbo.job.run)'
  <2>1. limbo.kind = "compact" => \A r \in limbo.job.run : r.path \in Paths
    <3>1. SUFFICES ASSUME limbo.kind = "compact" PROVE \A r \in limbo.job.run : r.path \in Paths
      OBVIOUS
    <3>2. limbo.job \in Compaction
      BY <1>4, <3>1 DEF LostCommand, NoCommand
    <3>3. limbo.job.run \in (SUBSET Ref) \cup (SUBSET PageEntry)
      BY <3>2 DEF Compaction
    <3>4. CASE limbo.job.run \in SUBSET Ref
      BY <3>4, RefType
    <3>5. CASE limbo.job.run \in SUBSET PageEntry
      BY <3>5, RefType
    <3>. QED
      BY <3>3, <3>4, <3>5
  <2>. QED
    BY <1>3, <1>4, <2>1 DEF LimboOK, Written, Paths
<1>7. ASSUME limbo.kind = "ack"
      PROVE  /\ limbo.upTo < gc'.next
             /\ \A e \in Entries(gc') : e.seq <= limbo.upTo => Gone(e)'
  <2>1. limbo.upTo \in Nat
    BY <1>4, <1>7 DEF LostCommand, NoCommand
  <2>2. limbo.upTo < gc.next /\ \A e \in Entries(gc) : e.seq <= limbo.upTo => Gone(e)
    BY <1>4, <1>7 DEF LimboOK
  <2>3. ASSUME NEW e \in Entries(gc'), e.seq <= limbo.upTo PROVE Gone(e)'
    <3>1. e \in Entries(gc)
      BY <1>2, <2>1, <2>2, <2>3
    <3>. QED
      BY <2>2, <2>3, <3>1, GoneStays
  <2>. QED
    BY <1>2, <2>1, <2>2, <2>3
<1>. QED
  BY <1>4, <1>5, <1>6, <1>7 DEF LimboOK


LEMMA WrittenStays ==
    ASSUME IInv, CountersOK', lastPath <= lastPath',
           NEW rs \in (SUBSET Ref) \cup (SUBSET PageEntry), Written(rs)
    PROVE  \A r \in rs : r.path <= lastPath'
<1>1. \A r \in rs : r.path \in Paths
  <2>1. CASE rs \in SUBSET Ref
    BY <2>1, RefType
  <2>2. CASE rs \in SUBSET PageEntry
    BY <2>2, RefType
  <2>. QED
    BY <2>1, <2>2
<1>2. lastPath \in Nat /\ lastPath' \in Nat
  BY DEF IInv, CountersOK
<1>. QED
  BY <1>1, <1>2 DEF Written, Paths

LEMMA SlotTyped ==
    ASSUME IInv, NEW s \in Streams
    PROVE  /\ slot[s] \in Slot
           /\ slot[s].gen \in 0 .. MaxGen /\ slot[s].live \in BOOLEAN
           /\ slot[s].tail \in 0 .. MaxTail /\ slot[s].retained \in 0 .. MaxTail
           /\ slot[s].snapshot \in 0 .. MaxTail
           /\ slot[s].hot \subseteq 0 .. slot[s].tail - 1
           /\ slot[s].chunks \in SUBSET Ref /\ slot[s].external \in SUBSET Ref
           /\ Written(slot[s].chunks) /\ Written(slot[s].external)
           /\ slot[s].retained <= slot[s].snapshot /\ slot[s].snapshot <= slot[s].tail
           /\ slot[s].live => slot[s].gen \in 1 .. lastGen
           /\ ~slot[s].live => slot[s] = Vacant
BY DEF IInv, SlotOK, Slot

(* One stream's record becomes v. *)
LEMMA SlotBecomes ==
    ASSUME IInv, CountersOK', lastPath <= lastPath', lastGen <= lastGen',
           NEW s \in Streams, NEW v \in Slot, slot' = [slot EXCEPT ![s] = v],
           v.retained <= v.snapshot, v.snapshot <= v.tail,
           v.hot \subseteq 0 .. v.tail - 1,
           \A r \in v.chunks \cup v.external : r.path <= lastPath',
           v.live => /\ v.gen \in 1 .. lastGen'
                     /\ v.gen > lastGen \/ (slot[s].live /\ v.gen = slot[s].gen),
           ~v.live => v = Vacant
    PROVE  /\ SlotOK'
           /\ \A t \in Streams : slot'[t].live =>
                slot'[t].gen > lastGen \/ (slot[t].live /\ slot'[t].gen = slot[t].gen)
<1>1. slot \in [Streams -> Slot]
  BY DEF IInv, SlotOK
<1>2. slot'[s] = v /\ \A t \in Streams : t # s => slot'[t] = slot[t]
  BY <1>1
<1>3. slot' \in [Streams -> Slot]
  BY <1>1
<1>4. lastGen \in Nat /\ lastGen' \in Nat
  BY DEF IInv, CountersOK
<1>5. ASSUME NEW t \in Streams
      PROVE  /\ slot'[t].retained <= slot'[t].snapshot /\ slot'[t].snapshot <= slot'[t].tail
             /\ slot'[t].hot \subseteq 0 .. slot'[t].tail - 1
             /\ \A r \in slot'[t].chunks : r.path <= lastPath'
             /\ \A r \in slot'[t].external : r.path <= lastPath'
             /\ slot'[t].live => slot'[t].gen \in 1 .. lastGen'
             /\ ~slot'[t].live => slot'[t] = Vacant
  <2>1. CASE t = s
    BY <1>2, <2>1
  <2>2. CASE t # s
    <3>1. \A r \in slot[t].chunks : r.path <= lastPath'
      BY SlotTyped, WrittenStays
    <3>2. \A r \in slot[t].external : r.path <= lastPath'
      BY SlotTyped, WrittenStays
    <3>3. slot[t].live => slot[t].gen \in 1 .. lastGen'
      BY <1>4, SlotTyped
    <3>. QED
      BY <1>2, <2>2, <3>1, <3>2, <3>3, SlotTyped
  <2>. QED
    BY <2>1, <2>2
<1>6. ASSUME NEW t \in Streams, NEW u \in Streams, slot'[t].live, slot'[u].live,
             slot'[t].gen = slot'[u].gen
      PROVE  t = u
  <2>1. \A x \in Streams : slot[x].live => slot[x].gen \in 1 .. lastGen
    BY SlotTyped
  <2>2. \A x, y \in Streams : slot[x].live /\ slot[y].live /\ slot[x].gen = slot[y].gen => x = y
    BY DEF IInv, SlotOK, Live
  <2>3. v.live => v.gen \in Nat
    OBVIOUS
  <2>4. \A x \in Streams : x # s /\ slot[x].live /\ v.live => v.gen # slot[x].gen
    BY <1>4, <2>1, <2>2, <2>3
  <2>. QED
    BY <1>2, <1>6, <2>2, <2>4
<1>7. SlotOK'
  BY <1>3, <1>5, <1>6 DEF SlotOK, Written, Live
<1>8. ASSUME NEW t \in Streams, slot'[t].live
      PROVE  slot'[t].gen > lastGen \/ (slot[t].live /\ slot'[t].gen = slot[t].gen)
  BY <1>2, <1>8
<1>. QED
  BY <1>7, <1>8

LEMMA RestStays ==
    ASSUME IInv, CountersOK', lastPath <= lastPath', lastGen <= lastGen'
    PROVE  /\ slot' = slot => SlotOK'
           /\ UNCHANGED <<store, pages>> => ObjectsOK'
           /\ flusher' = flusher => FlusherOK'
           /\ compactor' = compactor => CompactorOK'
           /\ offloader' = offloader => OffloaderOK'
<1>1. lastGen \in Nat /\ lastGen' \in Nat /\ lastPath \in Nat /\ lastPath' \in Nat
  BY DEF IInv, CountersOK
<1>2. ASSUME slot' = slot PROVE SlotOK'
  <2>1. \A s \in Streams : \A r \in slot[s].chunks \cup slot[s].external : r.path <= lastPath'
    BY SlotTyped, WrittenStays
  <2>2. \A s \in Streams : slot[s].live => slot[s].gen \in 1 .. lastGen'
    BY <1>1, SlotTyped
  <2>. QED
    BY <1>2, <2>1, <2>2 DEF IInv, SlotOK, Written, Live
<1>3. ASSUME UNCHANGED <<store, pages>> PROVE ObjectsOK'
  <2>1. \A p \in Paths : Stored(p) => p <= lastPath'
    BY <1>1 DEF IInv, ObjectsOK, Paths
  <2>2. \A g \in 0 .. MaxGen : \A r \in pages[g] : r.path <= lastPath'
    <3>1. ASSUME NEW g \in 0 .. MaxGen PROVE \A r \in pages[g] : r.path <= lastPath'
      <4>1. pages[g] \in SUBSET PageEntry /\ Written(pages[g])
        BY DEF IInv, ObjectsOK
      <4>. QED
        BY <4>1, WrittenStays
    <3>. QED
      BY <3>1
  <2>. QED
    BY <1>3, <2>1, <2>2 DEF IInv, ObjectsOK, Written, Stored
<1>4. ASSUME flusher' = flusher PROVE FlusherOK'
  <2>1. CASE flusher = Idle
    BY <1>4, <2>1 DEF IInv, FlusherOK
  <2>2. CASE flusher # Idle
    <3>1. flusher \in Flush /\ flusher.path <= lastPath /\ Written(flusher.saved) /\ flusher.todo # <<>>
      BY <2>2 DEF IInv, FlusherOK
    <3>2. flusher.path \in Paths /\ flusher.saved \in SUBSET PageEntry
      BY <3>1 DEF Flush
    <3>3. flusher.path <= lastPath'
      BY <1>1, <3>1, <3>2 DEF Paths
    <3>4. \A r \in flusher.saved : r.path <= lastPath'
      BY <3>1, <3>2, WrittenStays
    <3>. QED
      BY <1>4, <3>1, <3>3, <3>4 DEF FlusherOK, Written
  <2>. QED
    BY <2>1, <2>2
<1>5. ASSUME compactor' = compactor PROVE CompactorOK'
  <2>1. CASE compactor = Idle
    BY <1>5, <2>1 DEF IInv, CompactorOK
  <2>2. CASE compactor # Idle
    <3>1. /\ compactor \in Compaction /\ compactor.path <= lastPath /\ Written(compactor.saved)
          /\ Written(compactor.run) /\ compactor.run # {}
      BY <2>2 DEF IInv, CompactorOK
    <3>2. /\ compactor.path \in Paths /\ compactor.saved \in SUBSET PageEntry
          /\ compactor.run \in (SUBSET Ref) \cup (SUBSET PageEntry)
      BY <3>1 DEF Compaction
    <3>3. compactor.path <= lastPath'
      BY <1>1, <3>1, <3>2 DEF Paths
    <3>4. \A r \in compactor.saved : r.path <= lastPath'
      BY <3>1, <3>2, WrittenStays
    <3>5. \A r \in compactor.run : r.path <= lastPath'
      BY <3>1, <3>2, WrittenStays
    <3>. QED
      BY <1>5, <3>1, <3>3, <3>4, <3>5 DEF CompactorOK, Written
  <2>. QED
    BY <2>1, <2>2
<1>6. offloader' = offloader => OffloaderOK'
  BY DEF IInv, OffloaderOK
<1>. QED
  BY <1>2, <1>3, <1>4, <1>5, <1>6


LEMMA StillAging ==
    ASSUME IInv, UNCHANGED <<slot, lastGen, store, pages, lastPath>>
    PROVE  Aging
<1>1. lastGen \in Nat /\ lastPath \in Nat
  BY DEF IInv, CountersOK
<1>. QED
  BY <1>1 DEF Aging

(* A step that leaves the queue, the collector and limbo alone. *)
LEMMA QuietStep ==
    ASSUME IInv, CountersOK', Aging, SlotOK', ObjectsOK', FlusherOK', CompactorOK', OffloaderOK',
           UNCHANGED <<gc, collector, limbo>>
    PROVE  IInv' /\ OnlyGoneLeave
<1>1. QueueOK' /\ Moved(gc, gc') /\ OnlyGoneLeave
  BY QueueStays
<1>2. CollectorOK' /\ LimboOK'
  BY <1>1, CollectorStays, LimboStays
<1>. QED
  BY <1>1, <1>2 DEF IInv

---------------------------------------------------------------------------
(* The commands on streams.                                                *)

LEMMA VacantType == Vacant \in Slot
<1>1. 0 \in 0 .. MaxGen /\ 0 \in 0 .. MaxTail
  BY ColdConstants
<1>. QED
  BY <1>1 DEF Vacant, Slot

LEMMA CreateStep ==
    ASSUME IInv, NEW s \in Streams, Create(s)
    PROVE  IInv' /\ OnlyGoneLeave
<1> DEFINE v == [Vacant EXCEPT !.live = TRUE, !.gen = lastGen + 1]
<1>1. lastGen \in 0 .. MaxGen /\ lastGen < MaxGen /\ MaxGen \in Nat /\ MaxTail \in Nat /\ lastPath \in Nat
  BY ColdConstants DEF IInv, CountersOK, Create
<1>2. /\ slot' = [slot EXCEPT ![s] = v] /\ lastGen' = lastGen + 1
      /\ UNCHANGED <<refs, gc, store, pages, lastPath, flusher, compactor, offloader, collector,
                     limbo, orphans>>
  BY DEF Create, workers, outcome
<1>3. CountersOK' /\ lastPath <= lastPath' /\ lastGen <= lastGen'
  BY <1>1, <1>2 DEF IInv, CountersOK
<1>4. /\ v.live /\ v.gen = lastGen + 1 /\ v.tail = 0 /\ v.retained = 0 /\ v.snapshot = 0
      /\ v.hot = {} /\ v.chunks = {} /\ v.external = {}
  BY DEF Vacant
<1>5. v \in Slot
  <2>1. Vacant \in Slot
    BY VacantType
  <2>2. lastGen + 1 \in 0 .. MaxGen
    BY <1>1
  <2>. QED
    BY <2>1, <2>2 DEF Slot
<1> HIDE DEF v
<1>6. /\ v.gen \in 1 .. lastGen' /\ v.gen > lastGen
      /\ v.retained <= v.snapshot /\ v.snapshot <= v.tail /\ v.hot \subseteq 0 .. v.tail - 1
      /\ \A r \in v.chunks \cup v.external : r.path <= lastPath'
  BY <1>1, <1>2, <1>4
<1>7. /\ SlotOK'
      /\ \A t \in Streams : slot'[t].live =>
           slot'[t].gen > lastGen \/ (slot[t].live /\ slot'[t].gen = slot[t].gen)
  BY <1>2, <1>3, <1>4, <1>5, <1>6, SlotBecomes
<1>8. Aging
  BY <1>2, <1>3, <1>7 DEF Aging
<1>. QED
  BY <1>2, <1>3, <1>7, <1>8, RestStays, QuietStep

LEMMA AppendInlineStep ==
    ASSUME IInv, NEW s \in Streams, AppendInline(s)
    PROVE  IInv' /\ OnlyGoneLeave
<1> DEFINE v == [slot[s] EXCEPT !.hot = @ \cup {slot[s].tail}, !.tail = @ + 1]
<1>1. /\ slot' = [slot EXCEPT ![s] = v]
      /\ slot[s].live /\ slot[s].tail < MaxTail
      /\ UNCHANGED <<lastGen, refs, gc, store, pages, lastPath, flusher, compactor, offloader,
                     collector, limbo, orphans>>
  BY DEF AppendInline, workers, outcome
<1>2. CountersOK' /\ lastPath <= lastPath' /\ lastGen <= lastGen'
  BY <1>1 DEF IInv, CountersOK
<1>3. /\ slot[s] \in Slot /\ slot[s].tail \in 0 .. MaxTail /\ slot[s].hot \subseteq 0 .. slot[s].tail - 1
      /\ slot[s].snapshot \in 0 .. MaxTail /\ slot[s].snapshot <= slot[s].tail
      /\ slot[s].retained <= slot[s].snapshot /\ slot[s].gen \in 1 .. lastGen
  BY <1>1, SlotTyped
<1>4. /\ v.live = slot[s].live /\ v.gen = slot[s].gen /\ v.tail = slot[s].tail + 1
      /\ v.retained = slot[s].retained /\ v.snapshot = slot[s].snapshot
      /\ v.hot = slot[s].hot \cup {slot[s].tail} /\ v.chunks = slot[s].chunks
      /\ v.external = slot[s].external
  BY <1>3 DEF Slot
<1>5. v \in Slot
  <2>1. slot[s].tail + 1 \in 0 .. MaxTail /\ slot[s].hot \cup {slot[s].tail} \in SUBSET (0 .. MaxTail)
    BY <1>1, <1>3, ColdConstants
  <2>. QED
    BY <1>3, <2>1 DEF Slot
<1> HIDE DEF v
<1>6. v.retained <= v.snapshot /\ v.snapshot <= v.tail /\ v.hot \subseteq 0 .. v.tail - 1
  BY <1>3, <1>4
<1>7. \A r \in v.chunks \cup v.external : r.path <= lastPath'
  BY <1>2, <1>4, SlotTyped, WrittenStays
<1>8. v.live /\ v.gen \in 1 .. lastGen' /\ slot[s].live /\ v.gen = slot[s].gen
  BY <1>1, <1>3, <1>4
<1>9. /\ SlotOK'
      /\ \A t \in Streams : slot'[t].live =>
           slot'[t].gen > lastGen \/ (slot[t].live /\ slot'[t].gen = slot[t].gen)
  BY <1>1, <1>2, <1>5, <1>6, <1>7, <1>8, SlotBecomes
<1>10. Aging
  BY <1>1, <1>2, <1>9 DEF Aging
<1>. QED
  BY <1>1, <1>2, <1>9, <1>10, RestStays, QuietStep


LEMMA BytesType ==
    ASSUME NEW g \in 0 .. MaxGen, NEW r, r.start \in 0 .. MaxTail, r.end \in 0 .. MaxTail
    PROVE  BytesOf(g, r) \in SUBSET ((0 .. MaxGen) \X (0 .. MaxTail))
<1>1. \A o \in r.start .. r.end - 1 : o \in 0 .. MaxTail
  BY ColdConstants
<1>. QED
  BY <1>1 DEF BytesOf, Span

LEMMA NoObjectType == NoObject \in Object
<1>1. 0 \in 0 .. MaxGen
  BY ColdConstants
<1>. QED
  BY <1>1 DEF NoObject, Object

(* Objects are written under new paths and otherwise only deleted. *)
LEMMA StoreBecomes ==
    ASSUME IInv, CountersOK', lastPath <= lastPath', store' \in [Paths -> Object],
           \A p \in Paths : \/ store'[p] = store[p] \/ store'[p] = NoObject
                            \/ lastPath < p /\ p <= lastPath'
    PROVE  /\ \A p \in Paths : store'[p] # NoObject => p <= lastPath'
           /\ \A p \in Paths : p <= lastPath /\ store[p] = NoObject => store'[p] = NoObject
           /\ pages' = pages => ObjectsOK'
<1>1. lastPath \in Nat /\ lastPath' \in Nat
  BY DEF IInv, CountersOK
<1>2. \A p \in Paths : store[p] # NoObject => p <= lastPath
  BY DEF IInv, ObjectsOK, Stored
<1>3. \A p \in Paths : store'[p] # NoObject => p <= lastPath'
  BY <1>1, <1>2 DEF Paths
<1>4. \A p \in Paths : p <= lastPath /\ store[p] = NoObject => store'[p] = NoObject
  BY <1>1 DEF Paths
<1>5. ASSUME pages' = pages PROVE ObjectsOK'
  <2>1. \A g \in 0 .. MaxGen : \A r \in pages[g] : r.path <= lastPath'
    <3>1. ASSUME NEW g \in 0 .. MaxGen PROVE \A r \in pages[g] : r.path <= lastPath'
      <4>1. pages[g] \in SUBSET PageEntry /\ Written(pages[g])
        BY DEF IInv, ObjectsOK
      <4>. QED
        BY <4>1, WrittenStays
    <3>. QED
      BY <3>1
  <2>. QED
    BY <1>3, <1>5, <2>1 DEF IInv, ObjectsOK, Written, Stored
<1>. QED
  BY <1>3, <1>4, <1>5

LEMMA AppendExternalStep ==
    ASSUME IInv, NEW s \in Streams, AppendExternal(s)
    PROVE  IInv' /\ OnlyGoneLeave
<1> DEFINE r == [start |-> slot[s].tail, end |-> slot[s].tail + 1, path |-> lastPath + 1]
           v == [slot[s] EXCEPT !.external = @ \cup {r}, !.tail = @ + 1]
           object == [dir |-> 0, bytes |-> BytesOf(slot[s].gen, r)]
<1>1. /\ slot' = [slot EXCEPT ![s] = v]
      /\ store' = [store EXCEPT ![lastPath + 1] = object]
      /\ slot[s].live /\ slot[s].tail < MaxTail /\ lastPath' = lastPath + 1 /\ lastPath < MaxPath
      /\ UNCHANGED <<lastGen, refs, gc, pages, flusher, compactor, offloader,
                     collector, limbo, orphans>>
  BY DEF AppendExternal, workers, outcome
<1>2. lastPath \in Nat /\ lastPath + 1 \in Paths /\ lastGen \in Nat /\ MaxTail \in Nat
  BY <1>1, ColdConstants DEF IInv, CountersOK, Paths
<1>3. CountersOK' /\ lastPath <= lastPath' /\ lastGen <= lastGen'
  BY <1>1, <1>2 DEF IInv, CountersOK, Paths
<1>4. /\ slot[s] \in Slot /\ slot[s].tail \in 0 .. MaxTail /\ slot[s].hot \subseteq 0 .. slot[s].tail - 1
      /\ slot[s].snapshot \in 0 .. MaxTail /\ slot[s].snapshot <= slot[s].tail
      /\ slot[s].retained <= slot[s].snapshot /\ slot[s].gen \in 1 .. lastGen
      /\ slot[s].gen \in 0 .. MaxGen
  BY <1>1, SlotTyped
<1>5. r \in Ref /\ r.path = lastPath + 1 /\ r.start \in 0 .. MaxTail /\ r.end \in 0 .. MaxTail
  <2>1. slot[s].tail + 1 \in 0 .. MaxTail /\ slot[s].tail < slot[s].tail + 1
    BY <1>1, <1>2, <1>4
  <2>. QED
    BY <1>2, <1>4, <2>1, RefMade
<1> HIDE DEF r
<1>6. /\ v.live = slot[s].live /\ v.gen = slot[s].gen /\ v.tail = slot[s].tail + 1
      /\ v.retained = slot[s].retained /\ v.snapshot = slot[s].snapshot
      /\ v.hot = slot[s].hot /\ v.chunks = slot[s].chunks
      /\ v.external = slot[s].external \cup {r}
  BY <1>4 DEF Slot
<1>7. v \in Slot
  <2>1. slot[s].tail + 1 \in 0 .. MaxTail /\ slot[s].external \cup {r} \in SUBSET Ref
    BY <1>1, <1>2, <1>4, <1>5, SlotTyped
  <2>. QED
    BY <1>4, <2>1 DEF Slot
<1> HIDE DEF v
<1>8. v.retained <= v.snapshot /\ v.snapshot <= v.tail /\ v.hot \subseteq 0 .. v.tail - 1
  BY <1>4, <1>6
<1>9. \A x \in v.chunks \cup v.external : x.path <= lastPath'
  <2>1. \A x \in slot[s].chunks : x.path <= lastPath'
    BY <1>3, SlotTyped, WrittenStays
  <2>2. \A x \in slot[s].external : x.path <= lastPath'
    BY <1>3, SlotTyped, WrittenStays
  <2>. QED
    BY <1>1, <1>2, <1>5, <1>6, <2>1, <2>2
<1>10. v.live /\ v.gen \in 1 .. lastGen' /\ slot[s].live /\ v.gen = slot[s].gen
  BY <1>1, <1>4, <1>6
<1>11. /\ SlotOK'
       /\ \A t \in Streams : slot'[t].live =>
            slot'[t].gen > lastGen \/ (slot[t].live /\ slot'[t].gen = slot[t].gen)
  BY <1>1, <1>3, <1>7, <1>8, <1>9, <1>10, SlotBecomes
<1>12. object \in Object
  <2>1. BytesOf(slot[s].gen, r) \in SUBSET ((0 .. MaxGen) \X (0 .. MaxTail))
    BY <1>4, <1>5, BytesType
  <2>2. 0 \in 0 .. MaxGen
    BY ColdConstants
  <2>. QED
    BY <2>1, <2>2 DEF Object
<1> HIDE DEF object
<1>13. store \in [Paths -> Object]
  BY DEF IInv, ObjectsOK
<1>14. /\ store' \in [Paths -> Object]
       /\ \A p \in Paths : store'[p] = store[p] \/ (lastPath < p /\ p <= lastPath')
  <2>1. store' \in [Paths -> Object] /\ \A p \in Paths : p # lastPath + 1 => store'[p] = store[p]
    BY <1>1, <1>2, <1>12, <1>13
  <2>2. lastPath < lastPath + 1 /\ lastPath + 1 <= lastPath'
    BY <1>1, <1>2
  <2>. QED
    BY <2>1, <2>2
<1>15. /\ ObjectsOK'
       /\ \A p \in Paths : p <= lastPath /\ store[p] = NoObject => store'[p] = NoObject
  BY <1>1, <1>3, <1>14, StoreBecomes
<1>16. Aging
  BY <1>1, <1>3, <1>11, <1>15 DEF Aging
<1>. QED
  BY <1>1, <1>3, <1>11, <1>15, <1>16, RestStays, QuietStep

LEMMA PublishSnapshotStep ==
    ASSUME IInv, NEW s \in Streams, NEW o \in 1 .. MaxRetain, PublishSnapshot(s, o)
    PROVE  IInv' /\ OnlyGoneLeave
<1> DEFINE v == [slot[s] EXCEPT !.snapshot = o]
<1>1. /\ slot' = [slot EXCEPT ![s] = v]
      /\ slot[s].live /\ slot[s].retained <= o /\ o <= slot[s].tail /\ o \in Nat
      /\ UNCHANGED <<lastGen, refs, gc, store, pages, lastPath, flusher, compactor, offloader,
                     collector, limbo, orphans>>
  BY DEF PublishSnapshot, workers, outcome
<1>2. CountersOK' /\ lastPath <= lastPath' /\ lastGen <= lastGen'
  BY <1>1 DEF IInv, CountersOK
<1>3. /\ slot[s] \in Slot /\ slot[s].tail \in 0 .. MaxTail /\ slot[s].hot \subseteq 0 .. slot[s].tail - 1
      /\ slot[s].gen \in 1 .. lastGen
  BY <1>1, SlotTyped
<1>4. /\ v.live = slot[s].live /\ v.gen = slot[s].gen /\ v.tail = slot[s].tail
      /\ v.retained = slot[s].retained /\ v.snapshot = o
      /\ v.hot = slot[s].hot /\ v.chunks = slot[s].chunks
      /\ v.external = slot[s].external
  BY <1>3 DEF Slot
<1>5. v \in Slot
  <2>1. o \in 0 .. MaxTail
    BY <1>1, <1>3, ColdConstants
  <2>. QED
    BY <1>3, <2>1 DEF Slot
<1> HIDE DEF v
<1>6. v.retained <= v.snapshot /\ v.snapshot <= v.tail /\ v.hot \subseteq 0 .. v.tail - 1
  BY <1>1, <1>3, <1>4
<1>7. \A r \in v.chunks \cup v.external : r.path <= lastPath'
  BY <1>2, <1>4, SlotTyped, WrittenStays
<1>8. v.live /\ v.gen \in 1 .. lastGen' /\ slot[s].live /\ v.gen = slot[s].gen
  BY <1>1, <1>3, <1>4
<1>9. /\ SlotOK'
      /\ \A t \in Streams : slot'[t].live =>
           slot'[t].gen > lastGen \/ (slot[t].live /\ slot'[t].gen = slot[t].gen)
  BY <1>1, <1>2, <1>5, <1>6, <1>7, <1>8, SlotBecomes
<1>10. Aging
  BY <1>1, <1>2, <1>9 DEF Aging
<1>. QED
  BY <1>1, <1>2, <1>9, <1>10, RestStays, QuietStep


LEMMA ReleasedType ==
    ASSUME IInv, NEW ps
    PROVE  Released(ps) \in [Paths -> Nat]
<1>1. refs \in [Paths -> Nat]
  BY DEF IInv, CountersOK
<1>2. \A p \in Paths : (IF p \in ps /\ refs[p] > 0 THEN refs[p] - 1 ELSE refs[p]) \in Nat
  BY <1>1
<1>. QED
  BY <1>2 DEF Released

LEMMA ReleaseGrows ==
    ASSUME NEW q \in Queue, Ordered(q), NEW ps \in SUBSET Paths, NEW graced \in BOOLEAN
    PROVE  Grown(q, QueueReleased(q, ps, graced), {0}, ps)
<1> DEFINE last == {p \in ps : refs[p] = 1}
<1>1. IsFiniteSet(Paths)
  <2>1. 1 \in Int /\ MaxPath \in Int
    BY ColdConstants
  <2>2. IsFiniteSet(1 .. MaxPath)
    BY ONLY <2>1, FS_Interval
  <2>. QED
    BY <2>2 DEF Paths
<1>2. IsFiniteSet(last)
  BY <1>1, FS_Subset
<1>3. last \subseteq ps
  OBVIOUS
<1> HIDE DEF last
<1>4. SetToSeq(last) \in Seq(ps)
  <2>1. SetToSeq(last) \in Seq(last)
    BY <1>2, SetToSeqType
  <2>. QED
    BY <1>3, <2>1
<1>5. QueueReleased(q, ps, graced) = EnqueueEach(q, SetToSeq(last), graced)
  BY DEF QueueReleased, last
<1>. QED
  BY <1>4, <1>5, EachGrows

LEMMA UnlessGrows ==
    ASSUME NEW q \in Queue, Ordered(q), NEW ps \in SUBSET Paths, NEW graced \in BOOLEAN
    PROVE  Grown(q, QueueUnless(q, ps, graced), {0}, ps)
<1>1. 0 \in 0 .. MaxGen
  BY ColdConstants
<1>2. CASE ps = {}
  BY <1>2, GrownNot DEF QueueUnless
<1>3. CASE ps # {}
  BY <1>1, <1>3, PushGrows DEF QueueUnless, EnqueueAfter
<1>. QED
  BY <1>2, <1>3

LEMMA ZeroNotLive ==
    ASSUME SlotOK'
    PROVE  ~LiveGen(0)'
<1>1. SUFFICES ASSUME NEW s \in Streams, slot'[s].live, slot'[s].gen = 0 PROVE FALSE
  BY DEF LiveGen, Live
<1>2. slot'[s].gen \in 1 .. lastGen'
  BY <1>1 DEF SlotOK
<1>. QED
  BY <1>1, <1>2

(* A step that only adds to the queue. *)
LEMMA QueueingStep ==
    ASSUME IInv, CountersOK', Aging, SlotOK', ObjectsOK', FlusherOK', CompactorOK', OffloaderOK',
           UNCHANGED <<collector, limbo>>, NEW G, NEW P, Grown(gc, gc', G, P),
           \A g \in G : g <= lastGen' /\ ~LiveGen(g)', \A p \in P : p <= lastPath'
    PROVE  IInv' /\ OnlyGoneLeave
<1>1. QueueOK' /\ Moved(gc, gc') /\ OnlyGoneLeave
  BY QueueGrows
<1>2. CollectorOK' /\ LimboOK'
  BY <1>1, CollectorStays, LimboStays
<1>. QED
  BY <1>1, <1>2 DEF IInv

LEMMA AdvanceRetentionStep ==
    ASSUME IInv, NEW s \in Streams, NEW o \in 1 .. MaxRetain, AdvanceRetention(s, o)
    PROVE  IInv' /\ OnlyGoneLeave
<1> DEFINE chunks == {r \in slot[s].chunks : r.end <= o}
           external == {r \in slot[s].external : r.end <= o}
           v == [slot[s] EXCEPT !.retained = o, !.chunks = @ \ chunks,
                                !.external = @ \ external, !.hot = {b \in @ : b >= o}]
           q == QueueReleased(gc, PathsOf(chunks), TRUE)
<1>0. slot \in [Streams -> Slot]
  BY DEF IInv, SlotOK
<1>1. /\ slot' = [slot EXCEPT ![s] = v]
      /\ slot[s].live /\ o <= slot[s].snapshot /\ o \in Nat
      /\ refs' = Released(PathsOf(chunks))
      /\ gc' = QueueUnless(q, PathsOf(external), TRUE)
      /\ UNCHANGED <<lastGen, store, pages, lastPath, flusher, compactor, offloader,
                     collector, limbo, orphans>>
  <2>1. slot' = [slot EXCEPT ![s] = v]
    BY <1>0 DEF AdvanceRetention
  <2>2. slot[s].live /\ o <= slot[s].snapshot
    BY DEF AdvanceRetention
  <2>4. o \in Nat
    OBVIOUS
  <2>3. refs' = Released(PathsOf(chunks)) /\ gc' = QueueUnless(q, PathsOf(external), TRUE)
    BY DEF AdvanceRetention
  <2>. QED
    BY <2>1, <2>2, <2>3, <2>4 DEF AdvanceRetention, workers, outcome
<1>2. /\ slot[s] \in Slot /\ slot[s].tail \in 0 .. MaxTail /\ slot[s].hot \subseteq 0 .. slot[s].tail - 1
      /\ slot[s].snapshot \in 0 .. MaxTail /\ slot[s].snapshot <= slot[s].tail
      /\ slot[s].gen \in 1 .. lastGen
      /\ slot[s].chunks \in SUBSET Ref /\ slot[s].external \in SUBSET Ref
      /\ Written(slot[s].chunks) /\ Written(slot[s].external)
  BY <1>1, SlotTyped
<1>3. /\ v.live = slot[s].live /\ v.gen = slot[s].gen /\ v.tail = slot[s].tail
      /\ v.retained = o /\ v.snapshot = slot[s].snapshot
      /\ v.hot \subseteq slot[s].hot /\ v.chunks \subseteq slot[s].chunks
      /\ v.external \subseteq slot[s].external
  <2>1. /\ v.hot = {b \in slot[s].hot : b >= o} /\ v.chunks = slot[s].chunks \ chunks
        /\ v.external = slot[s].external \ external
    BY <1>2 DEF Slot
  <2>. QED
    BY <1>2, <2>1 DEF Slot
<1>4. v \in Slot
  <2>1. o \in 0 .. MaxTail
    BY <1>1, <1>2, ColdConstants
  <2>. QED
    BY <1>2, <2>1 DEF Slot
<1>5. CountersOK' /\ lastPath <= lastPath' /\ lastGen <= lastGen'
  BY <1>1, ReleasedType DEF IInv, CountersOK
<1> HIDE DEF v
<1>6. v.retained <= v.snapshot /\ v.snapshot <= v.tail /\ v.hot \subseteq 0 .. v.tail - 1
  BY <1>1, <1>2, <1>3
<1>7. \A r \in slot[s].chunks \cup slot[s].external : r.path <= lastPath'
  BY <1>2, <1>5, WrittenStays
<1>8. v.live /\ v.gen \in 1 .. lastGen' /\ slot[s].live /\ v.gen = slot[s].gen
  BY <1>1, <1>2, <1>3
<1>9. /\ SlotOK'
      /\ \A t \in Streams : slot'[t].live =>
           slot'[t].gen > lastGen \/ (slot[t].live /\ slot'[t].gen = slot[t].gen)
  BY <1>1, <1>3, <1>4, <1>5, <1>6, <1>7, <1>8, SlotBecomes
<1>10. Aging
  BY <1>1, <1>5, <1>9 DEF Aging
<1>11. /\ PathsOf(chunks) \in SUBSET Paths /\ PathsOf(external) \in SUBSET Paths
       /\ \A p \in PathsOf(chunks) \cup PathsOf(external) : p <= lastPath'
  BY <1>2, <1>7, RefType DEF PathsOf
<1>12. Grown(gc, q, {0}, PathsOf(chunks))
  BY <1>11, ReleaseGrows DEF IInv, QueueOK
<1> HIDE DEF q, chunks, external
<1>13. Grown(q, gc', {0}, PathsOf(external))
  BY <1>1, <1>11, <1>12, UnlessGrows DEF Grown
<1>14. Grown(gc, gc', {0} \cup {0}, PathsOf(chunks) \cup PathsOf(external))
  BY <1>12, <1>13, GrownTransitive DEF IInv, QueueOK
<1>15. \A g \in {0} \cup {0} : g <= lastGen' /\ ~LiveGen(g)'
  BY <1>5, <1>9, ZeroNotLive DEF CountersOK
<1>. QED
  BY <1>1, <1>5, <1>9, <1>10, <1>11, <1>14, <1>15, RestStays, QueueingStep

LEMMA DeleteStep ==
    ASSUME IInv, NEW s \in Streams, Delete(s)
    PROVE  IInv' /\ OnlyGoneLeave
<1> DEFINE chunks == slot[s].chunks
           external == slot[s].external
           hasColdObjects == Cardinality(slot[s].hot) < slot[s].tail \/ chunks # {} \/ external # {}
           q == EnqueueStream(gc, slot[s].gen)
           r == QueueUnless(q, PathsOf(external), FALSE)
           queued == IF hasColdObjects THEN r ELSE gc
           P == PathsOf(chunks) \cup PathsOf(external)
<1>1. /\ slot' = [slot EXCEPT ![s] = Vacant] /\ slot[s].live
      /\ refs' = Released(PathsOf(chunks))
      /\ gc' = QueueReleased(queued, PathsOf(chunks), FALSE)
      /\ UNCHANGED <<lastGen, store, pages, lastPath, flusher, compactor, offloader,
                     collector, limbo, orphans>>
  BY DEF Delete, workers, outcome
<1>2. /\ slot[s].gen \in 1 .. lastGen /\ slot[s].gen \in 0 .. MaxGen
      /\ chunks \in SUBSET Ref /\ external \in SUBSET Ref
      /\ Written(chunks) /\ Written(external)
  BY <1>1, SlotTyped
<1>3. CountersOK' /\ lastPath <= lastPath' /\ lastGen <= lastGen'
  BY <1>1, ReleasedType DEF IInv, CountersOK
<1>4. /\ SlotOK'
      /\ \A t \in Streams : slot'[t].live =>
           slot'[t].gen > lastGen \/ (slot[t].live /\ slot'[t].gen = slot[t].gen)
  <2>1. /\ Vacant.retained <= Vacant.snapshot /\ Vacant.snapshot <= Vacant.tail
        /\ Vacant.hot \subseteq 0 .. Vacant.tail - 1 /\ ~Vacant.live
        /\ \A x \in Vacant.chunks \cup Vacant.external : x.path <= lastPath'
    BY DEF Vacant
  <2>. QED
    BY <1>1, <1>3, <2>1, VacantType, SlotBecomes
<1>5. Aging
  BY <1>1, <1>3, <1>4 DEF Aging
<1>6. PathsOf(chunks) \in SUBSET Paths /\ PathsOf(external) \in SUBSET Paths
  BY <1>2, RefType DEF PathsOf
<1>7. \A p \in P : p <= lastPath'
  <2>1. \A x \in chunks \cup external : x.path <= lastPath'
    BY <1>2, <1>3, WrittenStays
  <2>. QED
    BY <2>1 DEF PathsOf
<1>15. PICK gen : gen = slot[s].gen
  OBVIOUS
<1>8. ~LiveGen(gen)'
  <2>1. SUFFICES ASSUME NEW t \in Streams, slot'[t].live, slot'[t].gen = slot[s].gen PROVE FALSE
    BY <1>15 DEF LiveGen, Live
  <2>2. slot \in [Streams -> Slot] /\ ~Vacant.live
    BY DEF IInv, SlotOK, Vacant
  <2>3. t # s /\ slot'[t] = slot[t]
    BY <1>1, <2>1, <2>2
  <2>. QED
    BY <1>1, <2>1, <2>3 DEF IInv, SlotOK, Live
<1>9. gc \in Queue /\ Ordered(gc)
  BY DEF IInv, QueueOK
<1> HIDE DEF chunks, external, P
<1>10. Grown(gc, queued, {slot[s].gen, 0}, P)
  <2>1. CASE ~hasColdObjects
    BY <1>9, <2>1, GrownNot
  <2>2. CASE hasColdObjects
    <3>1. Grown(gc, q, {slot[s].gen}, {})
      BY <1>2, <1>9, PushGrows DEF EnqueueStream
    <3> HIDE DEF q
    <3>2. Grown(q, r, {0}, PathsOf(external))
      BY <1>6, <3>1, UnlessGrows DEF Grown
    <3> HIDE DEF r
    <3>3. Grown(gc, r, {slot[s].gen} \cup {0}, {} \cup PathsOf(external))
      BY <1>9, <3>1, <3>2, GrownTransitive
    <3>4. Grown(gc, r, {slot[s].gen, 0}, P)
      BY <3>3 DEF Grown, P
    <3>. QED
      BY <2>2, <3>4
  <2>. QED
    BY <2>1, <2>2
<1> HIDE DEF queued
<1>11. Grown(queued, gc', {0}, PathsOf(chunks))
  BY <1>1, <1>6, <1>10, ReleaseGrows DEF Grown
<1>12. Grown(gc, gc', {slot[s].gen, 0} \cup {0}, P \cup PathsOf(chunks))
  BY <1>9, <1>10, <1>11, GrownTransitive
<1>13. Grown(gc, gc', {gen, 0}, P)
  BY <1>12, <1>15 DEF Grown, P
<1>14. \A g \in {gen, 0} : g <= lastGen' /\ ~LiveGen(g)'
  BY <1>1, <1>2, <1>3, <1>4, <1>15, <1>8, ZeroNotLive DEF CountersOK
<1>16. ObjectsOK' /\ FlusherOK' /\ CompactorOK' /\ OffloaderOK'
  BY <1>1, <1>3, RestStays
<1>17. PICK Q : Q = P
  OBVIOUS
<1>18. PICK G : G = {gen, 0}
  OBVIOUS
<1>19. Grown(gc, gc', G, Q) /\ \A p \in Q : p <= lastPath'
  BY <1>7, <1>13, <1>17, <1>18
<1>20. \A g \in G : g <= lastGen' /\ ~LiveGen(g)'
  BY <1>14, <1>18
<1>. QED
  BY <1>1, <1>3, <1>4, <1>5, <1>16, <1>19, <1>20, QueueingStep


---------------------------------------------------------------------------
(* The flush worker.                                                       *)

(* Objects are written under new paths and otherwise only deleted. *)
StoreStep ==
    /\ store' \in [Paths -> Object]
    /\ \A p \in Paths : \/ store'[p] = store[p] \/ store'[p] = NoObject
                        \/ (lastPath < p /\ p <= lastPath')

(* No page of a removed incarnation comes back. *)
PageStep ==
    /\ pages' \in [0 .. MaxGen -> SUBSET PageEntry]
    /\ \A g \in 0 .. MaxGen : \A r \in pages'[g] : r.path <= lastPath'
    /\ \A g \in 1 .. MaxGen : \/ pages'[g] = pages[g] \/ pages'[g] = {}
                              \/ pages[g] # {} \/ LiveGen(g)

LEMMA ObjectsBecome ==
    ASSUME IInv, CountersOK', lastPath <= lastPath', lastGen <= lastGen', StoreStep, PageStep,
           \A s \in Streams : slot'[s].live =>
             slot'[s].gen > lastGen \/ (slot[s].live /\ slot'[s].gen = slot[s].gen)
    PROVE  ObjectsOK' /\ Aging
<1>1. /\ \A p \in Paths : store'[p] # NoObject => p <= lastPath'
      /\ \A p \in Paths : p <= lastPath /\ store[p] = NoObject => store'[p] = NoObject
  BY StoreBecomes DEF StoreStep
<1>2. ObjectsOK'
  BY <1>1 DEF ObjectsOK, StoreStep, PageStep, Written, Stored
<1>3. \A g \in 1 .. MaxGen : g <= lastGen /\ ~LiveGen(g) /\ pages[g] = {} => pages'[g] = {}
  BY DEF PageStep
<1>. QED
  BY <1>1, <1>2, <1>3 DEF Aging

(* A step that leaves the replicated state, the collector and limbo alone. *)
LEMMA WorkerStep ==
    ASSUME IInv, CountersOK', lastPath <= lastPath', StoreStep, PageStep, UNCHANGED replicated,
           FlusherOK', CompactorOK', OffloaderOK', UNCHANGED <<collector, limbo>>
    PROVE  IInv' /\ OnlyGoneLeave
<1>1. slot' = slot /\ gc' = gc /\ lastGen' = lastGen
  BY DEF replicated
<1>2. lastGen <= lastGen'
  BY <1>1 DEF IInv, CountersOK
<1>3. ObjectsOK' /\ Aging
  BY <1>1, <1>2, ObjectsBecome
<1>4. SlotOK'
  BY <1>1, <1>2, RestStays
<1>. QED
  BY <1>1, <1>3, <1>4, QuietStep

LEMMA SameStore ==
    ASSUME IInv, store' = store
    PROVE  StoreStep
BY DEF IInv, ObjectsOK, StoreStep

LEMMA SamePages ==
    ASSUME IInv, CountersOK', lastPath <= lastPath', pages' = pages
    PROVE  PageStep
<1>1. ASSUME NEW g \in 0 .. MaxGen PROVE \A r \in pages[g] : r.path <= lastPath'
  <2>1. pages[g] \in SUBSET PageEntry /\ Written(pages[g])
    BY DEF IInv, ObjectsOK
  <2>. QED
    BY <2>1, WrittenStays
<1>. QED
  BY <1>1 DEF IInv, ObjectsOK, PageStep

LEMMA OneDeleted ==
    ASSUME IInv, NEW p \in Paths, store' = [store EXCEPT ![p] = NoObject]
    PROVE  StoreStep
<1>1. store \in [Paths -> Object]
  BY DEF IInv, ObjectsOK
<1>2. store' \in [Paths -> Object] /\ \A x \in Paths : store'[x] = store[x] \/ store'[x] = NoObject
  BY <1>1, NoObjectType
<1>. QED
  BY <1>2 DEF StoreStep

LEMMA OneWritten ==
    ASSUME IInv, lastPath < MaxPath, lastPath' = lastPath + 1, NEW object \in Object,
           store' = [store EXCEPT ![lastPath'] = object]
    PROVE  StoreStep /\ lastPath' \in Paths /\ lastPath <= lastPath' /\ lastPath' \in 0 .. MaxPath
<1>1. store \in [Paths -> Object] /\ lastPath \in Nat
  BY DEF IInv, ObjectsOK, CountersOK
<1>2. lastPath' \in Paths /\ lastPath < lastPath' /\ lastPath <= lastPath' /\ lastPath' <= lastPath'
      /\ lastPath' \in 0 .. MaxPath
  BY <1>1, ColdConstants DEF Paths
<1>3. store' \in [Paths -> Object] /\ \A x \in Paths : x # lastPath' => store'[x] = store[x]
  BY <1>1, <1>2
<1>. QED
  BY <1>2, <1>3 DEF StoreStep

(* One page becomes another. *)
LEMMA OnePage ==
    ASSUME IInv, CountersOK', lastPath <= lastPath', NEW g \in 0 .. MaxGen,
           NEW page \in SUBSET PageEntry, \A r \in page : r.path <= lastPath,
           pages' = [pages EXCEPT ![g] = page],
           g = 0 \/ pages[g] # {} \/ LiveGen(g) \/ page = {}
    PROVE  PageStep
<1>1. pages \in [0 .. MaxGen -> SUBSET PageEntry]
  BY DEF IInv, ObjectsOK
<1>2. /\ pages' \in [0 .. MaxGen -> SUBSET PageEntry] /\ pages'[g] = page
      /\ \A h \in 0 .. MaxGen : h # g => pages'[h] = pages[h]
  BY <1>1
<1>3. ASSUME NEW h \in 0 .. MaxGen PROVE \A r \in pages[h] : r.path <= lastPath'
  <2>1. pages[h] \in SUBSET PageEntry /\ Written(pages[h])
    BY DEF IInv, ObjectsOK
  <2>. QED
    BY <2>1, WrittenStays
<1>4. \A r \in page : r.path <= lastPath'
  <2>1. Written(page)
    BY DEF Written
  <2>. QED
    BY <2>1, WrittenStays
<1>5. \A h \in 0 .. MaxGen : \A r \in pages'[h] : r.path <= lastPath'
  BY <1>2, <1>3, <1>4
<1>6. ASSUME NEW h \in 1 .. MaxGen
      PROVE  pages'[h] = pages[h] \/ pages'[h] = {} \/ pages[h] # {} \/ LiveGen(h)
  <2>1. h \in 0 .. MaxGen /\ h # 0
    BY ColdConstants
  <2>2. CASE h = g
    BY <1>2, <2>1, <2>2
  <2>3. CASE h # g
    BY <1>2, <2>1, <2>3
  <2>. QED
    BY <2>2, <2>3
<1>. QED
  BY <1>2, <1>5, <1>6 DEF PageStep

LEMMA FlusherTyped ==
    ASSUME IInv, flusher # Idle
    PROVE  /\ flusher \in Flush /\ flusher.path \in Paths /\ flusher.path <= lastPath
           /\ flusher.saved \in SUBSET PageEntry /\ Written(flusher.saved)
           /\ flusher.todo \in Seq(Candidate) /\ flusher.todo # <<>>
           /\ flusher.todo[1] \in Candidate /\ flusher.todo[1].stream \in Streams
           /\ flusher.gen \in 0 .. MaxGen /\ flusher.shared \in BOOLEAN /\ flusher.published \in BOOLEAN
           /\ FlushEntry \in PageEntry /\ FlushEntry.path <= lastPath
<1>1. /\ flusher \in Flush /\ flusher.path <= lastPath /\ Written(flusher.saved) /\ flusher.todo # <<>>
  BY DEF IInv, FlusherOK
<1>2. /\ flusher.path \in Paths /\ flusher.saved \in SUBSET PageEntry
      /\ flusher.todo \in Seq(Candidate) /\ flusher.gen \in 0 .. MaxGen
      /\ flusher.shared \in BOOLEAN /\ flusher.published \in BOOLEAN
  BY <1>1 DEF Flush
<1>3. flusher.todo[1] \in Candidate
  BY <1>1, <1>2
<1>4. /\ flusher.todo[1].start \in 0 .. MaxTail /\ flusher.todo[1].end \in 0 .. MaxTail
      /\ flusher.todo[1].start < flusher.todo[1].end /\ flusher.todo[1].stream \in Streams
  BY <1>3 DEF Candidate, Plan
<1>5. FlushEntry \in PageEntry /\ FlushEntry.path = flusher.path
  BY <1>2, <1>4, RefMade DEF FlushEntry
<1>. QED
  BY <1>1, <1>2, <1>3, <1>4, <1>5

(* A discarded upload is deleted, or left to the orphan sweep. *)
LEMMA Discarded ==
    ASSUME IInv, NEW p \in Paths, Discard(p)
    PROVE  StoreStep /\ orphans' \subseteq Paths
<1>1. orphans \subseteq Paths
  BY DEF IInv, CountersOK
<1>2. CASE store' = [store EXCEPT ![p] = NoObject] /\ orphans' = orphans
  BY <1>1, <1>2, OneDeleted
<1>3. CASE orphans' = orphans \cup {p} /\ store' = store
  BY <1>1, <1>3, SameStore
<1>. QED
  BY <1>2, <1>3 DEF Discard

LEMMA OrphansStay ==
    ASSUME IInv, orphans' = orphans
    PROVE  orphans' \subseteq Paths
BY DEF IInv, CountersOK

LEMMA FlushRefusedObjects ==
    ASSUME IInv, flusher # Idle, FlushRefused
    PROVE  StoreStep /\ orphans' \subseteq Paths
<1>1. CASE flusher.published
  <2>1. store' = store /\ orphans' = orphans
    BY <1>1 DEF FlushRefused
  <2>. QED
    BY <2>1, SameStore, OrphansStay
<1>2. CASE ~flusher.published
  <2>1. Discard(flusher.path) /\ flusher.path \in Paths
    BY <1>2, FlusherTyped DEF FlushRefused
  <2>. QED
    BY <2>1, Discarded
<1>. QED
  BY <1>1, <1>2

LEMMA FlushRefusedEffect ==
    ASSUME IInv, CountersOK', lastPath' = lastPath, flusher # Idle, FlushRefused
    PROVE  StoreStep /\ PageStep /\ FlusherOK'
<1>1. lastPath <= lastPath'
  BY DEF IInv, CountersOK
<1>2. StoreStep
  BY FlushRefusedObjects
<1>3. PageStep
  <2>1. CASE pages' = pages
    BY <1>1, <2>1, SamePages
  <2>2. CASE pages' # pages
    <3>1. FlushEntry \in pages[flusher.gen] /\ pages' = [pages EXCEPT ![flusher.gen] = flusher.saved]
      BY <2>2 DEF FlushRefused, RolledBack
    <3>. QED
      BY <1>1, <3>1, FlusherTyped, OnePage DEF Written
  <2>. QED
    BY <2>1, <2>2
<1>4. FlusherOK'
  BY DEF FlusherOK, FlushRefused
<1>. QED
  BY <1>2, <1>3, <1>4


LEMMA StrandExternalStep ==
    ASSUME IInv, NEW s \in Streams, StrandExternal(s)
    PROVE  IInv' /\ OnlyGoneLeave
<1> DEFINE r == [start |-> slot[s].tail, end |-> slot[s].tail + 1, path |-> lastPath']
           object == [dir |-> 0, bytes |-> BytesOf(slot[s].gen, r)]
<1>1. /\ store' = [store EXCEPT ![lastPath'] = object]
      /\ slot[s].live /\ slot[s].tail < MaxTail /\ lastPath' = lastPath + 1 /\ lastPath < MaxPath
      /\ orphans' = orphans \cup {lastPath'}
      /\ UNCHANGED replicated
      /\ UNCHANGED <<pages, flusher, compactor, offloader, collector, limbo>>
  BY DEF StrandExternal, workers
<1>2. object \in Object
  <2>1. slot[s].gen \in 0 .. MaxGen /\ slot[s].tail \in 0 .. MaxTail
    BY SlotTyped
  <2>2. r.start = slot[s].tail /\ r.end = slot[s].tail + 1
    OBVIOUS
  <2>3. r.start \in 0 .. MaxTail /\ r.end \in 0 .. MaxTail /\ 0 \in 0 .. MaxGen
    BY <1>1, <2>1, <2>2, ColdConstants
  <2> HIDE DEF r
  <2>4. BytesOf(slot[s].gen, r) \in SUBSET ((0 .. MaxGen) \X (0 .. MaxTail))
    BY <2>1, <2>3, BytesType
  <2>. QED
    BY <2>3, <2>4 DEF Object
<1> HIDE DEF object
<1>3. StoreStep /\ lastPath' \in Paths /\ lastPath <= lastPath' /\ lastPath' \in 0 .. MaxPath
  BY <1>1, <1>2, OneWritten
<1>4. CountersOK' /\ lastGen <= lastGen'
  BY <1>1, <1>3 DEF IInv, CountersOK, replicated
<1>5. PageStep
  BY <1>1, <1>3, <1>4, SamePages
<1>6. FlusherOK' /\ CompactorOK' /\ OffloaderOK'
  BY <1>1, <1>3, <1>4, RestStays
<1>. QED
  BY <1>1, <1>3, <1>4, <1>5, <1>6, WorkerStep

LEMMA PlanFlushStep ==
    ASSUME IInv, NEW todo \in Seq(Plan), todo # <<>>, NEW shared \in BOOLEAN,
           PlanFlush(todo, shared)
    PROVE  IInv' /\ OnlyGoneLeave
<1> DEFINE object == [dir |-> IF shared THEN 0 ELSE todo[1].gen, bytes |-> Payload(todo)]
<1>1. /\ lastPath < MaxPath /\ lastPath' = lastPath + 1
      /\ store' = [store EXCEPT ![lastPath'] = object]
      /\ flusher' = [stage |-> "uploaded", path |-> lastPath', shared |-> shared,
                     todo |-> todo, published |-> FALSE, gen |-> 0, saved |-> {}]
      /\ UNCHANGED replicated
      /\ UNCHANGED <<pages, compactor, offloader, collector, limbo, orphans>>
  BY DEF PlanFlush, outcome
<1>2. todo \in Seq(Candidate)
  <2>1. \A i \in 1 .. Len(todo) : todo[i] \in Plan /\ todo[i].start < todo[i].end
    BY DEF PlanFlush
  <2>. QED
    BY <2>1 DEF Candidate
<1>3. object \in Object
  <2>1. todo[1] \in Plan
    OBVIOUS
  <2>2. todo[1].gen \in 0 .. MaxGen /\ 0 \in 0 .. MaxGen
    BY <2>1, ColdConstants DEF Plan
  <2>3. Payload(todo) \in SUBSET ((0 .. MaxGen) \X (0 .. MaxTail))
    BY PayloadFinite
  <2>. QED
    BY <2>2, <2>3 DEF Object
<1> HIDE DEF object
<1>4. StoreStep /\ lastPath' \in Paths /\ lastPath <= lastPath' /\ lastPath' \in 0 .. MaxPath
  BY <1>1, <1>3, OneWritten
<1>5. CountersOK'
  BY <1>1, <1>4 DEF IInv, CountersOK, replicated
<1>6. PageStep
  BY <1>1, <1>4, <1>5, SamePages
<1>7. FlusherOK'
  <2>1. flusher' \in Flush
    <3>1. 0 \in 0 .. MaxGen
      BY ColdConstants
    <3>. QED
      BY <1>1, <1>2, <1>4, <3>1 DEF Flush
  <2>2. flusher'.todo # <<>> /\ flusher'.path <= lastPath' /\ flusher'.saved = {}
    BY <1>1, <1>4 DEF Paths
  <2>. QED
    BY <2>1, <2>2 DEF FlusherOK, Written
<1>8. CompactorOK' /\ OffloaderOK'
  <2>1. lastGen <= lastGen'
    BY <1>1 DEF IInv, CountersOK, replicated
  <2>. QED
    BY <1>1, <1>4, <1>5, <2>1, RestStays
<1>. QED
  BY <1>1, <1>4, <1>5, <1>6, <1>7, <1>8, WorkerStep

LEMMA PlanStep ==
    ASSUME IInv, PlanExclusive \/ PlanPack
    PROVE  IInv' /\ OnlyGoneLeave
<1>1. SlotOK
  BY DEF IInv
<1>2. CASE PlanExclusive
  <2>1. PICK s \in Live : PlanFlush(Planned(<<s>>), FALSE)
    BY <1>2 DEF PlanExclusive
  <2>2. <<s>> \in Seq(Streams) /\ Len(<<s>>) = 1
    BY DEF Live
  <2>3. Planned(<<s>>) \in Seq(Plan) /\ Len(Planned(<<s>>)) = 1
    BY <1>1, <2>2, PlannedType
  <2>4. Planned(<<s>>) # <<>>
    BY <2>3
  <2>. QED
    BY <2>1, <2>3, <2>4, PlanFlushStep
<1>3. CASE PlanPack
  <2>1. PICK T \in SUBSET Live : /\ Cardinality(T) \in 1 .. PackWidth
                                 /\ \E order \in SetToSeqs(T) : PlanFlush(Planned(order), TRUE)
    BY <1>3 DEF PlanPack
  <2>2. PICK order \in SetToSeqs(T) : PlanFlush(Planned(order), TRUE)
    BY <2>1
  <2>3. order \in [1 .. Cardinality(T) -> T]
    BY DEF SetToSeqs
  <2>4. Cardinality(T) \in Nat /\ Cardinality(T) > 0
    BY <2>1
  <2>5. T \subseteq Streams
    BY DEF Live
  <2>6. order \in Seq(Streams) /\ Len(order) > 0
    BY <2>3, <2>4, <2>5
  <2>7. Planned(order) \in Seq(Plan) /\ Len(Planned(order)) = Len(order)
    BY <1>1, <2>6, PlannedType
  <2>8. Planned(order) # <<>>
    BY <2>6, <2>7
  <2>. QED
    BY <2>2, <2>7, <2>8, PlanFlushStep
<1>. QED
  BY <1>2, <1>3

LEMMA IndexFlushStep ==
    ASSUME IInv, IndexFlush
    PROVE  IInv' /\ OnlyGoneLeave
<1> DEFINE g == slot[flusher.todo[1].stream].gen
<1>1. /\ flusher.stage = "uploaded"
      /\ UNCHANGED replicated
      /\ UNCHANGED <<lastPath, compactor, offloader, collector, limbo>>
  BY DEF IndexFlush
<1>2. flusher # Idle
  BY <1>1 DEF Idle
<1>3. CountersOK' /\ lastPath <= lastPath' /\ lastGen <= lastGen'
  <2>1. orphans' \subseteq Paths
    BY <1>2, FlushRefusedObjects, OrphansStay DEF IndexFlush
  <2>. QED
    BY <1>1, <2>1 DEF IInv, CountersOK, replicated
<1>4. CompactorOK' /\ OffloaderOK'
  BY <1>1, <1>3, RestStays
<1>5. CASE FlushFits(flusher.todo[1])
  <2>1. /\ pages' = [pages EXCEPT ![g] = Clipped(pages[g], FlushEntry)]
        /\ flusher' = [flusher EXCEPT !.stage = "indexed", !.gen = g, !.saved = pages[g]]
        /\ store' = store
    BY <1>5 DEF IndexFlush
  <2>2. slot[flusher.todo[1].stream].live /\ flusher.todo[1].stream \in Streams
    BY <1>2, <1>5, FlusherTyped DEF FlushFits
  <2>3. g \in 0 .. MaxGen /\ LiveGen(g)
    BY <2>2, SlotTyped DEF LiveGen, Live
  <2> HIDE DEF g
  <2>4. pages[g] \in SUBSET PageEntry /\ Written(pages[g])
    BY <2>3 DEF IInv, ObjectsOK
  <2>5. /\ Clipped(pages[g], FlushEntry) \in SUBSET PageEntry
        /\ \A r \in Clipped(pages[g], FlushEntry) : r.path <= lastPath
    BY <1>2, <2>4, FlusherTyped DEF Clipped, Written
  <2>6. PageStep
    BY <1>3, <2>1, <2>3, <2>5, OnePage
  <2>7. StoreStep
    BY <2>1, SameStore
  <2>8. FlusherOK'
    <3>1. flusher \in Flush
      BY <1>2, FlusherTyped
    <3>2. flusher' \in Flush
      BY <2>1, <2>3, <2>4, <3>1 DEF Flush
    <3>3. flusher'.todo = flusher.todo /\ flusher'.path = flusher.path /\ flusher'.saved = pages[g]
      BY <2>1, <3>1 DEF Flush
    <3>. QED
      BY <1>1, <1>2, <2>4, <3>2, <3>3, FlusherTyped DEF FlusherOK, Written
  <2>. QED
    BY <1>1, <1>3, <1>4, <2>6, <2>7, <2>8, WorkerStep
<1>6. CASE ~FlushFits(flusher.todo[1])
  <2>1. FlushRefused
    BY <1>6 DEF IndexFlush
  <2>2. StoreStep /\ PageStep /\ FlusherOK'
    BY <1>1, <1>2, <1>3, <2>1, FlushRefusedEffect
  <2>. QED
    BY <1>1, <1>3, <1>4, <2>2, WorkerStep
<1>. QED
  BY <1>5, <1>6

LEMMA FlushColdEffect ==
    ASSUME IInv, NEW c \in Candidate, NEW path \in Paths, path <= lastPath, NEW shared \in BOOLEAN,
           FlushFits(c), FlushCold(c, path, shared), lastPath' = lastPath, orphans' \subseteq Paths
    PROVE  /\ CountersOK' /\ SlotOK' /\ gc' = gc /\ lastGen' = lastGen
           /\ \A t \in Streams : slot'[t].live =>
                slot'[t].gen > lastGen \/ (slot[t].live /\ slot'[t].gen = slot[t].gen)
<1> DEFINE s == c.stream
           new == IF shared THEN {[start |-> c.start, end |-> c.end, path |-> path]} ELSE {}
           v == [slot[s] EXCEPT !.hot = {b \in @ : b >= c.end}, !.chunks = @ \cup new]
<1>1. /\ s \in Streams /\ c.start \in 0 .. MaxTail /\ c.end \in 0 .. MaxTail /\ c.start < c.end
  BY DEF Candidate, Plan
<1>2. slot \in [Streams -> Slot] /\ refs \in [Paths -> Nat]
  BY DEF IInv, SlotOK, CountersOK
<1>3. slot' = [slot EXCEPT ![s] = v]
  BY <1>1, <1>2 DEF FlushCold
<1>4. /\ refs' = IF shared THEN [refs EXCEPT ![path] = @ + 1] ELSE refs
      /\ gc' = gc /\ lastGen' = lastGen
  BY DEF FlushCold
<1>5. CountersOK' /\ lastPath <= lastPath' /\ lastGen <= lastGen'
  <2>1. refs' \in [Paths -> Nat]
    BY <1>2, <1>4
  <2>. QED
    BY <1>4, <2>1 DEF IInv, CountersOK
<1>6. new \in SUBSET Ref /\ \A r \in new : r.path <= lastPath'
  BY <1>1, RefMade
<1> HIDE DEF new
<1>7. slot[s].live
  BY DEF FlushFits
<1> HIDE DEF s
<1>8. /\ slot[s] \in Slot /\ slot[s].tail \in 0 .. MaxTail /\ slot[s].hot \subseteq 0 .. slot[s].tail - 1
      /\ slot[s].snapshot <= slot[s].tail /\ slot[s].retained <= slot[s].snapshot
      /\ slot[s].gen \in 1 .. lastGen
      /\ slot[s].chunks \in SUBSET Ref /\ slot[s].external \in SUBSET Ref
      /\ Written(slot[s].chunks) /\ Written(slot[s].external)
  BY <1>1, <1>7, SlotTyped
<1>9. /\ v.live = slot[s].live /\ v.gen = slot[s].gen /\ v.tail = slot[s].tail
      /\ v.retained = slot[s].retained /\ v.snapshot = slot[s].snapshot
      /\ v.hot \subseteq slot[s].hot /\ v.chunks = slot[s].chunks \cup new
      /\ v.external = slot[s].external
  <2>1. v.hot = {b \in slot[s].hot : b >= c.end}
    BY <1>8 DEF Slot
  <2>. QED
    BY <1>8, <2>1 DEF Slot
<1>10. v \in Slot
  BY <1>6, <1>8 DEF Slot
<1> HIDE DEF v
<1>11. \A r \in v.chunks \cup v.external : r.path <= lastPath'
  <2>1. \A r \in slot[s].chunks : r.path <= lastPath'
    BY <1>5, <1>8, WrittenStays
  <2>2. \A r \in slot[s].external : r.path <= lastPath'
    BY <1>5, <1>8, WrittenStays
  <2>. QED
    BY <1>6, <1>9, <2>1, <2>2
<1>12. v.live /\ v.gen \in 1 .. lastGen' /\ v.gen = slot[s].gen
  BY <1>4, <1>7, <1>8, <1>9
<1>13. v.retained <= v.snapshot /\ v.snapshot <= v.tail /\ v.hot \subseteq 0 .. v.tail - 1
  BY <1>8, <1>9
<1>14. /\ SlotOK'
       /\ \A t \in Streams : slot'[t].live =>
            slot'[t].gen > lastGen \/ (slot[t].live /\ slot'[t].gen = slot[t].gen)
  BY <1>1, <1>3, <1>5, <1>7, <1>10, <1>11, <1>12, <1>13, SlotBecomes
<1>. QED
  BY <1>4, <1>5, <1>14


LEMMA NextSliceObjects ==
    ASSUME IInv, flusher # Idle, NEW published \in BOOLEAN, NextSlice(published)
    PROVE  StoreStep /\ orphans' \subseteq Paths
<1>1. CASE store' = store /\ orphans' = orphans
  BY <1>1, SameStore, OrphansStay
<1>2. CASE Discard(flusher.path)
  BY <1>2, FlusherTyped, Discarded
<1>. QED
  BY <1>1, <1>2 DEF NextSlice

LEMMA NextSliceEffect ==
    ASSUME IInv, CountersOK', lastPath' = lastPath, flusher # Idle, NEW published \in BOOLEAN,
           NextSlice(published)
    PROVE  StoreStep /\ FlusherOK'
<1> DEFINE todo == flusher.todo
<1>1. todo \in Seq(Candidate)
  BY FlusherTyped
<1>2. CASE Len(todo) > 1
  <2>1. /\ flusher' = [flusher EXCEPT !.todo = Tail(todo), !.published = published]
        /\ store' = store
    BY <1>2 DEF NextSlice
  <2>2. Tail(todo) \in Seq(Candidate) /\ Tail(todo) # <<>>
    <3>1. Len(todo) \in Nat /\ todo # <<>>
      BY <1>1, <1>2
    <3>2. Tail(todo) \in Seq(Candidate) /\ Len(Tail(todo)) = Len(todo) - 1
      BY <1>1, <3>1
    <3>3. Len(Tail(todo)) > 0
      BY <1>2, <3>1, <3>2
    <3>4. PICK t : t = Tail(todo)
      OBVIOUS
    <3>5. t \in Seq(Candidate) /\ Len(t) > 0
      BY <3>2, <3>3, <3>4
    <3>6. t # <<>>
      BY <3>5
    <3>. QED
      BY <3>4, <3>5, <3>6
  <2> HIDE DEF todo
  <2>3. flusher \in Flush
    BY FlusherTyped
  <2>4. flusher' \in Flush
    BY <2>1, <2>2, <2>3 DEF Flush
  <2>5. flusher'.todo = Tail(todo) /\ flusher'.path = flusher.path /\ flusher'.saved = flusher.saved
    BY <2>1, <2>3 DEF Flush
  <2>6. FlusherOK'
    BY <2>2, <2>4, <2>5, FlusherTyped DEF FlusherOK, Written
  <2>. QED
    BY <2>1, <2>6, SameStore
<1>3. CASE ~(Len(todo) > 1)
  <2>1. flusher' = Idle
    BY <1>3 DEF NextSlice
  <2>2. StoreStep
    BY NextSliceObjects
  <2>. QED
    BY <2>1, <2>2 DEF FlusherOK
<1>. QED
  BY <1>2, <1>3

LEMMA PublishFlushStep ==
    ASSUME IInv, PublishFlush
    PROVE  IInv' /\ OnlyGoneLeave
<1> DEFINE c == flusher.todo[1]
<1>1. flusher # Idle /\ UNCHANGED <<lastPath, compactor, offloader, collector, limbo>>
  BY DEF PublishFlush
<1>2. c \in Candidate /\ flusher.path \in Paths /\ flusher.path <= lastPath
      /\ flusher.shared \in BOOLEAN /\ flusher.published \in BOOLEAN
  BY <1>1, FlusherTyped
<1>3. lastPath <= lastPath'
  BY <1>1 DEF IInv, CountersOK
<1>4. CASE FlushFits(c)
  <2>1. FlushCold(c, flusher.path, flusher.shared) /\ NextSlice(TRUE) /\ pages' = pages
    BY <1>4 DEF PublishFlush
  <2>2. /\ CountersOK' /\ SlotOK' /\ gc' = gc /\ lastGen' = lastGen
        /\ \A t \in Streams : slot'[t].live =>
             slot'[t].gen > lastGen \/ (slot[t].live /\ slot'[t].gen = slot[t].gen)
    <3>1. orphans' \subseteq Paths
      BY <1>1, <2>1, NextSliceObjects
    <3> HIDE DEF c
    <3>. QED
      BY <1>1, <1>2, <1>4, <2>1, <3>1, FlushColdEffect
  <2>3. StoreStep /\ FlusherOK'
    BY <1>1, <2>1, <2>2, NextSliceEffect
  <2>4. lastGen <= lastGen'
    BY <2>2 DEF CountersOK
  <2>5. PageStep
    BY <1>3, <2>1, <2>2, SamePages
  <2>6. ObjectsOK' /\ Aging
    BY <1>3, <2>2, <2>3, <2>4, <2>5, ObjectsBecome
  <2>7. CompactorOK' /\ OffloaderOK'
    BY <1>1, <1>3, <2>2, <2>4, RestStays
  <2>. QED
    BY <1>1, <2>2, <2>3, <2>6, <2>7, QuietStep
<1>5. CASE ~FlushFits(c)
  <2>1. UNCHANGED replicated
    BY <1>5 DEF PublishFlush
  <2>2. CountersOK' /\ lastGen <= lastGen'
    <3>1. NextSlice(flusher.published) \/ FlushRefused
      BY <1>5 DEF PublishFlush
    <3>2. orphans' \subseteq Paths
      BY <1>1, <1>2, <3>1, NextSliceObjects, FlushRefusedObjects
    <3>. QED
      BY <1>1, <2>1, <3>2 DEF IInv, CountersOK, replicated
  <2>3. CompactorOK' /\ OffloaderOK'
    BY <1>1, <1>3, <2>2, RestStays
  <2>4. StoreStep /\ PageStep /\ FlusherOK'
    <3>1. CASE flusher.shared
      <4>1. NextSlice(flusher.published) /\ pages' = pages
        BY <1>5, <3>1 DEF PublishFlush
      <4>2. StoreStep /\ FlusherOK'
        BY <1>1, <1>2, <2>2, <4>1, NextSliceEffect
      <4>. QED
        BY <1>3, <2>2, <4>1, <4>2, SamePages
    <3>2. CASE ~flusher.shared
      <4>1. FlushRefused
        BY <1>5, <3>2 DEF PublishFlush
      <4>. QED
        BY <1>1, <2>2, <4>1, FlushRefusedEffect
    <3>. QED
      BY <3>1, <3>2
  <2>. QED
    BY <1>1, <1>3, <2>1, <2>2, <2>3, <2>4, WorkerStep
<1>. QED
  BY <1>4, <1>5

LEMMA RefuseFlushStep ==
    ASSUME IInv, RefuseFlush
    PROVE  IInv' /\ OnlyGoneLeave
<1>1. /\ flusher # Idle /\ FlushRefused /\ UNCHANGED replicated
      /\ UNCHANGED <<lastPath, compactor, offloader, collector, limbo>>
  BY DEF RefuseFlush
<1>2. CountersOK' /\ lastPath <= lastPath' /\ lastGen <= lastGen'
  BY <1>1, FlushRefusedObjects DEF IInv, CountersOK, replicated
<1>3. StoreStep /\ PageStep /\ FlusherOK'
  BY <1>1, <1>2, FlushRefusedEffect
<1>4. CompactorOK' /\ OffloaderOK'
  BY <1>1, <1>2, RestStays
<1>. QED
  BY <1>1, <1>2, <1>3, <1>4, WorkerStep

(* A step that leaves all but the workers and limbo alone. *)
LEMMA IdleStep ==
    ASSUME IInv, UNCHANGED <<slot, refs, gc, lastGen, store, pages, lastPath>>,
           orphans' \subseteq Paths,
           FlusherOK', CompactorOK', OffloaderOK', CollectorOK', LimboOK'
    PROVE  IInv' /\ OnlyGoneLeave
<1>1. CountersOK' /\ lastPath <= lastPath' /\ lastGen <= lastGen'
  BY DEF IInv, CountersOK
<1>2. Aging
  BY StillAging
<1>3. QueueOK' /\ OnlyGoneLeave
  BY <1>1, <1>2, QueueStays
<1>4. SlotOK' /\ ObjectsOK'
  BY <1>1, RestStays
<1>. QED
  BY <1>1, <1>3, <1>4 DEF IInv

(* What stays as it was, when the queue and the objects do. *)
LEMMA IdleParts ==
    ASSUME IInv, UNCHANGED <<slot, refs, gc, lastGen, store, pages, lastPath>>,
           orphans' \subseteq Paths
    PROVE  /\ flusher' = flusher => FlusherOK'
           /\ compactor' = compactor => CompactorOK'
           /\ offloader' = offloader => OffloaderOK'
           /\ collector' = collector => CollectorOK'
           /\ limbo' = limbo => LimboOK'
<1>1. CountersOK' /\ lastPath <= lastPath' /\ lastGen <= lastGen'
  BY DEF IInv, CountersOK
<1>2. Aging
  BY StillAging
<1>3. Moved(gc, gc')
  BY <1>1, <1>2, QueueStays
<1>. QED
  BY <1>1, <1>2, <1>3, RestStays, CollectorStays, LimboStays

LEMMA AbandonFlushStep ==
    ASSUME IInv, AbandonFlush
    PROVE  IInv' /\ OnlyGoneLeave
<1>1. /\ flusher # Idle /\ flusher' = Idle
      /\ orphans' \in {orphans, orphans \cup {flusher.path}}
      /\ UNCHANGED <<slot, refs, gc, lastGen, store, pages, lastPath>>
      /\ UNCHANGED <<compactor, offloader, collector, limbo>>
  BY DEF AbandonFlush, replicated
<1>2. orphans' \subseteq Paths
  BY <1>1, FlusherTyped DEF IInv, CountersOK
<1>3. FlusherOK'
  BY <1>1 DEF FlusherOK
<1>4. CompactorOK' /\ OffloaderOK' /\ CollectorOK' /\ LimboOK'
  BY <1>1, <1>2, IdleParts
<1>. QED
  BY <1>1, <1>2, <1>3, <1>4, IdleStep

LEMMA LoseFlushStep ==
    ASSUME IInv, LoseFlush
    PROVE  IInv' /\ OnlyGoneLeave
<1>1. /\ flusher # Idle /\ flusher' = Idle
      /\ limbo' = [kind |-> "flush", candidate |-> flusher.todo[1],
                   path |-> flusher.path, shared |-> flusher.shared]
      /\ orphans' = orphans \cup {flusher.path}
      /\ UNCHANGED <<slot, refs, gc, lastGen, store, pages, lastPath>>
      /\ UNCHANGED <<compactor, offloader, collector>>
  BY DEF LoseFlush, replicated
<1>2. /\ flusher.todo[1] \in Candidate /\ flusher.path \in Paths /\ flusher.path <= lastPath
      /\ flusher.shared \in BOOLEAN
  BY <1>1, FlusherTyped
<1>3. orphans' \subseteq Paths
  BY <1>1, <1>2 DEF IInv, CountersOK
<1>4. LimboOK'
  <2>1. limbo' \in LostCommand
    BY <1>1, <1>2 DEF LostCommand
  <2>2. limbo'.kind = "flush" /\ limbo'.path <= lastPath'
    BY <1>1, <1>2
  <2>. QED
    BY <2>1, <2>2 DEF LimboOK
<1>5. FlusherOK'
  BY <1>1 DEF FlusherOK
<1>6. CompactorOK' /\ OffloaderOK' /\ CollectorOK'
  BY <1>1, <1>3, IdleParts
<1>. QED
  BY <1>1, <1>3, <1>4, <1>5, <1>6, IdleStep


---------------------------------------------------------------------------
(* The compaction and offload workers.                                     *)

LEMMA PlanCompactionStep ==
    ASSUME IInv, NEW s \in Streams, NEW run \in (SUBSET Ref) \cup (SUBSET PageEntry), run # {},
           Written(run), NEW shared \in BOOLEAN, PlanCompaction(s, run, shared)
    PROVE  IInv' /\ OnlyGoneLeave
<1> DEFINE bytes == IF shared THEN UNION {BytesOf(slot[s].gen, r) : r \in run}
                    ELSE UNION {store[r.path].bytes : r \in run}
           object == [dir |-> slot[s].gen, bytes |-> bytes]
           B == (0 .. MaxGen) \X (0 .. MaxTail)
<1>1. /\ lastPath < MaxPath /\ lastPath' = lastPath + 1
      /\ store' = [store EXCEPT ![lastPath'] = object]
      /\ compactor' = [stage |-> "uploaded", stream |-> s, run |-> run, path |-> lastPath',
                       shared |-> shared, gen |-> 0, saved |-> {}]
      /\ UNCHANGED replicated
      /\ UNCHANGED <<pages, flusher, offloader, collector, limbo, orphans>>
  BY DEF PlanCompaction, outcome
<1>2. \A r \in run : /\ r.start \in 0 .. MaxTail /\ r.end \in 0 .. MaxTail /\ r.path \in Paths
  <2>1. CASE run \in SUBSET Ref
    BY <2>1, RefType
  <2>2. CASE run \in SUBSET PageEntry
    BY <2>2, RefType
  <2>. QED
    BY <2>1, <2>2
<1>3. slot[s].gen \in 0 .. MaxGen
  BY SlotTyped
<1>4. object \in Object
  <2>1. \A r \in run : BytesOf(slot[s].gen, r) \in SUBSET B
    BY <1>2, <1>3, BytesType
  <2>2. \A r \in run : store[r.path].bytes \in SUBSET B
    <3>1. \A p \in Paths : store[p] \in Object
      BY DEF IInv, ObjectsOK
    <3>. QED
      BY <1>2, <3>1 DEF Object
  <2> HIDE DEF B
  <2>3. bytes \in SUBSET B
    BY <2>1, <2>2
  <2> HIDE DEF bytes
  <2>. QED
    BY <1>3, <2>3 DEF Object, B
<1> HIDE DEF object
<1>5. StoreStep /\ lastPath' \in Paths /\ lastPath <= lastPath' /\ lastPath' \in 0 .. MaxPath
  BY <1>1, <1>4, OneWritten
<1>6. CountersOK' /\ lastGen <= lastGen'
  BY <1>1, <1>5 DEF IInv, CountersOK, replicated
<1>7. PageStep
  BY <1>1, <1>5, <1>6, SamePages
<1>8. CompactorOK'
  <2>1. compactor' \in Compaction
    <3>1. 0 \in 0 .. MaxGen
      BY ColdConstants
    <3>. QED
      BY <1>1, <1>5, <3>1 DEF Compaction
  <2>2. /\ compactor'.run = run /\ compactor'.path <= lastPath' /\ compactor'.saved = {}
    BY <1>1, <1>5 DEF Paths
  <2>3. \A r \in run : r.path <= lastPath'
    BY <1>5, <1>6, WrittenStays
  <2>. QED
    BY <2>1, <2>2, <2>3 DEF CompactorOK, Written
<1>9. FlusherOK' /\ OffloaderOK'
  BY <1>1, <1>5, <1>6, RestStays
<1>. QED
  BY <1>1, <1>5, <1>6, <1>7, <1>8, <1>9, WorkerStep

LEMMA PlanCompactionsStep ==
    ASSUME IInv, PlanShared \/ PlanRaw
    PROVE  IInv' /\ OnlyGoneLeave
<1>1. CASE PlanShared
  <2>1. PICK s \in Live : slot[s].chunks # {} /\ PlanCompaction(s, SharedRun(s), TRUE)
    BY <1>1 DEF PlanShared
  <2>2. s \in Streams
    BY DEF Live
  <2>3. SharedRun(s) \subseteq slot[s].chunks /\ SharedRun(s) # {}
    BY <2>1, <2>2, SharedRunType DEF IInv
  <2>4. slot[s].chunks \in SUBSET Ref /\ Written(slot[s].chunks)
    BY <2>2, SlotTyped
  <2>5. SharedRun(s) \in SUBSET Ref /\ Written(SharedRun(s))
    BY <2>3, <2>4 DEF Written
  <2>. QED
    BY <2>1, <2>2, <2>3, <2>5, PlanCompactionStep
<1>2. CASE PlanRaw
  <2>1. PICK s \in Live : \E run \in RawRuns(s) : PlanCompaction(s, run, FALSE)
    BY <1>2 DEF PlanRaw
  <2>2. PICK run \in RawRuns(s) : PlanCompaction(s, run, FALSE)
    BY <2>1
  <2>3. s \in Streams
    BY DEF Live
  <2>4. run \subseteq pages[slot[s].gen] /\ run # {}
    BY DEF RawRuns, Contiguous
  <2>5. pages[slot[s].gen] \in SUBSET PageEntry /\ Written(pages[slot[s].gen])
    BY <2>3, SlotTyped DEF IInv, ObjectsOK
  <2>6. run \in SUBSET PageEntry /\ Written(run)
    BY <2>4, <2>5 DEF Written
  <2>. QED
    BY <2>2, <2>3, <2>4, <2>6, PlanCompactionStep
<1>. QED
  BY <1>1, <1>2

LEMMA CompactorTyped ==
    ASSUME IInv, compactor # Idle
    PROVE  /\ compactor \in Compaction /\ compactor.path \in Paths /\ compactor.path <= lastPath
           /\ compactor.saved \in SUBSET PageEntry /\ Written(compactor.saved)
           /\ compactor.run \in (SUBSET Ref) \cup (SUBSET PageEntry) /\ compactor.run # {}
           /\ Written(compactor.run) /\ compactor.stream \in Streams
           /\ compactor.gen \in 0 .. MaxGen /\ compactor.shared \in BOOLEAN
           /\ Replacement \in PageEntry /\ Replacement.path <= lastPath
           /\ PathsOf(compactor.run) \in SUBSET Paths
           /\ \A p \in PathsOf(compactor.run) : p <= lastPath
<1>1. /\ compactor \in Compaction /\ compactor.path <= lastPath /\ Written(compactor.saved)
      /\ compactor.run # {} /\ Written(compactor.run)
  BY DEF IInv, CompactorOK
<1>2. /\ compactor.path \in Paths /\ compactor.saved \in SUBSET PageEntry
      /\ compactor.run \in (SUBSET Ref) \cup (SUBSET PageEntry) /\ compactor.stream \in Streams
      /\ compactor.gen \in 0 .. MaxGen /\ compactor.shared \in BOOLEAN
  BY <1>1 DEF Compaction
<1>3. /\ First(compactor.run) \in 0 .. MaxTail /\ Beyond(compactor.run) \in 0 .. MaxTail
      /\ First(compactor.run) < Beyond(compactor.run)
      /\ PathsOf(compactor.run) \subseteq Paths
  BY <1>1, <1>2, RunBounds
<1>4. Replacement \in PageEntry /\ Replacement.path = compactor.path
  BY <1>2, <1>3, RefMade DEF Replacement
<1>5. \A p \in PathsOf(compactor.run) : p <= lastPath
  BY <1>1 DEF PathsOf, Written
<1>. QED
  BY <1>1, <1>2, <1>3, <1>4, <1>5

LEMMA CompactionRefusedObjects ==
    ASSUME IInv, compactor # Idle, CompactionRefused
    PROVE  StoreStep /\ orphans' \subseteq Paths
BY CompactorTyped, Discarded DEF CompactionRefused

LEMMA CompactionRefusedEffect ==
    ASSUME IInv, CountersOK', lastPath' = lastPath, compactor # Idle, CompactionRefused
    PROVE  StoreStep /\ PageStep /\ CompactorOK'
<1>1. lastPath <= lastPath'
  BY DEF IInv, CountersOK
<1>2. StoreStep
  BY CompactionRefusedObjects
<1>3. PageStep
  <2>1. CASE pages' = pages
    BY <1>1, <2>1, SamePages
  <2>2. CASE pages' # pages
    <3>1. /\ Replacement \in pages[compactor.gen]
          /\ pages' = [pages EXCEPT ![compactor.gen] = compactor.saved]
      BY <2>2 DEF CompactionRefused, RolledBack
    <3>. QED
      BY <1>1, <3>1, CompactorTyped, OnePage DEF Written
  <2>. QED
    BY <2>1, <2>2
<1>4. CompactorOK'
  BY DEF CompactorOK, CompactionRefused
<1>. QED
  BY <1>2, <1>3, <1>4

LEMMA IndexCompactionStep ==
    ASSUME IInv, IndexCompaction
    PROVE  IInv' /\ OnlyGoneLeave
<1> DEFINE g == slot[compactor.stream].gen
           page == IF compactor.shared THEN Clipped(pages[g], Replacement)
                   ELSE (pages[g] \ compactor.run) \cup {Replacement}
<1>1. /\ compactor.stage = "uploaded"
      /\ UNCHANGED replicated
      /\ UNCHANGED <<lastPath, flusher, offloader, collector, limbo>>
  BY DEF IndexCompaction
<1>2. compactor # Idle
  BY <1>1 DEF Idle
<1>3. CountersOK' /\ lastPath <= lastPath' /\ lastGen <= lastGen'
  <2>1. orphans' = orphans \/ CompactionRefused
    BY DEF IndexCompaction
  <2>2. orphans' \subseteq Paths
    BY <1>2, <2>1, CompactionRefusedObjects, OrphansStay
  <2>. QED
    BY <1>1, <2>2 DEF IInv, CountersOK, replicated
<1>4. FlusherOK' /\ OffloaderOK'
  BY <1>1, <1>3, RestStays
<1>5. CASE ~compactor.shared /\ ~(compactor.run \subseteq pages[g])
  <2>1. CompactionRefused
    BY <1>5 DEF IndexCompaction
  <2>2. StoreStep /\ PageStep /\ CompactorOK'
    BY <1>1, <1>2, <1>3, <2>1, CompactionRefusedEffect
  <2>. QED
    BY <1>1, <1>3, <1>4, <2>2, WorkerStep
<1>6. CASE ~(~compactor.shared /\ ~(compactor.run \subseteq pages[g]))
  <2>1. /\ pages' = [pages EXCEPT ![g] = page]
        /\ compactor' = [compactor EXCEPT !.stage = "indexed", !.gen = g, !.saved = pages[g]]
        /\ store' = store
    BY <1>6 DEF IndexCompaction
  <2>2. compactor.stream \in Streams
    BY <1>2, CompactorTyped
  <2>3. g \in 0 .. MaxGen /\ (g = 0 \/ LiveGen(g))
    <3>1. ~slot[compactor.stream].live => g = 0
      BY <2>2, SlotTyped DEF Vacant
    <3>. QED
      BY <2>2, <3>1, SlotTyped DEF LiveGen, Live
  <2> HIDE DEF g
  <2>4. pages[g] \in SUBSET PageEntry /\ Written(pages[g])
    BY <2>3 DEF IInv, ObjectsOK
  <2>5. page \in SUBSET PageEntry /\ \A r \in page : r.path <= lastPath
    BY <1>2, <2>4, CompactorTyped DEF Clipped, Written
  <2> HIDE DEF page
  <2>6. PageStep
    BY <1>3, <2>1, <2>3, <2>5, OnePage
  <2>7. StoreStep
    BY <2>1, SameStore
  <2>8. CompactorOK'
    <3>1. compactor \in Compaction
      BY <1>2, CompactorTyped
    <3>2. compactor' \in Compaction
      BY <2>1, <2>3, <2>4, <3>1 DEF Compaction
    <3>3. /\ compactor'.run = compactor.run /\ compactor'.path = compactor.path
          /\ compactor'.saved = pages[g]
      BY <2>1, <3>1 DEF Compaction
    <3>. QED
      BY <1>1, <1>2, <2>4, <3>2, <3>3, CompactorTyped DEF CompactorOK, Written
  <2>. QED
    BY <1>1, <1>3, <1>4, <2>6, <2>7, <2>8, WorkerStep
<1>. QED
  BY <1>5, <1>6


LEMMA SlotEqual ==
    ASSUME NEW v \in Slot, NEW w \in Slot, v.live = w.live, v.gen = w.gen, v.tail = w.tail,
           v.retained = w.retained, v.snapshot = w.snapshot, v.hot = w.hot,
           v.chunks = w.chunks, v.external = w.external
    PROVE  v = w
BY DEF Slot

(* Refs leave a stream's record, whether the name is in use or not. *)
LEMMA RefsLeave ==
    ASSUME IInv, CountersOK', lastPath <= lastPath', lastGen' = lastGen,
           NEW s \in Streams, NEW v \in Slot, slot' = [slot EXCEPT ![s] = v],
           v.live = slot[s].live, v.gen = slot[s].gen, v.tail = slot[s].tail,
           v.retained = slot[s].retained, v.snapshot = slot[s].snapshot, v.hot = slot[s].hot,
           v.chunks \subseteq slot[s].chunks, v.external \subseteq slot[s].external
    PROVE  /\ SlotOK'
           /\ \A t \in Streams : slot'[t].live =>
                slot'[t].gen > lastGen \/ (slot[t].live /\ slot'[t].gen = slot[t].gen)
<1>1. /\ slot[s] \in Slot /\ slot[s].tail \in 0 .. MaxTail /\ slot[s].hot \subseteq 0 .. slot[s].tail - 1
      /\ slot[s].snapshot <= slot[s].tail /\ slot[s].retained <= slot[s].snapshot
      /\ slot[s].chunks \in SUBSET Ref /\ slot[s].external \in SUBSET Ref
      /\ Written(slot[s].chunks) /\ Written(slot[s].external)
      /\ slot[s].live => slot[s].gen \in 1 .. lastGen
      /\ ~slot[s].live => slot[s] = Vacant
  BY SlotTyped
<1>2. lastGen <= lastGen'
  BY DEF IInv, CountersOK
<1>3. \A r \in v.chunks \cup v.external : r.path <= lastPath'
  <2>1. \A r \in slot[s].chunks : r.path <= lastPath'
    BY <1>1, WrittenStays
  <2>2. \A r \in slot[s].external : r.path <= lastPath'
    BY <1>1, WrittenStays
  <2>. QED
    BY <2>1, <2>2
<1>4. ASSUME ~v.live PROVE v = Vacant
  <2>1. slot[s] = Vacant
    BY <1>1, <1>4
  <2>2. v.chunks = Vacant.chunks /\ v.external = Vacant.external
    BY <2>1 DEF Vacant
  <2>. QED
    BY <2>1, <2>2, VacantType, SlotEqual
<1>5. v.live => /\ v.gen \in 1 .. lastGen'
                /\ slot[s].live /\ v.gen = slot[s].gen
  BY <1>1
<1>6. v.retained <= v.snapshot /\ v.snapshot <= v.tail /\ v.hot \subseteq 0 .. v.tail - 1
  BY <1>1
<1>. QED
  BY <1>2, <1>3, <1>4, <1>5, <1>6, SlotBecomes

LEMMA CompactColdEffect ==
    ASSUME IInv, NEW job \in Compaction, Written(job.run), CompactCold(job),
           lastPath' = lastPath, orphans' \subseteq Paths
    PROVE  /\ CountersOK' /\ SlotOK' /\ lastGen' = lastGen
           /\ \A t \in Streams : slot'[t].live =>
                slot'[t].gen > lastGen \/ (slot[t].live /\ slot'[t].gen = slot[t].gen)
           /\ Grown(gc, gc', {0}, PathsOf(job.run))
           /\ \A p \in PathsOf(job.run) : p <= lastPath'
<1> DEFINE s == job.stream
           run == job.run
           v == [slot[s] EXCEPT !.chunks = @ \ run]
<1>1. /\ s \in Streams /\ run \in (SUBSET Ref) \cup (SUBSET PageEntry)
      /\ job.shared \in BOOLEAN
  BY DEF Compaction
<1>2. PathsOf(run) \in SUBSET Paths
  <2>1. CASE run \in SUBSET Ref
    BY <2>1, RefType DEF PathsOf
  <2>2. CASE run \in SUBSET PageEntry
    BY <2>2, RefType DEF PathsOf
  <2>. QED
    BY <1>1, <2>1, <2>2
<1>3. \A p \in PathsOf(run) : p <= lastPath'
  BY DEF PathsOf, Written
<1>4. lastPath <= lastPath' /\ gc \in Queue /\ Ordered(gc) /\ 0 \in 0 .. MaxGen
  BY ColdConstants DEF IInv, CountersOK, QueueOK
<1>5. CASE job.shared
  <2>1. CompactShared(s, run)
    BY <1>5 DEF CompactCold
  <2>2. slot' = [slot EXCEPT ![s] = v] /\ lastGen' = lastGen
    BY <2>1 DEF CompactShared
  <2>3. Grown(gc, gc', {0}, PathsOf(run)) /\ refs' \in [Paths -> Nat]
    <3>1. CASE SharedRunMatches(s, run)
      BY <1>2, <1>4, <2>1, <3>1, ReleaseGrows, ReleasedType DEF CompactShared
    <3>2. CASE ~SharedRunMatches(s, run)
      BY <1>4, <2>1, <3>2, GrownNot DEF CompactShared, IInv, CountersOK
    <3>. QED
      BY <3>1, <3>2
  <2>4. CountersOK'
    BY <2>2, <2>3 DEF IInv, CountersOK
  <2> HIDE DEF s, run
  <2>5. slot[s] \in Slot
    BY <1>1, SlotTyped
  <2>6. /\ v.live = slot[s].live /\ v.gen = slot[s].gen /\ v.tail = slot[s].tail
        /\ v.retained = slot[s].retained /\ v.snapshot = slot[s].snapshot /\ v.hot = slot[s].hot
        /\ v.chunks \subseteq slot[s].chunks /\ v.external = slot[s].external
    <3>1. v.chunks = slot[s].chunks \ run
      BY <2>5 DEF Slot
    <3>. QED
      BY <2>5, <3>1 DEF Slot
  <2>7. v \in Slot
    BY <2>5 DEF Slot
  <2> HIDE DEF v
  <2>8. /\ SlotOK'
        /\ \A t \in Streams : slot'[t].live =>
             slot'[t].gen > lastGen \/ (slot[t].live /\ slot'[t].gen = slot[t].gen)
    BY <1>1, <1>4, <2>2, <2>4, <2>6, <2>7, RefsLeave
  <2>. QED
    BY <1>3, <2>2, <2>3, <2>4, <2>8 DEF run
<1>6. CASE ~job.shared
  <2>1. CompactRaw(s, run)
    BY <1>6 DEF CompactCold
  <2>2. slot' = slot /\ lastGen' = lastGen /\ refs' = refs
    BY <2>1 DEF CompactRaw
  <2>3. Grown(gc, gc', {0}, PathsOf(run))
    <3>1. CASE slot[s].live
      BY <1>2, <1>4, <2>1, <3>1, PushGrows DEF CompactRaw, EnqueueAfter
    <3>2. CASE ~slot[s].live
      BY <1>4, <2>1, <3>2, GrownNot DEF CompactRaw
    <3>. QED
      BY <3>1, <3>2
  <2>4. CountersOK' /\ lastGen <= lastGen'
    BY <2>2 DEF IInv, CountersOK
  <2>5. SlotOK'
    BY <1>4, <2>2, <2>4, RestStays
  <2>. QED
    BY <1>3, <2>2, <2>3, <2>4, <2>5
<1>. QED
  BY <1>5, <1>6

LEMMA PublishCompactionStep ==
    ASSUME IInv, PublishCompaction
    PROVE  IInv' /\ OnlyGoneLeave
<1> DEFINE P == PathsOf(compactor.run)
<1>1. /\ compactor.stage = "indexed" /\ CompactCold(compactor)
      /\ UNCHANGED <<lastPath, flusher, offloader, collector, limbo>>
  BY DEF PublishCompaction
<1>2. compactor # Idle /\ orphans' \subseteq Paths
  <2>1. compactor # Idle
    BY <1>1 DEF Idle
  <2>2. orphans' = orphans \/ CompactionRefused
    BY DEF PublishCompaction
  <2>. QED
    BY <2>1, <2>2, CompactionRefusedObjects, OrphansStay
<1>3. compactor \in Compaction /\ Written(compactor.run)
  BY <1>2, CompactorTyped
<1>4. /\ CountersOK' /\ SlotOK' /\ lastGen' = lastGen
      /\ \A t \in Streams : slot'[t].live =>
           slot'[t].gen > lastGen \/ (slot[t].live /\ slot'[t].gen = slot[t].gen)
      /\ Grown(gc, gc', {0}, P)
      /\ \A p \in P : p <= lastPath'
  BY <1>1, <1>2, <1>3, CompactColdEffect
<1>5. lastPath <= lastPath' /\ lastGen <= lastGen'
  BY <1>1, <1>4 DEF IInv, CountersOK
<1>6. StoreStep /\ PageStep /\ CompactorOK'
  <2>1. CASE CompactAccepted(compactor)
    <3>1. compactor' = Idle /\ UNCHANGED <<store, pages>>
      BY <2>1 DEF PublishCompaction
    <3>. QED
      BY <1>4, <1>5, <3>1, SameStore, SamePages DEF CompactorOK
  <2>2. CASE ~CompactAccepted(compactor)
    <3>1. CompactionRefused
      BY <2>2 DEF PublishCompaction
    <3>. QED
      BY <1>1, <1>2, <1>4, <3>1, CompactionRefusedEffect
  <2>. QED
    BY <2>1, <2>2
<1>7. ObjectsOK' /\ Aging
  BY <1>4, <1>5, <1>6, ObjectsBecome
<1>8. FlusherOK' /\ OffloaderOK'
  BY <1>1, <1>4, <1>5, RestStays
<1>9. \A g \in {0} : g <= lastGen' /\ ~LiveGen(g)'
  BY <1>4, ZeroNotLive DEF CountersOK
<1> HIDE DEF P
<1>. QED
  BY <1>1, <1>4, <1>6, <1>7, <1>8, <1>9, QueueingStep

LEMMA RefuseCompactionStep ==
    ASSUME IInv, RefuseCompaction
    PROVE  IInv' /\ OnlyGoneLeave
<1>1. /\ compactor.stage = "indexed" /\ CompactionRefused /\ UNCHANGED replicated
      /\ UNCHANGED <<lastPath, flusher, offloader, collector, limbo>>
  BY DEF RefuseCompaction
<1>2. compactor # Idle
  BY <1>1 DEF Idle
<1>3. CountersOK' /\ lastPath <= lastPath' /\ lastGen <= lastGen'
  BY <1>1, <1>2, CompactionRefusedObjects DEF IInv, CountersOK, replicated
<1>4. StoreStep /\ PageStep /\ CompactorOK'
  BY <1>1, <1>2, <1>3, CompactionRefusedEffect
<1>5. FlusherOK' /\ OffloaderOK'
  BY <1>1, <1>3, RestStays
<1>. QED
  BY <1>1, <1>3, <1>4, <1>5, WorkerStep

LEMMA AbandonCompactionStep ==
    ASSUME IInv, AbandonCompaction
    PROVE  IInv' /\ OnlyGoneLeave
<1>1. /\ compactor # Idle /\ compactor' = Idle
      /\ orphans' \subseteq orphans \cup {compactor.path} \cup PathsOf(compactor.run)
      /\ UNCHANGED <<slot, refs, gc, lastGen, store, pages, lastPath>>
      /\ UNCHANGED <<flusher, offloader, collector, limbo>>
  BY DEF AbandonCompaction, replicated
<1>2. orphans' \subseteq Paths
  BY <1>1, CompactorTyped DEF IInv, CountersOK
<1>3. CompactorOK'
  BY <1>1 DEF CompactorOK
<1>4. FlusherOK' /\ OffloaderOK' /\ CollectorOK' /\ LimboOK'
  BY <1>1, <1>2, IdleParts
<1>. QED
  BY <1>1, <1>2, <1>3, <1>4, IdleStep

LEMMA LoseCompactionStep ==
    ASSUME IInv, LoseCompaction
    PROVE  IInv' /\ OnlyGoneLeave
<1>1. /\ compactor.stage = "indexed" /\ compactor' = Idle
      /\ limbo' = [kind |-> "compact", job |-> compactor]
      /\ orphans' = orphans \cup {compactor.path} \cup PathsOf(compactor.run)
      /\ UNCHANGED <<slot, refs, gc, lastGen, store, pages, lastPath>>
      /\ UNCHANGED <<flusher, offloader, collector>>
  BY DEF LoseCompaction, replicated
<1>2. compactor # Idle
  BY <1>1 DEF Idle
<1>3. /\ compactor \in Compaction /\ Written(compactor.run) /\ compactor.path \in Paths
      /\ PathsOf(compactor.run) \in SUBSET Paths
  BY <1>2, CompactorTyped
<1>4. orphans' \subseteq Paths
  BY <1>1, <1>3 DEF IInv, CountersOK
<1>5. LimboOK'
  <2>1. limbo' \in LostCommand
    BY <1>1, <1>3 DEF LostCommand
  <2>2. limbo'.kind = "compact" /\ limbo'.job = compactor
    BY <1>1
  <2>3. \A r \in compactor.run : r.path <= lastPath'
    BY <1>1, <1>3 DEF Written
  <2>. QED
    BY <2>1, <2>2, <2>3 DEF LimboOK, Written
<1>6. CompactorOK'
  BY <1>1 DEF CompactorOK
<1>7. FlusherOK' /\ OffloaderOK' /\ CollectorOK'
  BY <1>1, <1>4, IdleParts
<1>. QED
  BY <1>1, <1>4, <1>5, <1>6, <1>7, IdleStep


LEMMA EntryMade ==
    ASSUME NEW r \in Ref, NEW x \in BOOLEAN
    PROVE  Entry(r, x) \in PageEntry
BY DEF PageEntry

LEMMA IndexOffloadStep ==
    ASSUME IInv, NEW s \in Streams, IndexOffload(s)
    PROVE  IInv' /\ OnlyGoneLeave
<1> DEFINE g == slot[s].gen
           new == {Entry(r, TRUE) : r \in slot[s].external}
           page == {f \in pages[g] : \A e \in new : f = e \/ ~Overlap(e, f)} \cup new
<1>1. /\ slot[s].live
      /\ offloader' = [stage |-> "indexed", stream |-> s, refs |-> slot[s].external]
      /\ pages' = [pages EXCEPT ![g] = page]
      /\ UNCHANGED replicated
      /\ UNCHANGED <<store, lastPath, flusher, compactor, collector, limbo, orphans>>
  BY DEF IndexOffload, outcome
<1>2. CountersOK' /\ lastPath <= lastPath' /\ lastGen <= lastGen'
  BY <1>1 DEF IInv, CountersOK, replicated
<1>3. g \in 0 .. MaxGen /\ LiveGen(g)
  BY <1>1, SlotTyped DEF LiveGen, Live
<1>4. new \in SUBSET PageEntry /\ \A e \in new : e.path <= lastPath
  <2>1. slot[s].external \in SUBSET Ref /\ Written(slot[s].external)
    BY SlotTyped
  <2>2. \A r \in slot[s].external : Entry(r, TRUE) \in PageEntry /\ Entry(r, TRUE).path = r.path
    <3>1. \A r \in slot[s].external : Entry(r, TRUE) \in PageEntry
      BY <2>1, EntryMade
    <3>2. \A r \in slot[s].external : Entry(r, TRUE).path = r.path
      BY DEF Entry
    <3>. QED
      BY <3>1, <3>2
  <2>. QED
    BY <2>1, <2>2 DEF Written
<1> HIDE DEF g, new
<1>5. pages[g] \in SUBSET PageEntry /\ Written(pages[g])
  BY <1>3 DEF IInv, ObjectsOK
<1>6. page \in SUBSET PageEntry /\ \A r \in page : r.path <= lastPath
  BY <1>4, <1>5 DEF Written
<1> HIDE DEF page
<1>7. PageStep
  BY <1>1, <1>2, <1>3, <1>6, OnePage
<1>8. StoreStep
  BY <1>1, SameStore
<1>9. OffloaderOK'
  BY <1>1, SlotTyped DEF OffloaderOK, Offload
<1>10. FlusherOK' /\ CompactorOK'
  BY <1>1, <1>2, RestStays
<1>. QED
  BY <1>1, <1>2, <1>7, <1>8, <1>9, <1>10, WorkerStep

LEMMA OffloadEffect ==
    ASSUME IInv, NEW s \in Streams, NEW rs, slot' = [slot EXCEPT ![s].external = @ \ rs],
           UNCHANGED <<refs, gc, lastGen, lastPath, orphans>>
    PROVE  /\ CountersOK' /\ SlotOK' /\ lastPath <= lastPath' /\ lastGen <= lastGen'
           /\ \A t \in Streams : slot'[t].live =>
                slot'[t].gen > lastGen \/ (slot[t].live /\ slot'[t].gen = slot[t].gen)
<1> DEFINE v == [slot[s] EXCEPT !.external = @ \ rs]
<1>1. CountersOK' /\ lastPath <= lastPath' /\ lastGen <= lastGen'
  BY DEF IInv, CountersOK
<1>2. slot' = [slot EXCEPT ![s] = v]
  OBVIOUS
<1>3. slot[s] \in Slot
  BY SlotTyped
<1>4. /\ v.live = slot[s].live /\ v.gen = slot[s].gen /\ v.tail = slot[s].tail
      /\ v.retained = slot[s].retained /\ v.snapshot = slot[s].snapshot /\ v.hot = slot[s].hot
      /\ v.chunks = slot[s].chunks /\ v.external \subseteq slot[s].external
  <2>1. v.external = slot[s].external \ rs
    BY <1>3 DEF Slot
  <2>. QED
    BY <1>3, <2>1 DEF Slot
<1>5. v \in Slot
  BY <1>3 DEF Slot
<1> HIDE DEF v
<1>. QED
  BY <1>1, <1>2, <1>4, <1>5, RefsLeave

LEMMA PublishOffloadStep ==
    ASSUME IInv, PublishOffload
    PROVE  IInv' /\ OnlyGoneLeave
<1>1. /\ offloader # Idle /\ offloader' = Idle
      /\ slot' = [slot EXCEPT ![offloader.stream].external = @ \ offloader.refs]
      /\ UNCHANGED <<refs, gc, lastGen, lastPath, orphans>>
      /\ UNCHANGED <<store, pages, flusher, compactor, collector, limbo>>
  BY DEF PublishOffload, outcome
<1>2. offloader.stream \in Streams
  BY <1>1 DEF IInv, OffloaderOK, Offload
<1>3. /\ CountersOK' /\ SlotOK' /\ lastPath <= lastPath' /\ lastGen <= lastGen'
      /\ \A t \in Streams : slot'[t].live =>
           slot'[t].gen > lastGen \/ (slot[t].live /\ slot'[t].gen = slot[t].gen)
  BY <1>1, <1>2, OffloadEffect
<1>4. StoreStep /\ PageStep
  BY <1>1, <1>3, SameStore, SamePages
<1>5. ObjectsOK' /\ Aging
  BY <1>3, <1>4, ObjectsBecome
<1>6. FlusherOK' /\ CompactorOK'
  BY <1>1, <1>3, RestStays
<1>7. OffloaderOK'
  BY <1>1 DEF OffloaderOK
<1>. QED
  BY <1>1, <1>3, <1>5, <1>6, <1>7, QuietStep

LEMMA EndOffloadStep ==
    ASSUME IInv, RefuseOffload \/ LoseOffload
    PROVE  IInv' /\ OnlyGoneLeave
<1>1. /\ offloader # Idle /\ offloader' = Idle
      /\ UNCHANGED <<slot, refs, gc, lastGen, store, pages, lastPath>>
      /\ UNCHANGED <<flusher, compactor, collector, orphans>>
  BY DEF RefuseOffload, LoseOffload, replicated, outcome
<1>2. orphans' \subseteq Paths
  BY <1>1 DEF IInv, CountersOK
<1>3. FlusherOK' /\ CompactorOK' /\ CollectorOK' /\ OffloaderOK'
  BY <1>1, <1>2, IdleParts DEF OffloaderOK
<1>4. LimboOK'
  <2>1. CASE RefuseOffload
    BY <1>1, <1>2, <2>1, IdleParts DEF RefuseOffload, outcome
  <2>2. CASE LoseOffload
    <3>1. limbo' = [kind |-> "offload", stream |-> offloader.stream, refs |-> offloader.refs]
      BY <2>2 DEF LoseOffload
    <3>2. offloader.stream \in Streams /\ offloader.refs \in SUBSET Ref
      BY <1>1 DEF IInv, OffloaderOK, Offload
    <3>3. limbo' \in LostCommand /\ limbo'.kind = "offload"
      BY <3>1, <3>2 DEF LostCommand
    <3>. QED
      BY <3>3 DEF LimboOK
  <2>. QED
    BY <2>1, <2>2
<1>. QED
  BY <1>1, <1>2, <1>3, <1>4, IdleStep

---------------------------------------------------------------------------
(* The GC worker.                                                          *)

LEMMA CollectorTyped ==
    ASSUME IInv, collector # Idle
    PROVE  /\ collector \in Collection /\ collector.acked \in Nat
           /\ collector.todo \in Seq(GcEntry) /\ Len(collector.todo) \in Nat
           /\ collector.acked < gc.next
           /\ \A i \in 1 .. Len(collector.todo) :
                /\ collector.todo[i] \in GcEntry /\ collector.todo[i].seq \in Nat
                /\ collector.todo[i].seq < gc.next /\ collector.todo[i].gen \in 0 .. MaxGen
                /\ collector.todo[i].paths \in SUBSET Paths
                /\ (collector.todo[i].gen # 0 => collector.todo[i].paths = {})
           /\ \A e \in Entries(gc) : e.seq <= collector.acked => Gone(e)
           /\ \A e \in Entries(gc) : \A i \in 1 .. Len(collector.todo) :
                e.seq <= collector.todo[i].seq =>
                  Gone(e) \/ \E j \in 1 .. i : e = collector.todo[j]
<1>1. collector \in Collection /\ CollectorOK
  BY DEF IInv, CollectorOK
<1>2. collector.acked \in Nat /\ collector.todo \in Seq(GcEntry)
  BY <1>1 DEF Collection
<1>3. \A i \in 1 .. Len(collector.todo) : collector.todo[i] \in GcEntry
  BY <1>2
<1>4. Len(collector.todo) \in Nat
  BY <1>2
<1>. QED
  BY <1>1, <1>2, <1>3, <1>4 DEF CollectorOK, GcEntry

LEMMA PlanGcStep ==
    ASSUME IInv, PlanGc
    PROVE  IInv' /\ OnlyGoneLeave
<1> DEFINE n == Len(gc.pending)
           m == Min({GcBatch, n})
           todo == SubSeq(gc.pending, 1, m)
<1>1. /\ collector' = [stage |-> "working", acked |-> 0, todo |-> todo]
      /\ UNCHANGED <<slot, refs, gc, lastGen, store, pages, lastPath>>
      /\ UNCHANGED <<flusher, compactor, offloader, limbo, orphans>>
  BY DEF PlanGc, replicated, outcome
<1>2. /\ gc.pending \in Seq(GcEntry) /\ n \in Nat /\ gc.next \in Nat \ {0}
      /\ \A e \in Entries(gc) : e.seq \in Nat /\ e.seq # 0
  BY EntriesType DEF IInv, QueueOK
<1>3. m \in Nat /\ m <= n
  <2>1. GcBatch \in Nat
    BY ColdConstants
  <2>2. m \in {GcBatch, n} /\ \A y \in {GcBatch, n} : m <= y
    <3>1. {GcBatch, n} \in SUBSET Nat /\ {GcBatch, n} # {}
      BY <1>2, <2>1
    <3>. QED
      BY <3>1, MinType
  <2>. QED
    BY <1>2, <2>1, <2>2
<1> HIDE DEF m
<1>4. todo \in Seq(GcEntry) /\ Len(todo) = m /\ \A i \in 1 .. m : todo[i] = gc.pending[i] /\ i \in 1 .. n
  BY <1>2, <1>3
<1> HIDE DEF todo
<1>5. CollectorOK'
  <2>1. collector' \in Collection
    BY <1>1, <1>4 DEF Collection
  <2>2. collector'.acked = 0 /\ collector'.todo = todo /\ collector'.stage = "working"
    BY <1>1
  <2>3. \A i \in 1 .. Len(todo) : todo[i].seq < gc'.next
    BY <1>1, <1>4 DEF IInv, QueueOK, Ordered
  <2>4. 0 < gc'.next
    BY <1>1, <1>2
  <2>5. \A e \in Entries(gc') : ~(e.seq <= 0)
    BY <1>1, <1>2
  <2>6. ASSUME NEW e \in Entries(gc'), NEW i \in 1 .. Len(todo), e.seq <= todo[i].seq
        PROVE  \E j \in 1 .. i : e = todo[j]
    <3>1. PICK k \in 1 .. n : e = gc.pending[k]
      BY <1>1 DEF Entries
    <3>2. i \in 1 .. n /\ todo[i] = gc.pending[i] /\ i \in 1 .. m
      BY <1>4
    <3>3. k <= i
      <4>1. SUFFICES ASSUME i < k PROVE FALSE
        BY <1>2, <3>1, <3>2
      <4>2. gc.pending[i].seq < gc.pending[k].seq
        BY <3>1, <3>2, <4>1 DEF IInv, QueueOK, Ordered
      <4>3. gc.pending[i].seq \in Nat /\ gc.pending[k].seq \in Nat
        BY <1>2, <3>1, <3>2 DEF Entries
      <4>. QED
        BY <2>6, <3>1, <3>2, <4>2, <4>3
    <3>4. k \in 1 .. i /\ k \in 1 .. m
      BY <1>2, <1>3, <3>1, <3>2, <3>3
    <3>. QED
      BY <1>4, <3>1, <3>4
  <2>. QED
    BY <2>1, <2>2, <2>3, <2>4, <2>5, <2>6 DEF CollectorOK
<1>6. orphans' \subseteq Paths
  BY <1>1 DEF IInv, CountersOK
<1>7. FlusherOK' /\ CompactorOK' /\ OffloaderOK' /\ LimboOK'
  BY <1>1, <1>6, IdleParts
<1>. QED
  BY <1>1, <1>5, <1>6, <1>7, IdleStep


(* The pass moves past its first entry: acked is the number reached, and   *)
(* if the queue still holds that entry it is gone.                         *)
LEMMA PassMoves ==
    ASSUME IInv, Aging, Moved(gc, gc'), collector # Idle, collector.todo # <<>>,
           NEW acked \in {collector.acked, collector.todo[1].seq},
           collector' = [stage |-> "working", acked |-> acked, todo |-> Tail(collector.todo)],
           \A e \in Entries(gc') : e = collector.todo[1] => e \in Entries(gc) /\ Gone(e)'
    PROVE  CollectorOK'
<1> DEFINE todo == collector.todo
           n == Len(todo)
           rest == Tail(todo)
<1>1. /\ todo \in Seq(GcEntry) /\ n \in Nat /\ collector.acked \in Nat
      /\ \A i \in 1 .. n : todo[i].seq \in Nat /\ todo[i].seq < gc.next
      /\ collector.acked < gc.next
  BY CollectorTyped
<1>2. n > 0 /\ 1 \in 1 .. n
  BY <1>1
<1>3. /\ rest \in Seq(GcEntry) /\ Len(rest) = n - 1
      /\ \A i \in 1 .. n - 1 : rest[i] = todo[i + 1] /\ i + 1 \in 1 .. n
  BY <1>1, <1>2
<1>4. acked \in Nat /\ acked < gc.next
  BY <1>1, <1>2
<1>5. gc.next \in Nat /\ gc'.next \in Nat /\ gc'.next >= gc.next
      /\ (\A e \in Entries(gc') : e.seq \in Nat)
      /\ (\A e \in Entries(gc') : e \in Entries(gc) \/ e.seq >= gc.next)
  BY EntriesType DEF IInv, QueueOK, Moved
<1>6. \A e \in Entries(gc) : e.seq <= collector.acked => Gone(e)
  BY CollectorTyped
<1>7. \A e \in Entries(gc) : \A i \in 1 .. n :
        e.seq <= todo[i].seq => Gone(e) \/ \E j \in 1 .. i : e = todo[j]
  BY CollectorTyped
<1>8. \A e \in Entries(gc') : e = todo[1] => Gone(e)'
  OBVIOUS
<1> HIDE DEF todo, n, rest
<1>9. ASSUME NEW e \in Entries(gc'), e.seq <= acked PROVE Gone(e)'
  <2>1. e \in Entries(gc)
    BY <1>4, <1>5, <1>9
  <2>2. CASE acked = collector.acked
    BY <1>6, <1>9, <2>1, <2>2, GoneStays
  <2>3. CASE acked = todo[1].seq
    <3>1. Gone(e) \/ \E j \in 1 .. 1 : e = todo[j]
      BY <1>2, <1>7, <1>9, <2>1, <2>3
    <3>2. Gone(e) \/ e = todo[1]
      BY <3>1
    <3>. QED
      BY <1>8, <2>1, <3>2, GoneStays
  <2>. QED
    BY <2>2, <2>3 DEF todo
<1>10. ASSUME NEW e \in Entries(gc'), NEW i \in 1 .. n - 1, e.seq <= rest[i].seq
       PROVE  Gone(e)' \/ \E j \in 1 .. i : e = rest[j]
  <2>1. i + 1 \in 1 .. n /\ rest[i] = todo[i + 1]
    BY <1>3
  <2>2. e \in Entries(gc)
    BY <1>1, <1>5, <1>10, <2>1
  <2>3. Gone(e) \/ \E j \in 1 .. i + 1 : e = todo[j]
    BY <1>7, <1>10, <2>1, <2>2
  <2>4. CASE Gone(e)
    BY <2>2, <2>4, GoneStays
  <2>5. CASE \E j \in 1 .. i + 1 : e = todo[j]
    <3>1. PICK j \in 1 .. i + 1 : e = todo[j]
      BY <2>5
    <3>2. CASE j = 1
      BY <1>8, <3>1, <3>2
    <3>3. CASE j # 1
      <4>1. j - 1 \in 1 .. i /\ j - 1 \in 1 .. n - 1 /\ (j - 1) + 1 = j
        BY <1>1, <2>1, <3>1, <3>3
      <4>2. e = rest[j - 1]
        BY <1>3, <3>1, <4>1
      <4>. QED
        BY <4>1, <4>2
    <3>. QED
      BY <3>2, <3>3
  <2>. QED
    BY <2>3, <2>4, <2>5
<1>11. collector' \in Collection
  BY <1>3, <1>4 DEF Collection, rest, todo
<1>12. collector'.acked = acked /\ collector'.todo = rest /\ collector'.stage = "working"
  BY DEF rest, todo
<1>13. acked < gc'.next /\ \A i \in 1 .. n - 1 : rest[i].seq < gc'.next
  <2>1. acked < gc'.next
    BY <1>4, <1>5
  <2>2. \A i \in 1 .. n : todo[i].seq < gc'.next
    BY <1>1, <1>5
  <2>. QED
    BY <1>3, <2>1, <2>2
<1>. QED
  BY <1>3, <1>9, <1>10, <1>11, <1>12, <1>13 DEF CollectorOK

LEMMA WithoutStep ==
    ASSUME IInv, NEW objects, store' = Without(objects)
    PROVE  StoreStep
<1>1. store \in [Paths -> Object]
  BY DEF IInv, ObjectsOK
<1>2. \A p \in Paths : store'[p] = IF p \in objects THEN NoObject ELSE store[p]
  BY DEF Without
<1>3. store' \in [Paths -> Object]
  BY <1>1, NoObjectType DEF Without
<1>. QED
  BY <1>2, <1>3 DEF StoreStep

(* A step of the collector that leaves the replicated state and limbo alone. *)
LEMMA CollectingStep ==
    ASSUME IInv, StoreStep, PageStep, UNCHANGED <<slot, refs, gc, lastGen, lastPath>>,
           UNCHANGED <<flusher, compactor, offloader, limbo, orphans>>
    PROVE  /\ Aging /\ Moved(gc, gc')
           /\ CollectorOK' => IInv' /\ OnlyGoneLeave
<1>1. CountersOK' /\ lastPath <= lastPath' /\ lastGen <= lastGen'
  BY DEF IInv, CountersOK
<1>2. ObjectsOK' /\ Aging
  BY <1>1, ObjectsBecome
<1>3. QueueOK' /\ Moved(gc, gc') /\ OnlyGoneLeave
  BY <1>1, <1>2, QueueStays
<1>4. SlotOK' /\ FlusherOK' /\ CompactorOK' /\ OffloaderOK'
  BY <1>1, RestStays
<1>5. LimboOK'
  BY <1>1, <1>2, <1>3, LimboStays
<1>. QED
  BY <1>1, <1>2, <1>3, <1>4, <1>5 DEF IInv

LEMMA ReclaimedIs ==
    ASSUME IInv, collector # Idle
    PROVE  Reclaimed = [stage |-> "working", acked |-> collector.todo[1].seq,
                        todo |-> Tail(collector.todo)]
<1>1. collector \in Collection
  BY CollectorTyped
<1>2. ASSUME NEW c \in Collection, NEW a, NEW t
      PROVE  [c EXCEPT !.stage = "working", !.acked = a, !.todo = t] =
               [stage |-> "working", acked |-> a, todo |-> t]
  <2>1. c = [stage |-> c.stage, acked |-> c.acked, todo |-> c.todo]
    BY DEF Collection
  <2>2. PICK x, y, z : c = [stage |-> x, acked |-> y, todo |-> z]
    BY <2>1
  <2>3. PICK d : d = [c EXCEPT !.stage = "working"]
    OBVIOUS
  <2>4. d = [stage |-> "working", acked |-> y, todo |-> z]
    BY <2>2, <2>3
  <2>5. PICK f : f = [d EXCEPT !.acked = a]
    OBVIOUS
  <2>6. f = [stage |-> "working", acked |-> a, todo |-> z]
    BY <2>4, <2>5
  <2>7. [f EXCEPT !.todo = t] = [stage |-> "working", acked |-> a, todo |-> t]
    BY <2>6
  <2>. QED
    BY <2>3, <2>5, <2>7
<1>. QED
  BY <1>1, <1>2 DEF Reclaimed

LEMMA ReclaimPathsStep ==
    ASSUME IInv, ReclaimPaths
    PROVE  IInv' /\ OnlyGoneLeave
<1> DEFINE first == collector.todo[1]
<1>1. /\ collector.stage = "working" /\ collector.todo # <<>> /\ first.gen = 0
      /\ store' = Without(first.paths) /\ collector' = Reclaimed
      /\ UNCHANGED <<slot, refs, gc, lastGen, lastPath>>
      /\ UNCHANGED <<flusher, compactor, offloader, limbo, orphans>> /\ pages' = pages
  BY DEF ReclaimPaths, Collecting, replicated, outcome
<1>2. collector # Idle
  BY <1>1 DEF Idle
<1>3. CountersOK' /\ lastPath <= lastPath'
  BY <1>1 DEF IInv, CountersOK
<1>4. StoreStep /\ PageStep
  BY <1>1, <1>3, WithoutStep, SamePages
<1>5. Aging /\ Moved(gc, gc') /\ (CollectorOK' => IInv' /\ OnlyGoneLeave)
  BY <1>1, <1>4, CollectingStep
<1>6. ASSUME NEW e \in Entries(gc'), e = first PROVE e \in Entries(gc) /\ Gone(e)'
  <2>1. 1 \in 1 .. Len(collector.todo)
    BY <1>1, <1>2, CollectorTyped
  <2>2. e.paths \in SUBSET Paths /\ e.gen = 0
    BY <1>1, <1>2, <1>6, <2>1, CollectorTyped
  <2>3. \A p \in e.paths : store'[p] = NoObject
    BY <1>1, <1>6, <2>2 DEF Without
  <2>. QED
    BY <1>1, <2>2, <2>3 DEF Gone
<1>7. CollectorOK'
  BY <1>1, <1>2, <1>5, <1>6, ReclaimedIs, PassMoves
<1>. QED
  BY <1>5, <1>7


LEMMA ReclaimObjectsStep ==
    ASSUME IInv, ReclaimObjects
    PROVE  IInv' /\ OnlyGoneLeave
<1> DEFINE first == collector.todo[1]
<1>1. /\ collector.stage = "working" /\ collector.todo # <<>> /\ first.gen # 0
      /\ UNCHANGED <<slot, refs, gc, lastGen, lastPath>>
      /\ UNCHANGED <<flusher, compactor, offloader, limbo, orphans>> /\ pages' = pages
  BY DEF ReclaimObjects, Collecting, replicated, outcome
<1>2. collector # Idle
  BY <1>1 DEF Idle
<1>3. CountersOK' /\ lastPath <= lastPath'
  BY <1>1 DEF IInv, CountersOK
<1>4. PageStep
  BY <1>1, <1>3, SamePages
<1>5. CASE LiveGen(first.gen)
  <2>1. collector' = Reclaimed /\ store' = store
    BY <1>5 DEF ReclaimObjects
  <2>2. Aging /\ Moved(gc, gc') /\ (CollectorOK' => IInv' /\ OnlyGoneLeave)
    BY <1>1, <1>4, <2>1, SameStore, CollectingStep
  <2>3. ASSUME NEW e \in Entries(gc'), e = first PROVE FALSE
    BY <1>1, <1>5, <2>3 DEF IInv, QueueOK
  <2>4. CollectorOK'
    BY <1>1, <1>2, <2>1, <2>2, <2>3, ReclaimedIs, PassMoves
  <2>. QED
    BY <2>2, <2>4
<1>6. CASE ~LiveGen(first.gen)
  <2>1. /\ store' = Without(IncarnationObjects(first.gen))
        /\ collector' = [collector EXCEPT !.stage = "pages"]
    BY <1>6 DEF ReclaimObjects
  <2>2. Aging /\ Moved(gc, gc') /\ (CollectorOK' => IInv' /\ OnlyGoneLeave)
    BY <1>1, <1>4, <2>1, WithoutStep, CollectingStep
  <2>3. collector \in Collection
    BY <1>2, CollectorTyped
  <2>4. /\ collector' \in Collection /\ collector'.acked = collector.acked
        /\ collector'.todo = collector.todo
    BY <2>1, <2>3 DEF Collection
  <2>5. CollectorOK'
    BY <1>1, <1>2, <2>2, <2>4, CollectorKeeps
  <2>. QED
    BY <2>2, <2>5
<1>. QED
  BY <1>5, <1>6

LEMMA ReclaimPagesStep ==
    ASSUME IInv, ReclaimPages
    PROVE  IInv' /\ OnlyGoneLeave
<1> DEFINE first == collector.todo[1]
           g == first.gen
<1>1. /\ collector.stage = "pages" /\ collector.todo # <<>>
      /\ pages' = IF LiveGen(g) THEN pages ELSE [pages EXCEPT ![g] = {}]
      /\ collector' = Reclaimed
      /\ UNCHANGED <<slot, refs, gc, lastGen, lastPath>>
      /\ UNCHANGED <<flusher, compactor, offloader, limbo, orphans>> /\ store' = store
  BY DEF ReclaimPages, Collecting, replicated, outcome
<1>2. collector # Idle
  BY <1>1 DEF Idle
<1>3. CountersOK' /\ lastPath <= lastPath'
  BY <1>1 DEF IInv, CountersOK
<1>4. /\ g # 0 /\ g \in 0 .. MaxGen /\ first.paths = {}
  <2>1. g # 0
    BY <1>1, <1>2 DEF IInv, CollectorOK
  <2>2. 1 \in 1 .. Len(collector.todo)
    BY <1>1, <1>2, CollectorTyped
  <2>. QED
    BY <1>2, <2>1, <2>2, CollectorTyped
<1>5. PageStep
  <2>1. CASE LiveGen(g)
    BY <1>1, <1>3, <2>1, SamePages
  <2>2. CASE ~LiveGen(g)
    <3>1. pages' = [pages EXCEPT ![g] = {}] /\ {} \in SUBSET PageEntry
      BY <1>1, <2>2
    <3> HIDE DEF g
    <3>. QED
      BY <1>3, <1>4, <3>1, OnePage
  <2>. QED
    BY <2>1, <2>2
<1>6. Aging /\ Moved(gc, gc') /\ (CollectorOK' => IInv' /\ OnlyGoneLeave)
  BY <1>1, <1>5, SameStore, CollectingStep
<1>7. ASSUME NEW e \in Entries(gc'), e = first PROVE e \in Entries(gc) /\ Gone(e)'
  <2>1. e \in Entries(gc) /\ ~LiveGen(e.gen)
    BY <1>1, <1>7 DEF IInv, QueueOK
  <2>2. pages' = [pages EXCEPT ![g] = {}] /\ pages \in [0 .. MaxGen -> SUBSET PageEntry]
    BY <1>1, <1>7, <2>1 DEF IInv, ObjectsOK
  <2>3. pages'[e.gen] = {}
    BY <1>4, <1>7, <2>2
  <2>. QED
    BY <1>4, <1>7, <2>1, <2>3 DEF Gone
<1>8. CollectorOK'
  BY <1>1, <1>2, <1>6, <1>7, ReclaimedIs, PassMoves
<1>. QED
  BY <1>6, <1>8

LEMMA DeferQueue ==
    ASSUME IInv, CountersOK', Aging, NEW seq \in Nat, gc' = Defer(gc, seq)
    PROVE  QueueOK' /\ Moved(gc, gc') /\ OnlyGoneLeave
<1>1. gc \in Queue /\ Ordered(gc)
  BY DEF IInv, QueueOK
<1>2. /\ Moved(gc, gc')
      /\ \A e \in Entries(gc) : \E f \in Entries(gc') : SameTarget(e, f)
      /\ \A e \in Entries(gc') : e \in Entries(gc) \/ \E f \in Entries(gc) : SameTarget(e, f)
  BY <1>1, DeferMoves
<1>3. ASSUME NEW e \in Entries(gc')
      PROVE  e.gen <= lastGen' /\ ~LiveGen(e.gen)' /\ \A p \in e.paths : p <= lastPath'
  <2>1. PICK f \in Entries(gc) : e.gen = f.gen /\ e.paths = f.paths
    BY <1>2 DEF SameTarget
  <2>2. f.gen \in 0 .. MaxGen /\ f.paths \subseteq Paths
    BY <1>1, EntriesType
  <2>3. f.gen <= lastGen /\ ~LiveGen(f.gen) /\ \A p \in f.paths : p <= lastPath
    BY DEF IInv, QueueOK
  <2>4. ~LiveGen(f.gen)'
    BY <2>2, <2>3, NotLiveStays
  <2>5. /\ lastGen \in Nat /\ lastGen' \in Nat /\ lastGen <= lastGen'
        /\ lastPath \in Nat /\ lastPath' \in Nat /\ lastPath <= lastPath'
    BY DEF IInv, CountersOK, Aging
  <2>6. f.gen <= lastGen' /\ \A p \in f.paths : p <= lastPath'
    BY <2>2, <2>3, <2>5 DEF Paths
  <2>. QED
    BY <2>1, <2>4, <2>6
<1>4. QueueOK'
  BY <1>2, <1>3 DEF QueueOK, Moved
<1>5. OnlyGoneLeave
  BY <1>2 DEF OnlyGoneLeave
<1>. QED
  BY <1>2, <1>4, <1>5

LEMMA AckQueue ==
    ASSUME IInv, CountersOK', Aging, NEW u \in Nat, gc' = Ack(gc, u),
           \A e \in Entries(gc) : e.seq <= u => Gone(e)
    PROVE  QueueOK' /\ Moved(gc, gc') /\ OnlyGoneLeave
<1>1. gc \in Queue /\ Ordered(gc)
  BY DEF IInv, QueueOK
<1>2. /\ Moved(gc, gc') /\ Entries(gc') \subseteq Entries(gc)
      /\ \A e \in Entries(gc) \ Entries(gc') : e.seq <= u
  BY <1>1, AckPops
<1>3. ASSUME NEW e \in Entries(gc')
      PROVE  e.gen <= lastGen' /\ ~LiveGen(e.gen)' /\ \A p \in e.paths : p <= lastPath'
  <2>1. e.gen \in 0 .. MaxGen /\ e.paths \subseteq Paths /\ e \in Entries(gc)
    BY <1>1, <1>2, EntriesType
  <2>2. e.gen <= lastGen /\ ~LiveGen(e.gen) /\ \A p \in e.paths : p <= lastPath
    BY <2>1 DEF IInv, QueueOK
  <2>3. ~LiveGen(e.gen)'
    BY <2>1, <2>2, NotLiveStays
  <2>4. /\ lastGen \in Nat /\ lastGen' \in Nat /\ lastGen <= lastGen'
        /\ lastPath \in Nat /\ lastPath' \in Nat /\ lastPath <= lastPath'
    BY DEF IInv, CountersOK, Aging
  <2>. QED
    BY <2>1, <2>2, <2>3, <2>4 DEF Paths
<1>4. QueueOK'
  BY <1>2, <1>3 DEF QueueOK, Moved
<1>5. ASSUME NEW e \in Entries(gc), \A f \in Entries(gc') : ~SameTarget(e, f) PROVE Gone(e)'
  <2>1. e \notin Entries(gc')
    BY <1>5 DEF SameTarget
  <2>2. Gone(e)
    BY <1>2, <2>1
  <2>. QED
    BY <2>2, GoneStays
<1>6. OnlyGoneLeave
  BY <1>5 DEF OnlyGoneLeave, Gone
<1>. QED
  BY <1>2, <1>4, <1>6


LEMMA FailEntryStep ==
    ASSUME IInv, FailEntry
    PROVE  IInv' /\ OnlyGoneLeave
<1> DEFINE first == collector.todo[1]
<1>1. /\ collector.stage = "working" /\ collector.todo # <<>>
      /\ UNCHANGED <<slot, refs, lastGen, pages, lastPath, flusher, compactor, offloader>>
      /\ orphans' = orphans
  BY DEF FailEntry, Collecting, outcome
<1>2. collector # Idle
  BY <1>1 DEF Idle
<1>3. CountersOK' /\ lastPath <= lastPath' /\ lastGen <= lastGen'
  BY <1>1 DEF IInv, CountersOK
<1>4. PageStep
  BY <1>1, <1>3, SamePages
<1>5. StoreStep
  <2>1. PICK some : store' = Without(some)
    BY DEF FailEntry
  <2>. QED
    BY <2>1, WithoutStep
<1>6. ObjectsOK' /\ Aging
  BY <1>1, <1>3, <1>4, <1>5, ObjectsBecome
<1>7. SlotOK' /\ FlusherOK' /\ CompactorOK' /\ OffloaderOK'
  BY <1>1, <1>3, RestStays
<1>8. 1 \in 1 .. Len(collector.todo) /\ first.seq \in Nat /\ first.seq < gc.next
  <2>1. 1 \in 1 .. Len(collector.todo)
    BY <1>1, <1>2, CollectorTyped
  <2>. QED
    BY <1>2, <2>1, CollectorTyped
<1>9. collector \in Collection /\ collector.acked \in Nat /\ collector.acked < gc.next
  BY <1>2, CollectorTyped
<1>10. CASE gc' = Defer(gc, first.seq) /\ collector' = [collector EXCEPT !.todo = Tail(@)]
            /\ UNCHANGED outcome
  <2>1. QueueOK' /\ Moved(gc, gc') /\ OnlyGoneLeave
    BY <1>3, <1>6, <1>8, <1>10, DeferQueue
  <2>2. ASSUME NEW e \in Entries(gc'), e = first PROVE FALSE
    <3>1. \A x \in Entries(gc') : (x \in Entries(gc) /\ x.seq # first.seq) \/ x.seq >= gc.next
      BY <1>8, <1>10, DeferMoves DEF IInv, QueueOK
    <3>2. gc.next \in Nat
      BY EntriesType DEF IInv, QueueOK
    <3>. QED
      BY <1>8, <2>2, <3>1, <3>2
  <2>3. collector' = [stage |-> "working", acked |-> collector.acked, todo |-> Tail(collector.todo)]
    <3>1. collector = [stage |-> "working", acked |-> collector.acked, todo |-> collector.todo]
      BY <1>1, <1>9 DEF Collection
    <3>2. PICK a, t : collector = [stage |-> "working", acked |-> a, todo |-> t]
      BY <3>1
    <3>3. a = collector.acked /\ t = collector.todo
      BY <3>2
    <3>4. PICK r : r = Tail(collector.todo)
      OBVIOUS
    <3>5. collector' = [collector EXCEPT !.todo = r]
      BY <1>10, <3>4
    <3>6. collector' = [stage |-> "working", acked |-> a, todo |-> r]
      BY <3>2, <3>5
    <3>. QED
      BY <3>3, <3>4, <3>6
  <2>4. CollectorOK'
    BY <1>1, <1>2, <1>6, <2>1, <2>2, <2>3, PassMoves
  <2>5. LimboOK'
    BY <1>3, <1>6, <1>10, <2>1, LimboStays DEF outcome
  <2>. QED
    BY <1>3, <1>6, <1>7, <2>1, <2>4, <2>5 DEF IInv
<1>11. CASE limbo' = [kind |-> "defer", seq |-> first.seq]
            /\ collector' = [collector EXCEPT !.todo = <<>>] /\ UNCHANGED <<gc, orphans>>
  <2>1. QueueOK' /\ Moved(gc, gc') /\ OnlyGoneLeave
    BY <1>3, <1>6, <1>11, QueueStays
  <2>2. LimboOK'
    <3>1. limbo' \in LostCommand /\ limbo'.kind = "defer"
      BY <1>8, <1>11 DEF LostCommand
    <3>. QED
      BY <3>1 DEF LimboOK
  <2>3. CollectorOK'
    <3>1. <<>> \in Seq(GcEntry) /\ Len(<<>>) = 0
      OBVIOUS
    <3>2. collector' \in Collection
      BY <1>9, <1>11, <3>1 DEF Collection
    <3>3. /\ collector'.acked = collector.acked /\ collector'.todo = <<>>
          /\ collector'.stage = "working"
      BY <1>1, <1>9, <1>11 DEF Collection
    <3>4. collector.acked < gc'.next
      BY <1>9, <1>11
    <3>5. ASSUME NEW e \in Entries(gc'), e.seq <= collector.acked PROVE Gone(e)'
      BY <1>2, <1>6, <1>11, <3>5, CollectorTyped, GoneStays
    <3>6. \A i \in 1 .. Len(collector'.todo) : FALSE
      BY <3>1, <3>3
    <3>. QED
      BY <3>2, <3>3, <3>4, <3>5, <3>6 DEF CollectorOK
  <2>. QED
    BY <1>3, <1>6, <1>7, <2>1, <2>2, <2>3 DEF IInv
<1>. QED
  BY <1>10, <1>11 DEF FailEntry

LEMMA AckGcStep ==
    ASSUME IInv, AckGc
    PROVE  IInv' /\ OnlyGoneLeave
<1>1. /\ collector.stage = "working" /\ collector' = Idle
      /\ gc' = IF collector.acked = 0 THEN gc ELSE Ack(gc, collector.acked)
      /\ UNCHANGED <<slot, refs, lastGen, store, pages, lastPath>>
      /\ UNCHANGED <<flusher, compactor, offloader, limbo, orphans>>
  BY DEF AckGc, PassEnds, outcome
<1>2. collector # Idle
  BY <1>1 DEF Idle
<1>3. CountersOK' /\ lastPath <= lastPath' /\ lastGen <= lastGen'
  BY <1>1 DEF IInv, CountersOK
<1>4. Aging
  BY <1>1, StillAging
<1>5. QueueOK' /\ Moved(gc, gc') /\ OnlyGoneLeave
  <2>1. CASE collector.acked = 0
    BY <1>1, <1>3, <1>4, <2>1, QueueStays
  <2>2. CASE collector.acked # 0
    BY <1>1, <1>2, <1>3, <1>4, <2>2, CollectorTyped, AckQueue
  <2>. QED
    BY <2>1, <2>2
<1>6. CollectorOK'
  BY <1>1 DEF CollectorOK
<1>7. LimboOK'
  BY <1>1, <1>3, <1>4, <1>5, LimboStays
<1>8. SlotOK' /\ ObjectsOK' /\ FlusherOK' /\ CompactorOK' /\ OffloaderOK'
  BY <1>1, <1>3, RestStays
<1>. QED
  BY <1>3, <1>5, <1>6, <1>7, <1>8 DEF IInv

LEMMA EndGcStep ==
    ASSUME IInv, LoseAck \/ AbandonGc
    PROVE  IInv' /\ OnlyGoneLeave
<1>1. /\ collector' = Idle
      /\ UNCHANGED <<slot, refs, gc, lastGen, store, pages, lastPath>>
      /\ UNCHANGED <<flusher, compactor, offloader, orphans>>
  BY DEF LoseAck, AbandonGc, replicated, outcome
<1>2. orphans' \subseteq Paths
  BY <1>1 DEF IInv, CountersOK
<1>3. FlusherOK' /\ CompactorOK' /\ OffloaderOK' /\ CollectorOK'
  BY <1>1, <1>2, IdleParts DEF CollectorOK
<1>4. LimboOK'
  <2>1. CASE AbandonGc
    BY <1>1, <1>2, <2>1, IdleParts DEF AbandonGc, outcome
  <2>2. CASE LoseAck
    <3>1. limbo' = [kind |-> "ack", upTo |-> collector.acked] /\ collector.stage = "working"
      BY <2>2 DEF LoseAck, PassEnds
    <3>2. collector # Idle
      BY <3>1 DEF Idle
    <3>3. /\ collector.acked \in Nat /\ collector.acked < gc.next
          /\ \A e \in Entries(gc) : e.seq <= collector.acked => Gone(e)
      BY <3>2, CollectorTyped
    <3>4. limbo' \in LostCommand /\ limbo'.kind = "ack" /\ limbo'.upTo = collector.acked
      BY <3>1, <3>3 DEF LostCommand
    <3>5. \A e \in Entries(gc') : e.seq <= collector.acked => Gone(e)'
      BY <1>1, <3>3 DEF Gone
    <3>. QED
      BY <1>1, <3>3, <3>4, <3>5 DEF LimboOK
  <2>. QED
    BY <2>1, <2>2
<1>. QED
  BY <1>1, <1>2, <1>3, <1>4, IdleStep

---------------------------------------------------------------------------
(* The command without an answer.                                          *)

LEMMA DiscardLimboStep ==
    ASSUME IInv, DiscardLimbo
    PROVE  IInv' /\ OnlyGoneLeave
<1>1. /\ limbo' = NoCommand
      /\ UNCHANGED <<slot, refs, gc, lastGen, store, pages, lastPath>>
      /\ UNCHANGED <<flusher, compactor, offloader, collector, orphans>>
  BY DEF DiscardLimbo, replicated, workers
<1>2. orphans' \subseteq Paths
  BY <1>1 DEF IInv, CountersOK
<1>3. FlusherOK' /\ CompactorOK' /\ OffloaderOK' /\ CollectorOK'
  BY <1>1, <1>2, IdleParts
<1>4. LimboOK'
  BY <1>1 DEF LimboOK, NoCommand
<1>. QED
  BY <1>1, <1>2, <1>3, <1>4, IdleStep

LEMMA CommitLimboStep ==
    ASSUME IInv, CommitLimbo
    PROVE  IInv' /\ OnlyGoneLeave
<1>1. /\ limbo # NoCommand /\ ApplyLimbo /\ limbo' = NoCommand
      /\ UNCHANGED <<store, pages, lastPath, orphans>>
      /\ UNCHANGED <<flusher, compactor, offloader, collector>>
  BY DEF CommitLimbo, workers
<1>2. limbo \in LostCommand /\ LimboOK
  BY <1>1 DEF IInv, LimboOK
<1>3. lastPath <= lastPath'
  BY <1>1 DEF IInv, CountersOK
<1>4. LimboOK' /\ orphans' \subseteq Paths
  BY <1>1, OrphansStay DEF LimboOK, NoCommand
<1>5. SUFFICES /\ CountersOK' /\ SlotOK' /\ QueueOK' /\ lastGen <= lastGen'
               /\ Aging /\ Moved(gc, gc') /\ OnlyGoneLeave
  <2>1. ASSUME CountersOK', SlotOK', QueueOK', lastGen <= lastGen', Aging, Moved(gc, gc'),
               OnlyGoneLeave
        PROVE  IInv' /\ OnlyGoneLeave
    <3>1. ObjectsOK' /\ FlusherOK' /\ CompactorOK' /\ OffloaderOK'
      BY <1>1, <1>3, <2>1, RestStays
    <3>2. CollectorOK'
      BY <1>1, <2>1, CollectorStays
    <3>. QED
      BY <1>4, <2>1, <3>1, <3>2 DEF IInv
  <2>. QED
    BY <2>1
<1>6. ASSUME slot' = slot, refs' = refs, lastGen' = lastGen
      PROVE  CountersOK' /\ SlotOK' /\ lastGen <= lastGen' /\ Aging
  <2>1. CountersOK' /\ lastGen <= lastGen'
    BY <1>1, <1>6 DEF IInv, CountersOK
  <2>2. SlotOK'
    BY <1>3, <1>6, <2>1, RestStays
  <2>3. Aging
    BY <1>1, <1>6, StillAging
  <2>. QED
    BY <2>1, <2>2, <2>3
<1>7. ASSUME CountersOK', lastGen <= lastGen',
             \A t \in Streams : slot'[t].live =>
               slot'[t].gen > lastGen \/ (slot[t].live /\ slot'[t].gen = slot[t].gen)
      PROVE  Aging
  BY <1>1, <1>3, <1>7 DEF Aging
<1>8. CASE limbo.kind = "flush"
  <2>1. limbo.candidate \in Candidate /\ limbo.path \in Paths /\ limbo.shared \in BOOLEAN
        /\ limbo.path <= lastPath
    BY <1>2, <1>8 DEF LostCommand, LimboOK
  <2>2. CASE FlushFits(limbo.candidate)
    <3>1. FlushCold(limbo.candidate, limbo.path, limbo.shared)
      BY <1>1, <1>8, <2>2 DEF ApplyLimbo
    <3>2. /\ CountersOK' /\ SlotOK' /\ gc' = gc /\ lastGen' = lastGen
          /\ \A t \in Streams : slot'[t].live =>
               slot'[t].gen > lastGen \/ (slot[t].live /\ slot'[t].gen = slot[t].gen)
      BY <1>1, <1>4, <2>1, <2>2, <3>1, FlushColdEffect
    <3>3. lastGen <= lastGen'
      BY <3>2 DEF CountersOK
    <3>4. Aging
      BY <1>7, <3>2, <3>3
    <3>. QED
      BY <3>2, <3>3, <3>4, QueueStays
  <2>3. CASE ~FlushFits(limbo.candidate)
    <3>1. UNCHANGED <<slot, refs, gc, lastGen>>
      BY <1>1, <1>8, <2>3 DEF ApplyLimbo, replicated
    <3>. QED
      BY <1>6, <3>1, QueueStays
  <2>. QED
    BY <2>2, <2>3
<1>9. CASE limbo.kind = "compact"
  <2>1. limbo.job \in Compaction /\ Written(limbo.job.run)
    BY <1>2, <1>9 DEF LostCommand, LimboOK
  <2>2. CompactCold(limbo.job)
    BY <1>1, <1>9 DEF ApplyLimbo
  <2>3. PICK P : P = PathsOf(limbo.job.run)
    OBVIOUS
  <2>4. /\ CountersOK' /\ SlotOK' /\ lastGen' = lastGen
        /\ \A t \in Streams : slot'[t].live =>
             slot'[t].gen > lastGen \/ (slot[t].live /\ slot'[t].gen = slot[t].gen)
        /\ Grown(gc, gc', {0}, P)
        /\ \A p \in P : p <= lastPath'
    BY <1>1, <1>4, <2>1, <2>2, <2>3, CompactColdEffect
  <2>5. lastGen <= lastGen'
    BY <2>4 DEF CountersOK
  <2>6. Aging
    BY <1>7, <2>4, <2>5
  <2>7. \A g \in {0} : g <= lastGen' /\ ~LiveGen(g)'
    BY <2>4, ZeroNotLive DEF CountersOK
  <2>8. QueueOK' /\ Moved(gc, gc') /\ OnlyGoneLeave
    BY <2>4, <2>6, <2>7, QueueGrows
  <2>. QED
    BY <2>4, <2>5, <2>6, <2>8
<1>10. CASE limbo.kind = "offload"
  <2>1. limbo.stream \in Streams
    BY <1>2, <1>10 DEF LostCommand
  <2>2. /\ slot' = [slot EXCEPT ![limbo.stream].external = @ \ limbo.refs]
        /\ UNCHANGED <<refs, gc, lastGen>>
    BY <1>1, <1>10 DEF ApplyLimbo
  <2>3. /\ CountersOK' /\ SlotOK' /\ lastGen <= lastGen'
        /\ \A t \in Streams : slot'[t].live =>
             slot'[t].gen > lastGen \/ (slot[t].live /\ slot'[t].gen = slot[t].gen)
    BY <1>1, <2>1, <2>2, OffloadEffect
  <2>4. Aging
    BY <1>7, <2>3
  <2>. QED
    BY <2>2, <2>3, <2>4, QueueStays
<1>11. CASE limbo.kind = "ack"
  <2>1. /\ limbo.upTo \in Nat
        /\ \A e \in Entries(gc) : e.seq <= limbo.upTo => Gone(e)
    BY <1>2, <1>11 DEF LostCommand, LimboOK
  <2>2. gc' = Ack(gc, limbo.upTo) /\ UNCHANGED <<slot, refs, lastGen>>
    BY <1>1, <1>11 DEF ApplyLimbo
  <2>. QED
    BY <1>6, <2>1, <2>2, AckQueue
<1>12. CASE limbo.kind = "defer"
  <2>1. limbo.seq \in Nat
    BY <1>2, <1>12 DEF LostCommand
  <2>2. gc' = Defer(gc, limbo.seq) /\ UNCHANGED <<slot, refs, lastGen>>
    BY <1>1, <1>12 DEF ApplyLimbo
  <2>. QED
    BY <1>6, <2>1, <2>2, DeferQueue
<1>13. limbo.kind \in {"flush", "compact", "offload", "ack", "defer"}
  BY <1>2 DEF LostCommand
<1>. QED
  BY <1>8, <1>9, <1>10, <1>11, <1>12, <1>13


---------------------------------------------------------------------------
(* The theorems.                                                           *)

LEMMA InitInv == Init => IInv
<1> SUFFICES ASSUME Init PROVE IInv
  OBVIOUS
<1>1. CountersOK
  BY ColdConstants DEF Init, CountersOK
<1>2. SlotOK
  <2>1. slot = [s \in Streams |-> Vacant]
    BY DEF Init
  <2>2. slot \in [Streams -> Slot] /\ \A s \in Streams : slot[s] = Vacant
    BY <2>1, VacantType
  <2>3. /\ Vacant.retained <= Vacant.snapshot /\ Vacant.snapshot <= Vacant.tail
        /\ Vacant.hot \subseteq 0 .. Vacant.tail - 1 /\ ~Vacant.live
        /\ Vacant.chunks = {} /\ Vacant.external = {}
    BY DEF Vacant
  <2>. QED
    BY <2>2, <2>3 DEF SlotOK, Written, Live
<1>3. QueueOK
  <2>1. gc = [pending |-> <<>>, next |-> 1]
    BY DEF Init, EmptyQueue
  <2>2. gc.pending = <<>> /\ gc.next = 1 /\ <<>> \in Seq(GcEntry) /\ Len(<<>>) = 0
    BY <2>1
  <2>3. gc \in Queue
    BY <2>1, <2>2 DEF Queue
  <2>4. \A i \in 1 .. Len(gc.pending) : FALSE
    BY <2>2
  <2>5. Ordered(gc) /\ Entries(gc) = {}
    BY <2>4 DEF Ordered, Entries
  <2>. QED
    BY <2>3, <2>5 DEF QueueOK
<1>4. ObjectsOK
  <2>1. store \in [Paths -> Object] /\ \A p \in Paths : store[p] = NoObject
    BY NoObjectType DEF Init
  <2>2. pages \in [0 .. MaxGen -> SUBSET PageEntry] /\ \A g \in 0 .. MaxGen : pages[g] = {}
    BY DEF Init
  <2>. QED
    BY <2>1, <2>2 DEF ObjectsOK, Stored, Written
<1>5. FlusherOK /\ CompactorOK /\ OffloaderOK /\ CollectorOK
  BY DEF Init, FlusherOK, CompactorOK, OffloaderOK, CollectorOK
<1>6. LimboOK
  BY DEF Init, LimboOK, NoCommand
<1>. QED
  BY <1>1, <1>2, <1>3, <1>4, <1>5, <1>6 DEF IInv

LEMMA NextInv ==
    ASSUME IInv, [Next]_vars
    PROVE  IInv' /\ (Next => OnlyGoneLeave)
<1>1. CASE Next
  <2>1. CASE \E s \in Streams : Create(s) \/ AppendInline(s) \/ AppendExternal(s)
                                \/ StrandExternal(s) \/ Delete(s) \/ IndexOffload(s)
    BY <2>1, CreateStep, AppendInlineStep, AppendExternalStep, StrandExternalStep, DeleteStep,
       IndexOffloadStep
  <2>2. CASE \E s \in Streams : \E o \in 1 .. MaxRetain :
               PublishSnapshot(s, o) \/ AdvanceRetention(s, o)
    BY <2>2, PublishSnapshotStep, AdvanceRetentionStep
  <2>3. CASE PlanExclusive \/ PlanPack \/ IndexFlush \/ PublishFlush \/ RefuseFlush \/ LoseFlush
             \/ AbandonFlush
    BY <2>3, PlanStep, IndexFlushStep, PublishFlushStep, RefuseFlushStep, LoseFlushStep,
       AbandonFlushStep
  <2>4. CASE PlanShared \/ PlanRaw \/ IndexCompaction \/ PublishCompaction
             \/ RefuseCompaction \/ LoseCompaction \/ AbandonCompaction
    BY <2>4, PlanCompactionsStep, IndexCompactionStep, PublishCompactionStep,
       RefuseCompactionStep, LoseCompactionStep, AbandonCompactionStep
  <2>5. CASE PublishOffload \/ RefuseOffload \/ LoseOffload
    BY <2>5, PublishOffloadStep, EndOffloadStep
  <2>6. CASE PlanGc \/ ReclaimPaths \/ ReclaimObjects \/ ReclaimPages \/ FailEntry
             \/ AckGc \/ LoseAck \/ AbandonGc
    BY <2>6, PlanGcStep, ReclaimPathsStep, ReclaimObjectsStep, ReclaimPagesStep, FailEntryStep,
       AckGcStep, EndGcStep
  <2>7. CASE CommitLimbo \/ DiscardLimbo
    BY <2>7, CommitLimboStep, DiscardLimboStep
  <2>. QED
    BY <1>1, <2>1, <2>2, <2>3, <2>4, <2>5, <2>6, <2>7 DEF Next
<1>2. CASE UNCHANGED vars
  <2>1. /\ UNCHANGED <<slot, refs, gc, lastGen, store, pages, lastPath>>
        /\ UNCHANGED <<flusher, compactor, offloader, collector, limbo, orphans>>
    BY <1>2 DEF vars, replicated, workers, outcome
  <2>2. orphans' \subseteq Paths
    BY <2>1 DEF IInv, CountersOK
  <2>3. IInv' /\ OnlyGoneLeave
    BY <2>1, <2>2, IdleParts, IdleStep
  <2>. QED
    BY <2>3
<1>. QED
  BY <1>1, <1>2

(* The inductive invariant: paths and generations are handed out once, a   *)
(* queued incarnation is never live again, and what a GC pass or its       *)
(* unanswered ack counts as reclaimed is gone (run_cold_gc_group_once).    *)
THEOREM Inductive == Spec => []IInv
<1>1. IInv /\ [Next]_vars => IInv'
  BY NextInv
<1>. QED
  BY <1>1, InitInv, PTL DEF Spec

(* Every variable has its type and a stream's offsets are ordered, for     *)
(* every number of streams, workers at any step and commands lost at will  *)
(* (advance_retention, plan_cold_flush_from, ColdGcQueue::push).           *)
THEOREM TypeCorrect == Spec => []TypeOK
<1>1. IInv => TypeOK
  <2> SUFFICES ASSUME IInv PROVE TypeOK
    OBVIOUS
  <2>1. \A e \in Entries(gc) : e.seq < gc.next
    BY DEF IInv, QueueOK, Ordered, Entries
  <2>. QED
    BY <2>1 DEF IInv, TypeOK, CountersOK, SlotOK, QueueOK, Queue, ObjectsOK, FlusherOK,
                CompactorOK, OffloaderOK, CollectorOK, LimboOK
<1>. QED
  BY <1>1, Inductive, PTL

(* An entry leaves the GC queue only once the objects it names are gone,   *)
(* or the pages of the incarnation it names, across failed deletes,        *)
(* deferrals, lost acks and passes that start over                         *)
(* (run_cold_gc_group_once, ack_cold_gc).                                  *)
THEOREM ReclaimedBeforeAcked == Spec => AckedReclaimed
<1>1. IInv /\ [Next]_vars => [OnlyGoneLeave]_vars
  BY NextInv
<1>2. Spec => [][OnlyGoneLeave]_vars
  BY <1>1, Inductive, PTL DEF Spec
<1>. QED
  BY <1>2 DEF AckedReclaimed, OnlyGoneLeave
=============================================================================

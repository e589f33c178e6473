------------------------- MODULE ExpiryIndexProofs -------------------------
(* The TTL index of the registry finds every expired stream, stays bounded *)
(* and removes streams in the order of the plain set of expiries.          *)
EXTENDS ExpiryIndex, FiniteSetTheorems, WellFoundedInduction, TLAPS

(* Every set of naturals but the empty one has a smallest member. *)
Less == {pair \in Nat \X Nat : pair[1] < pair[2]}

LEMMA SmallestExists ==
    ASSUME NEW S \in SUBSET Nat, S # {}
    PROVE  \E m \in S : \A n \in S : m <= n
<1>1. IsWellFoundedOn(Less, Nat)
  BY NatLessThanWellFounded DEF OpToRel, Less
<1>2. PICK m \in S : \A n \in S : ~(<<n, m>> \in Less)
  BY <1>1, WFMin
<1>3. ASSUME NEW n \in S PROVE m <= n
  <2>1. n \in Nat /\ m \in Nat
    OBVIOUS
  <2>2. <<n, m>> \in Nat \X Nat /\ <<n, m>>[1] = n /\ <<n, m>>[2] = m
    BY <2>1
  <2>3. n < m => <<n, m>> \in Less
    BY <2>2 DEF Less
  <2>4. ~(n < m)
    BY <1>2, <2>3
  <2>. QED
    BY <2>1, <2>4
<1>. QED
  BY <1>3

---------------------------------------------------------------------------
(* The sweep's loop.  Its definition is a recursive function: there is one *)
(* such function, so each turn is what the definition says.                *)

Start(r, n) == [r |-> r, left |-> n, got |-> {}]

Turns(g, k, r, now, n) ==
    /\ g[0] = Start(r, n)
    /\ \A i \in Nat : i < k => g[i + 1] = Turn(g[i], now)

LEMMA TurnsAgree ==
    ASSUME NEW r, NEW now, NEW n, NEW g, NEW h, NEW k \in Nat, NEW m \in Nat,
           Turns(g, k, r, now, n), Turns(h, m, r, now, n)
    PROVE  \A i \in Nat : i <= k /\ i <= m => g[i] = h[i]
<1> DEFINE bad == {i \in Nat : i <= k /\ i <= m /\ g[i] # h[i]}
<1>1. SUFFICES ASSUME bad # {} PROVE FALSE
  OBVIOUS
<1>2. PICK i \in bad : \A j \in bad : i <= j
  <2> HIDE DEF bad
  <2>1. bad \in SUBSET Nat
    BY DEF bad
  <2>. QED
    BY <1>1, <2>1, SmallestExists
<1>3. i \in Nat /\ i <= k /\ i <= m /\ g[i] # h[i]
  BY <1>2
<1>4. i # 0
  BY <1>3 DEF Turns
<1>5. i - 1 \in Nat /\ i - 1 < k /\ i - 1 < m /\ (i - 1) + 1 = i /\ ~(i <= i - 1)
  BY <1>3, <1>4
<1>6. g[i - 1] = h[i - 1]
  BY <1>2, <1>5
<1>7. g[i] = Turn(g[i - 1], now) /\ h[i] = Turn(h[i - 1], now)
  BY <1>5 DEF Turns
<1>. QED
  BY <1>3, <1>6, <1>7

LEMMA TurnsExist ==
    ASSUME NEW r, NEW now, NEW n, NEW k \in Nat
    PROVE  \E g : Turns(g, k, r, now, n)
<1> DEFINE bad == {i \in Nat : ~\E g : Turns(g, i, r, now, n)}
<1>1. SUFFICES ASSUME bad # {} PROVE FALSE
  OBVIOUS
<1>2. PICK i \in bad : \A j \in bad : i <= j
  <2> HIDE DEF bad
  <2>1. bad \in SUBSET Nat
    BY DEF bad
  <2>. QED
    BY <1>1, <2>1, SmallestExists
<1>3. i \in Nat /\ ~\E g : Turns(g, i, r, now, n)
  BY <1>2
<1>4. i # 0
  <2> DEFINE g == [j \in Nat |-> Start(r, n)]
  <2>1. Turns(g, 0, r, now, n)
    BY DEF Turns
  <2>. QED
    BY <1>3, <2>1
<1>5. i - 1 \in Nat /\ ~(i <= i - 1)
  BY <1>3, <1>4
<1>6. PICK g : Turns(g, i - 1, r, now, n)
  BY <1>2, <1>5
<1> DEFINE h == [j \in Nat |-> IF j = i THEN Turn(g[i - 1], now) ELSE g[j]]
<1>7. h[0] = Start(r, n)
  BY <1>4, <1>6 DEF Turns
<1>8. ASSUME NEW j \in Nat, j < i PROVE h[j + 1] = Turn(h[j], now)
  <2>1. CASE j = i - 1
    BY <2>1, <1>3, <1>5
  <2>2. CASE j # i - 1
    <3>1. j < i - 1 /\ j + 1 # i /\ j # i /\ j + 1 \in Nat
      BY <2>2, <1>3, <1>8
    <3>2. g[j + 1] = Turn(g[j], now)
      BY <1>6, <3>1 DEF Turns
    <3>. QED
      BY <3>1, <3>2
  <2>. QED
    BY <2>1, <2>2
<1>9. Turns(h, i, r, now, n)
  BY <1>7, <1>8 DEF Turns
<1>. QED
  BY <1>3, <1>9

LEMMA LoopTurns ==
    ASSUME NEW r, NEW now, NEW n
    PROVE  /\ Loop(r, now, n)[0] = Start(r, n)
           /\ \A i \in Nat : Loop(r, now, n)[i + 1] = Turn(Loop(r, now, n)[i], now)
<1> DEFINE part(i) == CHOOSE g : Turns(g, i, r, now, n)
           body(f) == [i \in Nat |-> IF i = 0 THEN Start(r, n)
                                     ELSE Turn(f[i - 1], now)]
           f == [i \in Nat |-> part(i)[i]]
<1>1. \A i \in Nat : Turns(part(i), i, r, now, n)
  BY TurnsExist
<1> HIDE DEF part
<1>2. ASSUME NEW i \in Nat, i # 0 PROVE f[i] = Turn(f[i - 1], now)
  <2>1. i - 1 \in Nat /\ i - 1 < i /\ i - 1 <= i - 1 /\ (i - 1) + 1 = i
    BY <1>2
  <2>2. Turns(part(i), i, r, now, n) /\ Turns(part(i - 1), i - 1, r, now, n)
    BY <1>1, <2>1
  <2>3. part(i)[i] = Turn(part(i)[i - 1], now)
    BY <2>1, <2>2 DEF Turns
  <2>4. part(i)[i - 1] = part(i - 1)[i - 1]
    BY <2>1, <2>2, TurnsAgree
  <2>. QED
    BY <2>1, <2>3, <2>4
<1>3. f[0] = Start(r, n)
  BY <1>1 DEF Turns
<1>4. f = body(f)
  BY <1>2, <1>3
<1> HIDE DEF f
<1>5. Loop(r, now, n) = CHOOSE g : g = body(g)
  BY DEF Loop, Start
<1>6. Loop(r, now, n) = body(Loop(r, now, n))
  <2> HIDE DEF body
  <2>. QED
    BY <1>4, <1>5
<1>. QED
  BY <1>6

---------------------------------------------------------------------------
(* Maps, slots and the order of the heap.                                  *)

LEMMA MapsType ==
    ASSUME NEW D, NEW R, NEW f
    PROVE  f \in Maps(D, R) <=>
             /\ f = [x \in DOMAIN f |-> f[x]]
             /\ DOMAIN f \in SUBSET D
             /\ \A x \in DOMAIN f : f[x] \in R
<1>1. ASSUME f \in Maps(D, R)
      PROVE  f = [x \in DOMAIN f |-> f[x]] /\ DOMAIN f \in SUBSET D
             /\ \A x \in DOMAIN f : f[x] \in R
  <2>1. PICK E \in SUBSET D : f \in [E -> R]
    BY <1>1 DEF Maps
  <2>. QED
    BY <2>1
<1>2. ASSUME f = [x \in DOMAIN f |-> f[x]], DOMAIN f \in SUBSET D,
             \A x \in DOMAIN f : f[x] \in R
      PROVE  f \in Maps(D, R)
  <2>1. f \in [DOMAIN f -> R]
    BY <1>2
  <2>. QED
    BY <1>2, <2>1 DEF Maps
<1>. QED
  BY <1>1, <1>2

LEMMA WithoutType ==
    ASSUME NEW D, NEW R, NEW f \in Maps(D, R), NEW x
    PROVE  Without(f, x) \in Maps(D, R)
BY MapsType DEF Without, Restrict

LEMMA WithoutValues ==
    ASSUME NEW f, NEW x
    PROVE  /\ DOMAIN Without(f, x) = DOMAIN f \ {x}
           /\ \A y \in DOMAIN f : y # x => Without(f, x)[y] = f[y]
BY DEF Without, Restrict

LEMMA NoMapType ==
    ASSUME NEW D, NEW R
    PROVE  NoMap \in Maps(D, R) /\ DOMAIN NoMap = {}
BY MapsType DEF NoMap

LEMMA MinMax ==
    ASSUME NEW a \in Int, NEW b \in Int
    PROVE  /\ Min({a, b}) = IF a <= b THEN a ELSE b
           /\ Max({a, b}) = IF a >= b THEN a ELSE b
BY DEF Min, Max

LEMMA ExpiryType ==
    ASSUME NEW slot \in Slot
    PROVE  /\ ExpiryOf(slot) \in Times \cup {Never}
           /\ slot.fixed # Never => ExpiryOf(slot) = slot.fixed
           /\ slot.fixed = Never /\ slot.ttl = Never => ExpiryOf(slot) = Never
           /\ slot.fixed = Never /\ slot.ttl # Never =>
                ExpiryOf(slot) = IF slot.touch + slot.ttl <= MaxTime
                                 THEN slot.touch + slot.ttl ELSE MaxTime
<1>1. /\ slot.fixed \in Fixed \cup {Never} /\ slot.ttl \in Ttls \cup {Never}
      /\ slot.touch \in Times
  BY DEF Slot
<1>2. slot.ttl # Never => slot.touch + slot.ttl \in Nat /\ slot.ttl \in Nat
  BY <1>1, ExpiryAssumption DEF Times
<1>3. MaxTime \in Nat /\ Fixed \subseteq Times
  BY ExpiryAssumption DEF Times
<1>4. slot.ttl # Never =>
        Saturated(slot.touch + slot.ttl) =
          IF slot.touch + slot.ttl <= MaxTime THEN slot.touch + slot.ttl ELSE MaxTime
  BY <1>2, <1>3, MinMax DEF Saturated
<1>5. CASE slot.fixed # Never
  BY <1>1, <1>3, <1>5 DEF ExpiryOf
<1>6. CASE slot.fixed = Never /\ slot.ttl = Never
  BY <1>6 DEF ExpiryOf
<1>7. CASE slot.fixed = Never /\ slot.ttl # Never
  <2>1. ExpiryOf(slot) = Saturated(slot.touch + slot.ttl)
    BY <1>7 DEF ExpiryOf
  <2>2. ExpiryOf(slot) \in Times
    BY <1>2, <1>3, <1>4, <1>7, <2>1 DEF Times
  <2>. QED
    BY <1>4, <1>7, <2>1, <2>2
<1>. QED
  BY <1>5, <1>6, <1>7

LEMMA EntryType ==
    ASSUME NEW e \in Entry
    PROVE  e.at \in Nat /\ e.s \in Nat /\ e.key \in Nat
           /\ e = [at |-> e.at, s |-> e.s, key |-> e.key]
<1>1. e.at \in Times /\ e.s \in Streams /\ e.key \in 0..MaxKeys
  BY DEF Entry
<1>2. e = [at |-> e.at, s |-> e.s, key |-> e.key]
  BY DEF Entry
<1>3. MaxTime \in Nat /\ MaxKeys \in Nat /\ Streams \subseteq Nat
  BY ExpiryAssumption
<1>. QED
  BY <1>1, <1>2, <1>3 DEF Times

LEMMA FrontFirst ==
    ASSUME NEW h \in SUBSET Entry, h # {}
    PROVE  /\ Front(h) \in h
           /\ \A f \in h : f = Front(h) \/ Sooner(Front(h), f)
<1>1. \A e \in h : e.at \in Nat /\ e.s \in Nat /\ e.key \in Nat
                   /\ e = [at |-> e.at, s |-> e.s, key |-> e.key]
  BY EntryType
<1> DEFINE ats == {e.at : e \in h}
<1>2. ats \in SUBSET Nat /\ ats # {}
  BY <1>1
<1>3. PICK a \in ats : \A b \in ats : a <= b
  <2> HIDE DEF ats
  <2>. QED
    BY <1>2, SmallestExists
<1> DEFINE streams == {e.s : e \in {f \in h : f.at = a}}
<1>4. streams \in SUBSET Nat /\ streams # {}
  BY <1>1, <1>3
<1>5. PICK s \in streams : \A b \in streams : s <= b
  <2> HIDE DEF streams
  <2>. QED
    BY <1>4, SmallestExists
<1> DEFINE ks == {e.key : e \in {f \in h : f.at = a /\ f.s = s}}
<1>6. ks \in SUBSET Nat /\ ks # {}
  BY <1>1, <1>5
<1>7. PICK k \in ks : \A b \in ks : k <= b
  <2> HIDE DEF ks
  <2>. QED
    BY <1>6, SmallestExists
<1>8. PICK e \in h : e.at = a /\ e.s = s /\ e.key = k
  BY <1>7
<1>9. ASSUME NEW f \in h PROVE f = e \/ Sooner(e, f)
  <2>1. a <= f.at /\ (f.at = a => s <= f.s) /\ (f.at = a /\ f.s = s => k <= f.key)
    BY <1>3, <1>5, <1>7
  <2>2. /\ f.at \in Nat /\ f.s \in Nat /\ f.key \in Nat /\ a \in Nat /\ s \in Nat /\ k \in Nat
    BY <1>1, <1>8
  <2>3. f.at = e.at /\ f.s = e.s /\ f.key = e.key => f = e
    BY <1>1
  <2>. QED
    BY <1>8, <2>1, <2>2, <2>3 DEF Sooner
<1>10. \E x \in h : \A f \in h : f = x \/ Sooner(x, f)
  BY <1>9
<1>. QED
  BY <1>10 DEF Front

---------------------------------------------------------------------------
(* The registry's invariant: keys name one slot each, every stream that    *)
(* has an expiry has an armed entry in the heap, at or before it, and      *)
(* nothing else is armed.  X are streams being removed.                    *)

Found(r, s) ==
    ExpiryOf(r.slots[s]) # Never =>
      /\ r.slots[s].key \in DOMAIN r.armed
      /\ r.armed[r.slots[s].key] <= ExpiryOf(r.slots[s])
      /\ [at |-> r.armed[r.slots[s].key], s |-> s, key |-> r.slots[s].key] \in r.heap

IndexedBut(r, k, X) ==
    /\ r \in Registry
    /\ IsFiniteSet(r.heap)
    /\ \A s \in DOMAIN r.slots : r.slots[s].key < k
    /\ \A s, t \in DOMAIN r.slots : r.slots[s].key = r.slots[t].key => s = t
    /\ \A s \in DOMAIN r.slots \ X : Found(r, s)
    /\ \A key \in DOMAIN r.armed :
         \E s \in DOMAIN r.slots : r.slots[s].key = key /\ ExpiryOf(r.slots[s]) # Never

Indexed(r, k) == IndexedBut(r, k, {})

Bounded(r) == Cardinality(r.heap) <= 2 * Cardinality(DOMAIN r.armed)

LEMMA RegistryType ==
    ASSUME NEW r \in Registry
    PROVE  /\ r = [slots |-> r.slots, heap |-> r.heap, armed |-> r.armed]
           /\ r.slots \in Maps(Streams, Slot)
           /\ r.heap \in SUBSET Entry
           /\ r.armed \in Maps(0..MaxKeys, Times)
           /\ DOMAIN r.slots \in SUBSET Streams
           /\ \A s \in DOMAIN r.slots :
                r.slots[s] \in Slot /\ ExpiryOf(r.slots[s]) \in Times \cup {Never}
                /\ r.slots[s].key \in 0..MaxKeys
           /\ DOMAIN r.armed \in SUBSET (0..MaxKeys)
           /\ \A key \in DOMAIN r.armed : r.armed[key] \in Times
<1>1. /\ r.slots \in Maps(Streams, Slot) /\ r.heap \in SUBSET Entry
      /\ r.armed \in Maps(0..MaxKeys, Times)
      /\ r = [slots |-> r.slots, heap |-> r.heap, armed |-> r.armed]
  BY DEF Registry
<1>2. DOMAIN r.slots \in SUBSET Streams /\ \A s \in DOMAIN r.slots : r.slots[s] \in Slot
  BY <1>1, MapsType
<1>3. \A s \in DOMAIN r.slots : ExpiryOf(r.slots[s]) \in Times \cup {Never}
  BY <1>2, ExpiryType
<1>4. \A s \in DOMAIN r.slots : r.slots[s].key \in 0..MaxKeys
  BY <1>2 DEF Slot
<1>5. DOMAIN r.armed \in SUBSET (0..MaxKeys) /\ \A key \in DOMAIN r.armed : r.armed[key] \in Times
  BY <1>1, MapsType
<1>. QED
  BY <1>1, <1>2, <1>3, <1>4, <1>5

LEMMA ArmedFinite ==
    ASSUME NEW r \in Registry
    PROVE  IsFiniteSet(DOMAIN r.armed) /\ Cardinality(DOMAIN r.armed) \in Nat
<1>1. DOMAIN r.armed \in SUBSET (0..MaxKeys)
  BY RegistryType
<1>2. IsFiniteSet(0..MaxKeys)
  <2>1. 0 \in Int /\ MaxKeys \in Int
    BY ExpiryAssumption
  <2>. QED
    BY <2>1, FS_Interval
<1>3. IsFiniteSet(DOMAIN r.armed)
  BY <1>1, <1>2, FS_Subset
<1>. QED
  BY <1>3, FS_CardinalityType

LEMMA ArmedEntriesFew ==
    ASSUME NEW r \in Registry,
           \A s, t \in DOMAIN r.slots : r.slots[s].key = r.slots[t].key => s = t
    PROVE  /\ IsFiniteSet(ArmedEntries(r))
           /\ Cardinality(ArmedEntries(r)) <= Cardinality(DOMAIN r.armed)
           /\ ArmedEntries(r) \in SUBSET Entry
<1> DEFINE entry(s) == [at |-> r.armed[r.slots[s].key], s |-> s, key |-> r.slots[s].key]
           live == {s \in DOMAIN r.slots : r.slots[s].key \in DOMAIN r.armed}
           E == ArmedEntries(r)
           D == DOMAIN r.armed
           key == [e \in E |-> e.key]
<1>1. E = {entry(s) : s \in live}
  BY DEF ArmedEntries
<1>2. E \in SUBSET Entry
  BY <1>1, RegistryType DEF Entry
<1>3. \A e \in E : e.key \in D
  BY <1>1
<1>4. ASSUME NEW e \in E, NEW f \in E, e.key = f.key PROVE e = f
  <2>1. PICK s \in live : e = entry(s)
    BY <1>1
  <2>2. PICK t \in live : f = entry(t)
    BY <1>1
  <2>3. r.slots[s].key = r.slots[t].key
    BY <1>4, <2>1, <2>2
  <2>4. s = t
    BY <2>3
  <2>. QED
    BY <2>1, <2>2, <2>4
<1>5. IsFiniteSet(D)
  BY ArmedFinite
<1> HIDE DEF E, D
<1>6. key \in Injection(E, D)
  BY <1>3, <1>4 DEF Injection, IsInjective
<1>7. IsFiniteSet(E) /\ Cardinality(E) <= Cardinality(D)
  <2> HIDE DEF key
  <2>. QED
    BY <1>5, <1>6, FS_Injection
<1>. QED
  BY <1>2, <1>7 DEF E, D

LEMMA RebuildIndexed ==
    ASSUME NEW r, NEW k, Indexed(r, k)
    PROVE  /\ Indexed(Rebuild(r), k)
           /\ Bounded(Rebuild(r))
           /\ Rebuild(r).slots = r.slots
           /\ Rebuild(r).armed = r.armed
           /\ Rebuild(r).heap \in SUBSET r.heap
           /\ Bounded(r) => Rebuild(r) = r
<1>1. r \in Registry /\ IsFiniteSet(r.heap)
      /\ \A s, t \in DOMAIN r.slots : r.slots[s].key = r.slots[t].key => s = t
  BY DEF Indexed, IndexedBut
<1>2. CASE Cardinality(r.heap) <= 2 * Cardinality(DOMAIN r.armed)
  <2>1. Rebuild(r) = r
    BY <1>2 DEF Rebuild
  <2>. QED
    BY <1>2, <2>1 DEF Bounded
<1>3. CASE ~(Cardinality(r.heap) <= 2 * Cardinality(DOMAIN r.armed))
  <2> DEFINE q == Rebuild(r)
             E == ArmedEntries(r)
  <2>1. q = [r EXCEPT !.heap = E]
    BY <1>3 DEF Rebuild
  <2>2. q = [slots |-> r.slots, heap |-> E, armed |-> r.armed]
    BY <1>1, <2>1, RegistryType
  <2>3. /\ q.slots = r.slots /\ q.armed = r.armed /\ q.heap = E
    BY <2>2
  <2>4. /\ IsFiniteSet(E) /\ Cardinality(E) <= Cardinality(DOMAIN r.armed)
        /\ E \in SUBSET Entry
    BY <1>1, ArmedEntriesFew
  <2>5. q \in Registry
    BY <1>1, <2>2, <2>4, RegistryType DEF Registry
  <2>6. Bounded(q)
    <3>1. Cardinality(E) \in Nat /\ Cardinality(DOMAIN r.armed) \in Nat
      BY <1>1, <2>4, ArmedFinite, FS_CardinalityType
    <3>. QED
      BY <2>3, <2>4, <3>1 DEF Bounded
  <2>7. ASSUME NEW s \in DOMAIN r.slots PROVE Found(q, s)
    <3>1. Found(r, s)
      BY DEF Indexed, IndexedBut
    <3>2. r.slots[s].key \in DOMAIN r.armed =>
            [at |-> r.armed[r.slots[s].key], s |-> s, key |-> r.slots[s].key] \in E
      BY DEF ArmedEntries
    <3>. QED
      BY <2>3, <3>1, <3>2 DEF Found
  <2>8. ASSUME NEW e \in E PROVE e \in r.heap
    <3>1. PICK s \in DOMAIN r.slots :
            /\ r.slots[s].key \in DOMAIN r.armed
            /\ e = [at |-> r.armed[r.slots[s].key], s |-> s, key |-> r.slots[s].key]
      BY DEF ArmedEntries
    <3>2. PICK t \in DOMAIN r.slots :
            r.slots[t].key = r.slots[s].key /\ ExpiryOf(r.slots[t]) # Never
      BY <3>1 DEF Indexed, IndexedBut
    <3>3. t = s
      BY <1>1, <3>2
    <3>4. Found(r, s)
      BY DEF Indexed, IndexedBut
    <3>. QED
      BY <3>1, <3>2, <3>3, <3>4 DEF Found
  <2>9. Indexed(q, k)
    <3> HIDE DEF q, E
    <3>. QED
      BY <2>3, <2>4, <2>5, <2>7 DEF Indexed, IndexedBut
  <2>10. ~Bounded(r)
    BY <1>3 DEF Bounded
  <2>. QED
    BY <2>3, <2>6, <2>8, <2>9, <2>10
<1>. QED
  BY <1>2, <1>3

(* A removal takes the stream out of the slots and the index. *)
LEMMA RemoveIndexed ==
    ASSUME NEW r, NEW k, NEW s \in DOMAIN r.slots, IndexedBut(r, k, {s})
    PROVE  /\ Indexed(RemoveSlot(r, s), k)
           /\ Bounded(RemoveSlot(r, s))
           /\ RemoveSlot(r, s).slots = Without(r.slots, s)
           /\ RemoveSlot(r, s).armed = Without(r.armed, r.slots[s].key)
           /\ RemoveSlot(r, s).heap \in SUBSET r.heap
<1> DEFINE key == r.slots[s].key
           q == [slots |-> Without(r.slots, s), heap |-> r.heap,
                 armed |-> Without(r.armed, key)]
<1>1. r \in Registry /\ IsFiniteSet(r.heap)
      /\ \A t, u \in DOMAIN r.slots : r.slots[t].key = r.slots[u].key => t = u
  BY DEF IndexedBut
<1>2. RemoveSlot(r, s) = Rebuild(q)
  BY DEF RemoveSlot
<1>a. r.slots \in Maps(Streams, Slot) /\ r.armed \in Maps(0..MaxKeys, Times)
  BY <1>1, RegistryType
<1>6. q.heap = r.heap /\ q.slots = Without(r.slots, s) /\ q.armed = Without(r.armed, key)
  OBVIOUS
<1>q. q = [slots |-> q.slots, heap |-> q.heap, armed |-> q.armed]
  OBVIOUS
<1> HIDE DEF q
<1>3. /\ q.slots \in Maps(Streams, Slot) /\ DOMAIN q.slots = DOMAIN r.slots \ {s}
      /\ \A t \in DOMAIN q.slots : q.slots[t] = r.slots[t]
  <2>1. q.slots \in Maps(Streams, Slot)
    BY <1>a, <1>6, WithoutType
  <2>2. DOMAIN q.slots = DOMAIN r.slots \ {s}
    BY <1>6, WithoutValues
  <2>3. \A t \in DOMAIN q.slots : q.slots[t] = r.slots[t]
    <3>1. \A y \in DOMAIN r.slots : y # s => Without(r.slots, s)[y] = r.slots[y]
      BY WithoutValues, Zenon
    <3>. QED
      BY <1>6, <2>2, <3>1
  <2>. QED
    BY <2>1, <2>2, <2>3
<1>4. /\ q.armed \in Maps(0..MaxKeys, Times) /\ DOMAIN q.armed = DOMAIN r.armed \ {key}
      /\ \A x \in DOMAIN q.armed : q.armed[x] = r.armed[x]
  <2>1. q.armed \in Maps(0..MaxKeys, Times)
    BY <1>a, <1>6, WithoutType
  <2>2. DOMAIN q.armed = DOMAIN r.armed \ {key}
    <3> HIDE DEF key
    <3>. QED
      BY <1>6, WithoutValues, Zenon
  <2>3. \A x \in DOMAIN q.armed : q.armed[x] = r.armed[x]
    <3> HIDE DEF key
    <3>1. \A y \in DOMAIN r.armed : y # key => Without(r.armed, key)[y] = r.armed[y]
      BY WithoutValues, Zenon
    <3>. QED
      BY <1>6, <2>2, <3>1
  <2>. QED
    BY <2>1, <2>2, <2>3
<1>5. q \in Registry
  <2>1. q.heap \in SUBSET Entry
    BY <1>1, <1>6, RegistryType
  <2>. QED
    BY <1>3, <1>4, <1>q, <2>1 DEF Registry
<1>7. ASSUME NEW t \in DOMAIN q.slots PROVE Found(q, t)
  <2>1. t \in DOMAIN r.slots /\ t # s /\ q.slots[t] = r.slots[t]
    BY <1>3
  <2>2. Found(r, t) /\ r.slots[t].key # key
    BY <1>1, <2>1 DEF IndexedBut
  <2>. QED
    BY <1>4, <1>6, <2>1, <2>2 DEF Found
<1>8. ASSUME NEW x \in DOMAIN q.armed
      PROVE  \E t \in DOMAIN q.slots : q.slots[t].key = x /\ ExpiryOf(q.slots[t]) # Never
  <2>1. PICK t \in DOMAIN r.slots : r.slots[t].key = x /\ ExpiryOf(r.slots[t]) # Never
    BY <1>4 DEF IndexedBut
  <2>2. t # s
    BY <1>4, <2>1
  <2>. QED
    BY <1>3, <2>1, <2>2
<1>9. Indexed(q, k)
  <2>1. \A t \in DOMAIN q.slots : q.slots[t].key < k
    BY <1>3 DEF IndexedBut
  <2>2. \A t, u \in DOMAIN q.slots : q.slots[t].key = q.slots[u].key => t = u
    BY <1>1, <1>3
  <2>. QED
    BY <1>1, <1>5, <1>6, <1>7, <1>8, <2>1, <2>2 DEF Indexed, IndexedBut
<1> DEFINE p == Rebuild(q)
<1>10. /\ Indexed(p, k) /\ Bounded(p) /\ p.slots = q.slots /\ p.armed = q.armed
       /\ p.heap \in SUBSET q.heap
  BY <1>9, RebuildIndexed
<1> HIDE DEF p
<1>11. RemoveSlot(r, s) = p
  BY <1>2 DEF p
<1>. QED
  BY <1>6, <1>10, <1>11

---------------------------------------------------------------------------
(* What a pop does to the index, in its three cases.                       *)

IsArmed(r, e) ==
    /\ e.s \in DOMAIN r.slots /\ r.slots[e.s].key = e.key
    /\ e.key \in DOMAIN r.armed /\ r.armed[e.key] = e.at

(* The entries that will be re-armed, and the pops a sweep may still take. *)
Early(r) == {e \in r.heap : IsArmed(r, e) /\ ExpiryOf(r.slots[e.s]) > e.at}
Weight(r) == Cardinality(r.heap) + Cardinality(Early(r))

LEMMA EarlyFinite ==
    ASSUME NEW r, IsFiniteSet(r.heap)
    PROVE  /\ IsFiniteSet(Early(r)) /\ Cardinality(Early(r)) \in Nat
           /\ Cardinality(r.heap) \in Nat
           /\ Cardinality(Early(r)) <= Cardinality(r.heap)
<1>1. Early(r) \in SUBSET r.heap
  BY DEF Early
<1>2. IsFiniteSet(Early(r)) /\ Cardinality(Early(r)) <= Cardinality(r.heap)
  BY <1>1, FS_Subset
<1>. QED
  BY <1>2, FS_CardinalityType

LEMMA WeightFalls ==
    ASSUME NEW r, NEW q, IsFiniteSet(r.heap), NEW e \in r.heap,
           q.heap \in SUBSET (r.heap \ {e}), Early(q) \in SUBSET Early(r)
    PROVE  Weight(q) < Weight(r) /\ Cardinality(q.heap) <= Cardinality(r.heap) - 1
<1> DEFINE H == r.heap
           G == q.heap
           E == Early(r)
           F == Early(q)
<1>1. IsFiniteSet(E) /\ Cardinality(E) \in Nat /\ Cardinality(H) \in Nat
  BY EarlyFinite
<1> HIDE DEF H, G, E, F
<1>2. IsFiniteSet(H \ {e}) /\ Cardinality(H \ {e}) = Cardinality(H) - 1
  BY FS_RemoveElement DEF H
<1>3. IsFiniteSet(G) /\ Cardinality(G) <= Cardinality(H \ {e})
  BY <1>2, FS_Subset DEF H, G
<1>4. IsFiniteSet(F) /\ Cardinality(F) <= Cardinality(E)
  BY <1>1, FS_Subset DEF E, F
<1>5. Cardinality(G) \in Nat /\ Cardinality(F) \in Nat
  BY <1>3, <1>4, FS_CardinalityType
<1>6. Weight(r) = Cardinality(H) + Cardinality(E) /\ Weight(q) = Cardinality(G) + Cardinality(F)
  BY DEF Weight, H, G, E, F
<1>7. Cardinality(G) <= Cardinality(H) - 1
  BY <1>2, <1>3
<1>8. Weight(q) < Weight(r)
  BY <1>1, <1>4, <1>5, <1>6, <1>7
<1>. QED
  BY <1>7, <1>8 DEF G, H

LEMMA PopStale ==
    ASSUME NEW r, NEW k, Indexed(r, k), Bounded(r), NEW e \in r.heap, ~IsArmed(r, e)
    PROVE  /\ Indexed(Popped(r, e), k) /\ Bounded(Popped(r, e))
           /\ Popped(r, e).slots = r.slots
           /\ Weight(Popped(r, e)) < Weight(r)
<1> DEFINE q == Popped(r, e)
<1>1. r \in Registry /\ IsFiniteSet(r.heap)
  BY DEF Indexed, IndexedBut
<1>2. q = [r EXCEPT !.heap = @ \ {e}]
  BY DEF Popped, IsArmed
<1>3. r = [slots |-> r.slots, heap |-> r.heap, armed |-> r.armed]
  BY <1>1, RegistryType
<1>4. q = [slots |-> r.slots, heap |-> r.heap \ {e}, armed |-> r.armed]
  BY <1>2, <1>3
<1>5. q.slots = r.slots /\ q.heap = r.heap \ {e} /\ q.armed = r.armed
  BY <1>4
<1> HIDE DEF q
<1>6. q \in Registry
  BY <1>1, <1>4, <1>5, RegistryType DEF Registry
<1>7. ASSUME NEW s \in DOMAIN r.slots PROVE Found(q, s)
  <2>1. Found(r, s)
    BY DEF Indexed, IndexedBut
  <2> DEFINE f == [at |-> r.armed[r.slots[s].key], s |-> s, key |-> r.slots[s].key]
  <2>2. r.slots[s].key \in DOMAIN r.armed => IsArmed(r, f)
    BY DEF IsArmed
  <2>3. r.slots[s].key \in DOMAIN r.armed => f # e
    BY <2>2
  <2>. QED
    BY <1>5, <2>1, <2>3 DEF Found
<1>8. IsFiniteSet(q.heap)
  BY <1>1, <1>5, FS_Subset
<1>9. Indexed(q, k)
  BY <1>5, <1>6, <1>7, <1>8 DEF Indexed, IndexedBut
<1>10. Early(q) \in SUBSET Early(r)
  BY <1>5 DEF Early, IsArmed
<1>11. Weight(q) < Weight(r) /\ Cardinality(q.heap) <= Cardinality(r.heap) - 1
  BY <1>1, <1>5, <1>10, WeightFalls
<1>12. Bounded(q)
  <2>1. Cardinality(r.heap) \in Nat /\ Cardinality(q.heap) \in Nat /\ Cardinality(DOMAIN r.armed) \in Nat
    BY <1>1, <1>8, ArmedFinite, FS_CardinalityType
  <2>. QED
    BY <1>5, <1>11, <2>1 DEF Bounded
<1>. QED
  BY <1>5, <1>9, <1>11, <1>12 DEF q

(* An armed entry is that of a live stream, at or before its expiry. *)
LEMMA ArmedLive ==
    ASSUME NEW r, NEW k, Indexed(r, k), NEW e \in r.heap, IsArmed(r, e)
    PROVE  /\ e.s \in DOMAIN r.slots
           /\ ExpiryOf(r.slots[e.s]) \in Times
           /\ e.at <= ExpiryOf(r.slots[e.s])
           /\ e \in Entry
<1>1. r \in Registry
  BY DEF Indexed, IndexedBut
<1>2. PICK s \in DOMAIN r.slots : r.slots[s].key = e.key /\ ExpiryOf(r.slots[s]) # Never
  BY DEF Indexed, IndexedBut, IsArmed
<1>3. s = e.s
  BY <1>2 DEF Indexed, IndexedBut, IsArmed
<1>4. Found(r, s)
  BY DEF Indexed, IndexedBut
<1>5. ExpiryOf(r.slots[s]) \in Times
  BY <1>1, <1>2, RegistryType
<1>6. e.at <= ExpiryOf(r.slots[s])
  BY <1>2, <1>3, <1>4 DEF Found, IsArmed
<1>7. e \in Entry
  BY <1>1, RegistryType
<1>. QED
  BY <1>3, <1>5, <1>6, <1>7

LEMMA PopRenewed ==
    ASSUME NEW r, NEW k, Indexed(r, k), Bounded(r), NEW e \in r.heap, IsArmed(r, e),
           ExpiryOf(r.slots[e.s]) > e.at
    PROVE  /\ Indexed(Popped(r, e), k) /\ Bounded(Popped(r, e))
           /\ Popped(r, e).slots = r.slots
           /\ Weight(Popped(r, e)) < Weight(r)
<1> DEFINE q == Popped(r, e)
           at == ExpiryOf(r.slots[e.s])
           new == [at |-> at, s |-> e.s, key |-> e.key]
           H == r.heap \ {e}
<1>1. r \in Registry /\ IsFiniteSet(r.heap)
  BY DEF Indexed, IndexedBut
<1>2. e.s \in DOMAIN r.slots /\ at \in Times /\ e \in Entry
  BY ArmedLive
<1>3. r = [slots |-> r.slots, heap |-> r.heap, armed |-> r.armed]
  BY <1>1, RegistryType
<1>4. [r EXCEPT !.heap = @ \ {e}].heap = H
  BY <1>3
<1>5. q = [slots |-> r.slots, heap |-> H \cup {new}, armed |-> With(r.armed, e.key, at)]
  <2>1. /\ ~(\/ e.s \notin DOMAIN r.slots \/ r.slots[e.s].key # e.key
             \/ e.key \notin DOMAIN r.armed \/ r.armed[e.key] # e.at)
        /\ at > e.at
    BY DEF IsArmed
  <2>. QED
    BY <1>4, <2>1 DEF Popped
<1>6. /\ q.slots = r.slots /\ q.heap = H \cup {new} /\ q.armed = With(r.armed, e.key, at)
      /\ q = [slots |-> q.slots, heap |-> q.heap, armed |-> q.armed]
  BY <1>5
<1>7. e.key \in DOMAIN r.armed /\ r.slots[e.s].key = e.key /\ r.armed[e.key] = e.at
  BY DEF IsArmed
<1>8. new \in Entry /\ new.at = at /\ new.s = e.s /\ new.key = e.key
  BY <1>2 DEF Entry
<1>9. at = ExpiryOf(r.slots[e.s]) /\ at > e.at
  OBVIOUS
<1> HIDE DEF q, new, at
<1>10. DOMAIN q.armed = DOMAIN r.armed /\ q.armed[e.key] = at
  <2>1. DOMAIN With(r.armed, e.key, at) = DOMAIN r.armed \cup {e.key}
    BY DEF With
  <2>2. With(r.armed, e.key, at)[e.key] = at
    BY DEF With
  <2>. QED
    BY <1>6, <1>7, <2>1, <2>2
<1>11. \A y \in DOMAIN r.armed : y # e.key => q.armed[y] = r.armed[y]
  <2>1. \A y \in DOMAIN r.armed : y # e.key => With(r.armed, e.key, at)[y] = r.armed[y]
    BY DEF With
  <2>. QED
    BY <1>6, <2>1
<1>12. q \in Registry
  <2>1. e.key \in 0..MaxKeys
    BY <1>2 DEF Entry
  <2>2. q.armed \in Maps(0..MaxKeys, Times)
    <3>1. r.armed \in Maps(0..MaxKeys, Times)
      BY <1>1, RegistryType
    <3>. QED
      BY <1>2, <1>6, <1>10, <1>11, <2>1, <3>1, MapsType DEF With
  <2>3. q.slots \in Maps(Streams, Slot) /\ q.heap \in SUBSET Entry
    BY <1>1, <1>6, <1>8, RegistryType
  <2>. QED
    BY <1>6, <2>2, <2>3 DEF Registry
<1>13. ASSUME NEW s \in DOMAIN r.slots PROVE Found(q, s)
  <2>1. CASE s = e.s
    <3>1. ExpiryOf(q.slots[s]) = at /\ q.slots[s].key = e.key /\ q.armed[e.key] = at
          /\ e.key \in DOMAIN q.armed
      BY <1>6, <1>7, <1>9, <1>10, <2>1
    <3>2. [at |-> q.armed[q.slots[s].key], s |-> s, key |-> q.slots[s].key] = new
      BY <2>1, <3>1 DEF new
    <3>3. at <= at
      BY <1>2, ExpiryAssumption DEF Times
    <3>. QED
      BY <1>6, <3>1, <3>2, <3>3 DEF Found
  <2>2. CASE s # e.s
    <3>1. Found(r, s)
      BY DEF Indexed, IndexedBut
    <3>2. r.slots[s].key # e.key
      BY <1>2, <1>7, <2>2 DEF Indexed, IndexedBut
    <3>3. [at |-> r.armed[r.slots[s].key], s |-> s, key |-> r.slots[s].key] # e
      BY <2>2
    <3>. QED
      BY <1>6, <1>10, <1>11, <3>1, <3>2, <3>3 DEF Found
  <2>. QED
    BY <2>1, <2>2
<1>14. /\ IsFiniteSet(H) /\ Cardinality(H) = Cardinality(r.heap) - 1
       /\ IsFiniteSet(H \cup {new})
       /\ Cardinality(H \cup {new}) <= Cardinality(r.heap)
  <2>1. IsFiniteSet(H) /\ Cardinality(H) = Cardinality(r.heap) - 1
    BY <1>1, FS_RemoveElement
  <2>2. Cardinality(H) \in Nat /\ Cardinality(r.heap) \in Nat
    BY <1>1, <2>1, FS_CardinalityType
  <2> HIDE DEF H
  <2>3. /\ IsFiniteSet(H \cup {new})
        /\ Cardinality(H \cup {new}) = IF new \in H THEN Cardinality(H) ELSE Cardinality(H) + 1
    BY <2>1, FS_AddElement
  <2>. QED
    BY <2>1, <2>2, <2>3
<1>15. Indexed(q, k)
  BY <1>6, <1>10, <1>12, <1>13, <1>14 DEF Indexed, IndexedBut
<1>16. Cardinality(q.heap) <= Cardinality(r.heap) /\ Cardinality(q.heap) \in Nat
       /\ Cardinality(r.heap) \in Nat
  BY <1>1, <1>6, <1>14, FS_CardinalityType
<1>17. Bounded(q)
  <2>1. Cardinality(DOMAIN r.armed) \in Nat
    BY <1>1, ArmedFinite
  <2>. QED
    BY <1>10, <1>16, <2>1 DEF Bounded
<1>18. Early(q) \in SUBSET (Early(r) \ {e})
  <2> SUFFICES ASSUME NEW f \in Early(q) PROVE f \in Early(r) /\ f # e
    OBVIOUS
  <2>1. /\ f \in q.heap /\ IsArmed(q, f) /\ ExpiryOf(r.slots[f.s]) > f.at
    BY <1>6 DEF Early
  <2>2. f.key # e.key
    <3>1. SUFFICES ASSUME f.key = e.key PROVE FALSE
      OBVIOUS
    <3>2. f.at = at /\ f.s \in DOMAIN r.slots /\ r.slots[f.s].key = e.key
      BY <1>6, <1>10, <2>1, <3>1 DEF IsArmed
    <3>3. f.s = e.s
      BY <1>2, <1>7, <3>2 DEF Indexed, IndexedBut
    <3>4. at > at
      BY <1>9, <2>1, <3>2, <3>3
    <3>. QED
      BY <1>2, <3>4, ExpiryAssumption DEF Times
  <2>3. f \in r.heap
    BY <1>6, <1>8, <2>1, <2>2
  <2>4. IsArmed(r, f)
    BY <1>6, <1>10, <1>11, <2>1, <2>2 DEF IsArmed
  <2>. QED
    BY <2>1, <2>2, <2>3, <2>4 DEF Early
<1>19. Weight(q) < Weight(r)
  <2> DEFINE E == Early(r)
             F == Early(q)
  <2>1. IsFiniteSet(E) /\ Cardinality(E) \in Nat
    BY <1>1, EarlyFinite
  <2>2. e \in E
    BY <1>9 DEF Early
  <2>3. F \in SUBSET (E \ {e})
    BY <1>18
  <2>4. Weight(r) = Cardinality(r.heap) + Cardinality(E) /\ Weight(q) = Cardinality(q.heap) + Cardinality(F)
    BY DEF Weight
  <2> HIDE DEF E, F
  <2>5. IsFiniteSet(E \ {e}) /\ Cardinality(E \ {e}) = Cardinality(E) - 1
    BY <2>1, <2>2, FS_RemoveElement
  <2>6. IsFiniteSet(F) /\ Cardinality(F) <= Cardinality(E \ {e})
    BY <2>3, <2>5, FS_Subset
  <2>7. Cardinality(F) \in Nat
    BY <2>6, FS_CardinalityType
  <2>. QED
    BY <1>16, <2>1, <2>4, <2>5, <2>6, <2>7
<1>. QED
  BY <1>6, <1>15, <1>17, <1>19 DEF q

LEMMA PopReturned ==
    ASSUME NEW r, NEW k, Indexed(r, k), NEW e \in r.heap, IsArmed(r, e),
           ExpiryOf(r.slots[e.s]) = e.at
    PROVE  /\ IndexedBut(Popped(r, e), k, {e.s})
           /\ Popped(r, e).slots = r.slots
           /\ Popped(r, e).heap = r.heap \ {e}
           /\ Popped(r, e).armed = Without(r.armed, e.key)
<1> DEFINE q == Popped(r, e)
           p == [r EXCEPT !.heap = @ \ {e}]
<1>1. r \in Registry /\ IsFiniteSet(r.heap)
  BY DEF Indexed, IndexedBut
<1>2. e.s \in DOMAIN r.slots /\ e \in Entry /\ e.at \in Nat
  BY ArmedLive, EntryType
<1>3. r = [slots |-> r.slots, heap |-> r.heap, armed |-> r.armed]
  BY <1>1, RegistryType
<1>4. p = [slots |-> r.slots, heap |-> r.heap \ {e}, armed |-> r.armed]
  BY <1>3
<1>5. q = Disarm(p, e.key)
  <2>1. /\ ~(\/ e.s \notin DOMAIN r.slots \/ r.slots[e.s].key # e.key
             \/ e.key \notin DOMAIN r.armed \/ r.armed[e.key] # e.at)
        /\ ~(ExpiryOf(r.slots[e.s]) > e.at)
    BY <1>2 DEF IsArmed
  <2>. QED
    BY <2>1 DEF Popped
<1> HIDE DEF p, q
<1>6. q = [slots |-> r.slots, heap |-> r.heap \ {e}, armed |-> Without(r.armed, e.key)]
  BY <1>4, <1>5 DEF Disarm
<1>7. /\ q.slots = r.slots /\ q.heap = r.heap \ {e} /\ q.armed = Without(r.armed, e.key)
      /\ q = [slots |-> q.slots, heap |-> q.heap, armed |-> q.armed]
  BY <1>6
<1>8. DOMAIN q.armed = DOMAIN r.armed \ {e.key}
  <2>1. DOMAIN Without(r.armed, e.key) = DOMAIN r.armed \ {e.key}
    BY WithoutValues, Zenon
  <2>. QED
    BY <1>7, <2>1
<1>9. \A y \in DOMAIN r.armed : y # e.key => q.armed[y] = r.armed[y]
  <2>1. \A y \in DOMAIN r.armed : y # e.key => Without(r.armed, e.key)[y] = r.armed[y]
    BY WithoutValues, Zenon
  <2>. QED
    BY <1>7, <2>1
<1>10. q \in Registry
  <2>1. q.armed \in Maps(0..MaxKeys, Times)
    BY <1>1, <1>7, RegistryType, WithoutType
  <2>2. q.slots \in Maps(Streams, Slot) /\ q.heap \in SUBSET Entry
    BY <1>1, <1>7, RegistryType
  <2>. QED
    BY <1>7, <2>1, <2>2 DEF Registry
<1>11. r.slots[e.s].key = e.key
  BY DEF IsArmed
<1>12. ASSUME NEW s \in DOMAIN r.slots \ {e.s} PROVE Found(q, s)
  <2>1. Found(r, s)
    BY DEF Indexed, IndexedBut
  <2>2. r.slots[s].key # e.key
    BY <1>2, <1>11 DEF Indexed, IndexedBut
  <2>3. [at |-> r.armed[r.slots[s].key], s |-> s, key |-> r.slots[s].key] # e
    OBVIOUS
  <2>. QED
    BY <1>7, <1>8, <1>9, <2>1, <2>2, <2>3 DEF Found
<1>13. IsFiniteSet(q.heap)
  BY <1>1, <1>7, FS_Subset
<1>14. IndexedBut(q, k, {e.s})
  BY <1>7, <1>8, <1>10, <1>12, <1>13 DEF Indexed, IndexedBut
<1>. QED
  BY <1>7, <1>14 DEF q

---------------------------------------------------------------------------
(* One turn of the loop either works on the index alone or removes the     *)
(* first expired stream, and leaves fewer pops to take.                    *)

SoonerStream(S, s, t) ==
    \/ ExpiryOf(S[s]) < ExpiryOf(S[t])
    \/ ExpiryOf(S[s]) = ExpiryOf(S[t]) /\ s < t

Removes(l, m, now) ==
    \E s \in DOMAIN l.r.slots :
      /\ m.left = l.left - 1
      /\ m.got = l.got \cup {s}
      /\ m.r.slots = Without(l.r.slots, s)
      /\ IsExpired(l.r.slots[s], now)
      /\ \A t \in DOMAIN l.r.slots :
           t # s /\ ExpiryOf(l.r.slots[t]) # Never => SoonerStream(l.r.slots, s, t)

LEMMA FrontSooner ==
    ASSUME NEW r, NEW k, Indexed(r, k), r.heap # {}, IsArmed(r, Front(r.heap)),
           ExpiryOf(r.slots[Front(r.heap).s]) = Front(r.heap).at,
           NEW t \in DOMAIN r.slots, t # Front(r.heap).s, ExpiryOf(r.slots[t]) # Never
    PROVE  SoonerStream(r.slots, Front(r.heap).s, t)
<1> DEFINE e == Front(r.heap)
           f == [at |-> r.armed[r.slots[t].key], s |-> t, key |-> r.slots[t].key]
<1>1. r \in Registry /\ r.heap \in SUBSET Entry
  BY RegistryType DEF Indexed, IndexedBut
<1>2. e \in r.heap /\ \A x \in r.heap : x = e \/ Sooner(e, x)
  BY <1>1, FrontFirst
<1>3. Found(r, t)
  BY DEF Indexed, IndexedBut
<1>4. f \in r.heap /\ f.at <= ExpiryOf(r.slots[t]) /\ f.s = t
  BY <1>3 DEF Found
<1>5. e \in Entry /\ f \in Entry
  BY <1>1, <1>2, <1>4
<1>6. /\ e.at \in Nat /\ f.at \in Nat /\ e.s \in Nat /\ t \in Nat
      /\ ExpiryOf(r.slots[t]) \in Nat
  <2>1. ExpiryOf(r.slots[t]) \in Times
    BY <1>1, RegistryType
  <2>2. t \in Nat
    BY <1>1, RegistryType, ExpiryAssumption
  <2>. QED
    BY <1>5, <2>1, <2>2, EntryType, ExpiryAssumption DEF Times
<1>7. Sooner(e, f)
  BY <1>2, <1>4
<1>8. ExpiryOf(r.slots[e.s]) = e.at /\ e.s # t
  OBVIOUS
<1> HIDE DEF e, f
<1>9. e.at < f.at \/ (e.at = f.at /\ e.s < t)
  BY <1>4, <1>7, <1>8 DEF Sooner
<1>10. SoonerStream(r.slots, e.s, t)
  BY <1>4, <1>6, <1>8, <1>9 DEF SoonerStream
<1>. QED
  BY <1>10 DEF e

LEMMA TurnStep ==
    ASSUME NEW l, NEW now \in Int, NEW k, l = [r |-> l.r, left |-> l.left, got |-> l.got],
           Indexed(l.r, k), Bounded(l.r), l.left # 0, FrontDue(l.r.heap, now)
    PROVE  /\ Turn(l, now) = [r |-> Turn(l, now).r, left |-> Turn(l, now).left,
                              got |-> Turn(l, now).got]
           /\ Indexed(Turn(l, now).r, k) /\ Bounded(Turn(l, now).r)
           /\ Weight(Turn(l, now).r) < Weight(l.r)
           /\ \/ /\ Turn(l, now).left = l.left
                 /\ Turn(l, now).got = l.got
                 /\ Turn(l, now).r.slots = l.r.slots
              \/ Removes(l, Turn(l, now), now)
<1> DEFINE r == l.r
           e == Front(r.heap)
           p == Popped(r, e)
           m == Turn(l, now)
<1>1. r \in Registry /\ IsFiniteSet(r.heap) /\ r.heap \in SUBSET Entry
  BY RegistryType DEF Indexed, IndexedBut
<1>2. r.heap # {} /\ e.at <= now
  BY DEF FrontDue
<1>3. e \in r.heap
  BY <1>1, <1>2, FrontFirst
<1>4. m = IF Returns(r, e, now)
          THEN [r |-> RemoveSlot(p, e.s), left |-> l.left - 1, got |-> l.got \cup {e.s}]
          ELSE [l EXCEPT !.r = p]
  BY DEF Turn
<1>5. [l EXCEPT !.r = p] = [r |-> p, left |-> l.left, got |-> l.got]
  <2> HIDE DEF p
  <2>. QED
    OBVIOUS
<1>6. CASE ~IsArmed(r, e)
  <2>1. ~Returns(r, e, now)
    BY <1>6 DEF Returns, IsArmed
  <2>2. m = [r |-> p, left |-> l.left, got |-> l.got]
    BY <1>4, <1>5, <2>1
  <2>3. Indexed(p, k) /\ Bounded(p) /\ p.slots = r.slots /\ Weight(p) < Weight(r)
    BY <1>3, <1>6, PopStale
  <2> HIDE DEF p, m
  <2>4. m.r = p /\ m.left = l.left /\ m.got = l.got
    BY <2>2
  <2>. QED
    BY <2>2, <2>3, <2>4 DEF m
<1>7. CASE IsArmed(r, e) /\ ExpiryOf(r.slots[e.s]) > e.at
  <2>1. ~Returns(r, e, now)
    <3>1. e.at \in Nat /\ ExpiryOf(r.slots[e.s]) \in Nat
      BY <1>3, <1>7, ArmedLive, EntryType, ExpiryAssumption DEF Times
    <3>. QED
      BY <1>7, <3>1 DEF Returns
  <2>2. m = [r |-> p, left |-> l.left, got |-> l.got]
    BY <1>4, <1>5, <2>1
  <2>3. Indexed(p, k) /\ Bounded(p) /\ p.slots = r.slots /\ Weight(p) < Weight(r)
    BY <1>3, <1>7, PopRenewed
  <2> HIDE DEF p, m
  <2>4. m.r = p /\ m.left = l.left /\ m.got = l.got
    BY <2>2
  <2>. QED
    BY <2>2, <2>3, <2>4 DEF m
<1>8. CASE IsArmed(r, e) /\ ~(ExpiryOf(r.slots[e.s]) > e.at)
  <2>1. e.s \in DOMAIN r.slots /\ ExpiryOf(r.slots[e.s]) = e.at /\ e.at \in Nat
    BY <1>3, <1>8, ArmedLive, EntryType, ExpiryAssumption DEF Times
  <2>2. IsExpired(r.slots[e.s], now)
    BY <1>2, <2>1 DEF IsExpired, Never
  <2>3. Returns(r, e, now)
    BY <1>8, <2>1, <2>2 DEF Returns, IsArmed
  <2> DEFINE q == RemoveSlot(p, e.s)
  <2>4. m = [r |-> q, left |-> l.left - 1, got |-> l.got \cup {e.s}]
    BY <1>4, <2>3
  <2>5. /\ IndexedBut(p, k, {e.s}) /\ p.slots = r.slots /\ p.heap = r.heap \ {e}
        /\ p.armed = Without(r.armed, e.key)
    BY <1>3, <1>8, <2>1, PopReturned
  <2>6. /\ Indexed(q, k) /\ Bounded(q) /\ q.slots = Without(p.slots, e.s)
        /\ q.armed = Without(p.armed, p.slots[e.s].key)
        /\ q.heap \in SUBSET p.heap
    <3>1. e.s \in DOMAIN p.slots
      BY <2>1, <2>5
    <3>2. IndexedBut(p, k, {e.s})
      BY <2>5
    <3> DEFINE s == e.s
    <3> HIDE DEF p, s
    <3>3. s \in DOMAIN p.slots /\ IndexedBut(p, k, {s})
      BY <3>1, <3>2 DEF s
    <3>4. /\ Indexed(RemoveSlot(p, s), k) /\ Bounded(RemoveSlot(p, s))
          /\ RemoveSlot(p, s).slots = Without(p.slots, s)
          /\ RemoveSlot(p, s).armed = Without(p.armed, p.slots[s].key)
          /\ RemoveSlot(p, s).heap \in SUBSET p.heap
      BY <3>3, RemoveIndexed
    <3>. QED
      BY <3>4 DEF s
  <2> HIDE DEF p, m, q
  <2>7. m.r = q /\ m.left = l.left - 1 /\ m.got = l.got \cup {e.s}
    BY <2>4
  <2>8. Early(q) \in SUBSET Early(r)
    <3> SUFFICES ASSUME NEW f \in Early(q) PROVE f \in Early(r)
      OBVIOUS
    <3>1. f \in q.heap /\ IsArmed(q, f) /\ ExpiryOf(q.slots[f.s]) > f.at
      BY DEF Early
    <3>2. DOMAIN q.slots = DOMAIN r.slots \ {e.s}
      BY <2>5, <2>6 DEF Without, Restrict
    <3>3. f.s \in DOMAIN r.slots /\ f.s # e.s
      BY <3>1, <3>2 DEF IsArmed
    <3>4. q.slots[f.s] = r.slots[f.s]
      <4>1. q.slots = Without(r.slots, e.s)
        BY <2>5, <2>6
      <4>. QED
        BY <3>3, <4>1 DEF Without, Restrict
    <3>5. r.slots[e.s].key = e.key
      BY <1>8 DEF IsArmed
    <3>6. q.armed = Without(Without(r.armed, e.key), e.key)
      BY <2>5, <2>6, <3>5
    <3>7. f.key \in DOMAIN q.armed
      BY <3>1 DEF IsArmed
    <3>8. f.key \in DOMAIN r.armed /\ q.armed[f.key] = r.armed[f.key]
      BY <3>6, <3>7 DEF Without, Restrict
    <3>9. IsArmed(r, f)
      BY <3>1, <3>3, <3>4, <3>8 DEF IsArmed
    <3>. QED
      BY <2>5, <2>6, <3>1, <3>4, <3>9 DEF Early
  <2>9. Weight(q) < Weight(r)
    BY <1>1, <1>3, <2>5, <2>6, <2>8, WeightFalls
  <2>10. ASSUME NEW t \in DOMAIN r.slots, t # e.s, ExpiryOf(r.slots[t]) # Never
         PROVE  SoonerStream(r.slots, e.s, t)
    BY <1>2, <1>8, <2>1, <2>10, FrontSooner
  <2>11. Removes(l, m, now)
    BY <2>1, <2>2, <2>5, <2>6, <2>7, <2>10 DEF Removes
  <2>. QED
    BY <2>4, <2>6, <2>7, <2>9, <2>11 DEF m
<1>. QED
  BY <1>6, <1>7, <1>8

---------------------------------------------------------------------------
(* The loop removes streams in the order of their expiries, and ends.      *)

LoopInv(l, S, now, n, k) ==
    /\ l = [r |-> l.r, left |-> l.left, got |-> l.got]
    /\ Indexed(l.r, k) /\ Bounded(l.r)
    /\ l.left \in Nat
    /\ l.got \in SUBSET DOMAIN S
    /\ \A g \in l.got : IsExpired(S[g], now)
    /\ DOMAIN l.r.slots = DOMAIN S \ l.got
    /\ \A s \in DOMAIN l.r.slots : l.r.slots[s] = S[s]
    /\ IsFiniteSet(l.got) /\ Cardinality(l.got) + l.left = n
    /\ \A g \in l.got : \A t \in DOMAIN S \ l.got :
         ExpiryOf(S[t]) # Never => SoonerStream(S, g, t)

Ended(l, now) == l.left = 0 \/ ~FrontDue(l.r.heap, now)

LEMMA LoopStep ==
    ASSUME NEW l, NEW S, NEW now \in Int, NEW n, NEW k, LoopInv(l, S, now, n, k)
    PROVE  /\ LoopInv(Turn(l, now), S, now, n, k)
           /\ Ended(l, now) => Turn(l, now) = l
           /\ ~Ended(l, now) => Weight(Turn(l, now).r) < Weight(l.r)
<1>1. CASE Ended(l, now)
  <2>1. Turn(l, now) = l
    BY <1>1 DEF Ended, Turn
  <2>. QED
    BY <1>1, <2>1
<1>2. CASE ~Ended(l, now)
  <2> DEFINE m == Turn(l, now)
  <2>1. /\ l = [r |-> l.r, left |-> l.left, got |-> l.got] /\ Indexed(l.r, k) /\ Bounded(l.r)
        /\ l.left # 0 /\ l.left \in Nat /\ FrontDue(l.r.heap, now)
    BY <1>2 DEF LoopInv, Ended
  <2>2. /\ m = [r |-> m.r, left |-> m.left, got |-> m.got]
        /\ Indexed(m.r, k) /\ Bounded(m.r)
        /\ Weight(m.r) < Weight(l.r)
        /\ \/ m.left = l.left /\ m.got = l.got /\ m.r.slots = l.r.slots
           \/ Removes(l, m, now)
    BY <2>1, TurnStep
  <2> HIDE DEF m
  <2>3. CASE m.left = l.left /\ m.got = l.got /\ m.r.slots = l.r.slots
    <3>1. LoopInv(m, S, now, n, k)
      BY <2>2, <2>3 DEF LoopInv
    <3>. QED
      BY <1>2, <2>2, <3>1 DEF m
  <2>4. CASE Removes(l, m, now)
    <3>1. PICK s \in DOMAIN l.r.slots :
            /\ m.left = l.left - 1 /\ m.got = l.got \cup {s}
            /\ m.r.slots = Without(l.r.slots, s)
            /\ IsExpired(l.r.slots[s], now)
            /\ \A t \in DOMAIN l.r.slots :
                 t # s /\ ExpiryOf(l.r.slots[t]) # Never => SoonerStream(l.r.slots, s, t)
      BY <2>4 DEF Removes
    <3>2. /\ DOMAIN l.r.slots = DOMAIN S \ l.got /\ s \in DOMAIN S /\ s \notin l.got
          /\ \A t \in DOMAIN l.r.slots : l.r.slots[t] = S[t]
          /\ l.got \in SUBSET DOMAIN S
      BY <3>1 DEF LoopInv
    <3>3. /\ DOMAIN m.r.slots = DOMAIN S \ m.got
          /\ \A t \in DOMAIN m.r.slots : m.r.slots[t] = S[t]
      BY <3>1, <3>2 DEF Without, Restrict
    <3>4. IsExpired(S[s], now)
      BY <3>1, <3>2
    <3>5. ASSUME NEW t \in DOMAIN S \ m.got, ExpiryOf(S[t]) # Never
          PROVE  SoonerStream(S, s, t)
      <4>1. t \in DOMAIN l.r.slots /\ t # s /\ l.r.slots[t] = S[t] /\ l.r.slots[s] = S[s]
        BY <3>1, <3>2
      <4>2. SoonerStream(l.r.slots, s, t)
        BY <3>1, <3>5, <4>1
      <4>. QED
        BY <4>1, <4>2 DEF SoonerStream
    <3>6. \A g \in l.got : \A t \in DOMAIN S \ l.got :
            ExpiryOf(S[t]) # Never => SoonerStream(S, g, t)
      BY DEF LoopInv
    <3>7. \A g \in m.got : \A t \in DOMAIN S \ m.got :
            ExpiryOf(S[t]) # Never => SoonerStream(S, g, t)
      BY <3>1, <3>5, <3>6
    <3>8. IsFiniteSet(m.got) /\ Cardinality(m.got) + m.left = n
      <4> DEFINE G == l.got
      <4>1. IsFiniteSet(G) /\ Cardinality(G) + l.left = n /\ s \notin G
        BY <3>2 DEF LoopInv
      <4> HIDE DEF G
      <4>2. IsFiniteSet(G \cup {s}) /\ Cardinality(G \cup {s}) = Cardinality(G) + 1
            /\ Cardinality(G) \in Nat
        BY <4>1, FS_AddElement, FS_CardinalityType
      <4>3. m.got = G \cup {s}
        BY <3>1 DEF G
      <4>. QED
        BY <2>1, <3>1, <4>1, <4>2, <4>3
    <3>9. m.left \in Nat /\ m.got \in SUBSET DOMAIN S /\ \A g \in m.got : IsExpired(S[g], now)
      BY <2>1, <3>1, <3>2, <3>4 DEF LoopInv
    <3>10. LoopInv(m, S, now, n, k)
      BY <2>2, <3>3, <3>7, <3>8, <3>9 DEF LoopInv
    <3>. QED
      BY <1>2, <2>2, <3>10 DEF m
  <2>. QED
    BY <2>2, <2>3, <2>4
<1>. QED
  BY <1>1, <1>2

LEMMA SweptOutcome ==
    ASSUME NEW r, NEW now \in Int, NEW n \in Nat, NEW k, Indexed(r, k), Bounded(r)
    PROVE  /\ LoopInv(Swept(r, now, n), r.slots, now, n, k)
           /\ Ended(Swept(r, now, n), now)
<1> DEFINE loop == Loop(r, now, n)
           top == 2 * Cardinality(r.heap)
           good(i) == /\ LoopInv(loop[i], r.slots, now, n, k)
                      /\ Ended(loop[i], now) \/ Weight(loop[i].r) + i <= top
           bad == {i \in Nat : ~good(i)}
<1>1. loop[0] = Start(r, n) /\ \A i \in Nat : loop[i + 1] = Turn(loop[i], now)
  BY LoopTurns
<1>2. r \in Registry /\ IsFiniteSet(r.heap)
  BY DEF Indexed, IndexedBut
<1>3. /\ Cardinality(r.heap) \in Nat /\ Cardinality(Early(r)) \in Nat
      /\ Cardinality(Early(r)) <= Cardinality(r.heap)
  BY <1>2, EarlyFinite
<1>4. top \in Nat
  BY <1>3
<1>5. good(0)
  <2>1. loop[0] = [r |-> r, left |-> n, got |-> {}]
    BY <1>1 DEF Start
  <2>2. Weight(r) + 0 <= top
    BY <1>3 DEF Weight
  <2> HIDE DEF loop, top
  <2>3. /\ loop[0].r = r /\ loop[0].left = n /\ loop[0].got = {}
        /\ loop[0] = [r |-> loop[0].r, left |-> loop[0].left, got |-> loop[0].got]
    BY <2>1
  <2>4. IsFiniteSet(loop[0].got) /\ Cardinality(loop[0].got) + loop[0].left = n
    BY <2>3, FS_EmptySet
  <2>5. LoopInv(loop[0], r.slots, now, n, k)
    BY <2>3, <2>4 DEF LoopInv
  <2>. QED
    BY <2>2, <2>3, <2>5
<1>6. ASSUME NEW i \in Nat, good(i) PROVE good(i + 1)
  <2> DEFINE l == loop[i]
             m == loop[i + 1]
  <2>1. m = Turn(l, now)
    BY <1>1
  <2>2. LoopInv(l, r.slots, now, n, k) /\ (Ended(l, now) \/ Weight(l.r) + i <= top)
    BY <1>6
  <2> HIDE DEF l, m, top
  <2>3. /\ LoopInv(m, r.slots, now, n, k)
        /\ Ended(l, now) => m = l
        /\ ~Ended(l, now) => Weight(m.r) < Weight(l.r)
    BY <2>1, <2>2, LoopStep
  <2>4. Weight(m.r) \in Nat /\ Weight(l.r) \in Nat
    <3>1. IsFiniteSet(m.r.heap) /\ IsFiniteSet(l.r.heap)
      BY <2>2, <2>3 DEF LoopInv, Indexed, IndexedBut
    <3>2. /\ Cardinality(m.r.heap) \in Nat /\ Cardinality(Early(m.r)) \in Nat
          /\ Cardinality(l.r.heap) \in Nat /\ Cardinality(Early(l.r)) \in Nat
      BY <3>1, EarlyFinite
    <3>. QED
      BY <3>2 DEF Weight
  <2>5. Ended(m, now) \/ Weight(m.r) + (i + 1) <= top
    BY <1>4, <2>2, <2>3, <2>4
  <2>. QED
    BY <2>3, <2>5 DEF m
<1> HIDE DEF good, loop, top
<1>7. bad = {}
  <2>1. SUFFICES ASSUME bad # {} PROVE FALSE
    OBVIOUS
  <2>2. PICK i \in bad : \A j \in bad : i <= j
    <3>1. bad \in SUBSET Nat
      OBVIOUS
    <3> HIDE DEF bad
    <3>. QED
      BY <2>1, <3>1, SmallestExists
  <2>3. i \in Nat /\ ~good(i) /\ i # 0
    BY <1>5, <2>2
  <2>4. i - 1 \in Nat /\ ~(i <= i - 1) /\ (i - 1) + 1 = i
    BY <2>3
  <2>5. good(i - 1)
    BY <2>2, <2>4
  <2>. QED
    BY <1>6, <2>3, <2>4, <2>5
<1>8. good(top)
  BY <1>4, <1>7
<1> DEFINE l == loop[top]
<1>9. l = Swept(r, now, n)
  BY DEF Swept, loop, top
<1>10. LoopInv(l, r.slots, now, n, k) /\ (Ended(l, now) \/ Weight(l.r) + top <= top)
  BY <1>8 DEF good
<1> HIDE DEF l
<1>11. ASSUME ~Ended(l, now) PROVE FALSE
  <2>1. IsFiniteSet(l.r.heap)
    BY <1>10 DEF LoopInv, Indexed, IndexedBut
  <2>2. Cardinality(l.r.heap) \in Nat /\ Cardinality(Early(l.r)) \in Nat
    BY <2>1, EarlyFinite
  <2>3. Weight(l.r) <= 0
    BY <1>4, <1>10, <1>11, <2>2 DEF Weight
  <2>4. Cardinality(l.r.heap) = 0
    BY <2>2, <2>3 DEF Weight
  <2>5. l.r.heap = {}
    BY <2>1, <2>4, FS_EmptySet
  <2>. QED
    BY <1>11, <2>5 DEF Ended, FrontDue
<1>. QED
  BY <1>9, <1>10, <1>11

---------------------------------------------------------------------------
(* What the commands do to the index.                                      *)

LEMMA InsertIndexed ==
    ASSUME NEW r, NEW k \in Nat, Indexed(r, k), Bounded(r), NEW s \in Streams,
           s \notin DOMAIN r.slots, NEW slot \in Slot, slot.key = k
    PROVE  /\ Indexed(Insert(r, s, slot), k + 1) /\ Bounded(Insert(r, s, slot))
           /\ Insert(r, s, slot).slots = With(r.slots, s, slot)
<1> DEFINE w == With(r.slots, s, slot)
           at == ExpiryOf(slot)
           new == [at |-> at, s |-> s, key |-> k]
           q == [slots |-> w, heap |-> r.heap, armed |-> r.armed]
           p == [slots |-> w, heap |-> r.heap \cup {new}, armed |-> With(r.armed, k, at)]
           i == Insert(r, s, slot)
<1>1. /\ r \in Registry /\ IsFiniteSet(r.heap)
      /\ r = [slots |-> r.slots, heap |-> r.heap, armed |-> r.armed]
      /\ r.slots \in Maps(Streams, Slot) /\ r.armed \in Maps(0..MaxKeys, Times)
      /\ r.heap \in SUBSET Entry
  BY RegistryType DEF Indexed, IndexedBut
<1>2. /\ DOMAIN w = DOMAIN r.slots \cup {s} /\ w[s] = slot
      /\ \A t \in DOMAIN r.slots : w[t] = r.slots[t]
  BY DEF With
<1>3. w \in Maps(Streams, Slot)
  <2>1. w = [t \in DOMAIN w |-> w[t]]
    BY <1>2 DEF With
  <2>2. DOMAIN r.slots \in SUBSET Streams /\ \A t \in DOMAIN r.slots : r.slots[t] \in Slot
    BY <1>1, RegistryType
  <2> HIDE DEF w
  <2>. QED
    BY <1>2, <2>1, <2>2, MapsType
<1>4. k \notin DOMAIN r.armed /\ \A t \in DOMAIN r.slots : r.slots[t].key # k
  <2>1. \A t \in DOMAIN r.slots : r.slots[t].key < k /\ r.slots[t].key \in 0..MaxKeys
    BY <1>1, RegistryType DEF Indexed, IndexedBut
  <2>2. \A t \in DOMAIN r.slots : r.slots[t].key # k
    BY <2>1
  <2>. QED
    BY <2>2 DEF Indexed, IndexedBut
<1>5. k \in 0..MaxKeys /\ at \in Times \cup {Never}
  BY ExpiryType DEF Slot
<1>6. [r EXCEPT !.slots = w] = q
  <2> HIDE DEF w
  <2>. QED
    BY <1>1
<1>7. i = Arm(q, s)
  BY <1>6 DEF Insert
<1>8. i = IF at = Never THEN q ELSE p
  <2>1. q.slots[s] = slot /\ q.slots = w /\ q.heap = r.heap /\ q.armed = r.armed
    BY <1>2
  <2>2. Arm(q, s) = IF at = Never \/ (k \in DOMAIN q.armed /\ q.armed[k] <= at) THEN q
                    ELSE [slots |-> q.slots, heap |-> q.heap \cup {new},
                          armed |-> With(q.armed, k, at)]
    <3> HIDE DEF q
    <3>. QED
      BY <2>1 DEF Arm
  <2>. QED
    BY <1>4, <1>7, <2>1, <2>2
<1>9. \A t, u \in DOMAIN w : w[t].key = w[u].key => t = u
  BY <1>2, <1>4 DEF Indexed, IndexedBut
<1>10. \A t \in DOMAIN w : w[t].key < k + 1
  <2>1. \A t \in DOMAIN r.slots : r.slots[t].key < k /\ r.slots[t].key \in Nat
    BY <1>1, RegistryType DEF Indexed, IndexedBut
  <2>. QED
    BY <1>2, <2>1
<1>11. ASSUME NEW key \in DOMAIN r.armed
       PROVE  \E t \in DOMAIN w : w[t].key = key /\ ExpiryOf(w[t]) # Never
  BY <1>2 DEF Indexed, IndexedBut
<1> HIDE DEF w, i
<1>12. CASE at = Never
  <2>1. q \in Registry /\ q.slots = w /\ q.heap = r.heap /\ q.armed = r.armed
    BY <1>1, <1>3 DEF Registry
  <2> HIDE DEF q
  <2>2. ASSUME NEW t \in DOMAIN w PROVE Found(q, t)
    <3>1. CASE t = s
      BY <1>2, <1>12, <2>1, <3>1 DEF Found
    <3>2. CASE t # s
      <4>1. t \in DOMAIN r.slots /\ w[t] = r.slots[t]
        BY <1>2, <3>2
      <4>2. Found(r, t)
        BY <4>1 DEF Indexed, IndexedBut
      <4>. QED
        BY <2>1, <4>1, <4>2 DEF Found
    <3>. QED
      BY <3>1, <3>2
  <2>3. Indexed(q, k + 1) /\ Bounded(q)
    BY <1>1, <1>9, <1>10, <1>11, <2>1, <2>2 DEF Indexed, IndexedBut, Bounded
  <2>. QED
    BY <1>8, <1>12, <2>1, <2>3 DEF i, w
<1>13. CASE at # Never
  <2>1. /\ p.slots = w /\ p.heap = r.heap \cup {new} /\ p.armed = With(r.armed, k, at)
        /\ p = [slots |-> p.slots, heap |-> p.heap, armed |-> p.armed]
    OBVIOUS
  <2> HIDE DEF p
  <2>2. /\ DOMAIN p.armed = DOMAIN r.armed \cup {k} /\ p.armed[k] = at
        /\ \A x \in DOMAIN r.armed : p.armed[x] = r.armed[x]
        /\ p.armed = [x \in DOMAIN p.armed |-> p.armed[x]]
    BY <1>4, <2>1 DEF With
  <2>3. p.armed \in Maps(0..MaxKeys, Times)
    <3>1. DOMAIN r.armed \in SUBSET (0..MaxKeys) /\ \A x \in DOMAIN r.armed : r.armed[x] \in Times
      BY <1>1, RegistryType
    <3>2. DOMAIN p.armed \in SUBSET (0..MaxKeys) /\ \A x \in DOMAIN p.armed : p.armed[x] \in Times
      BY <1>5, <1>13, <2>2, <3>1
    <3>. QED
      BY <2>2, <3>2, MapsType
  <2>4. new \in Entry
    BY <1>5, <1>13 DEF Entry
  <2>5. p \in Registry
    BY <1>1, <1>3, <2>1, <2>3, <2>4 DEF Registry
  <2>6. ASSUME NEW t \in DOMAIN w PROVE Found(p, t)
    <3>1. CASE t = s
      <4>1. p.slots[t] = slot /\ p.armed[k] = at /\ k \in DOMAIN p.armed /\ new \in p.heap
        BY <1>2, <2>1, <2>2, <3>1
      <4>2. at <= at
        BY <1>5, <1>13, ExpiryAssumption DEF Times
      <4>. QED
        BY <3>1, <4>1, <4>2 DEF Found
    <3>2. CASE t # s
      <4>1. t \in DOMAIN r.slots /\ w[t] = r.slots[t]
        BY <1>2, <3>2
      <4>2. Found(r, t)
        BY <4>1 DEF Indexed, IndexedBut
      <4>. QED
        BY <2>1, <2>2, <4>1, <4>2 DEF Found
    <3>. QED
      BY <3>1, <3>2
  <2>7. ASSUME NEW key \in DOMAIN p.armed
        PROVE  \E t \in DOMAIN w : w[t].key = key /\ ExpiryOf(w[t]) # Never
    BY <1>2, <1>11, <1>13, <2>2
  <2>8. IsFiniteSet(p.heap) /\ Cardinality(p.heap) <= Cardinality(r.heap) + 1
        /\ Cardinality(r.heap) \in Nat /\ Cardinality(p.heap) \in Nat
    <3> HIDE DEF new
    <3>1. /\ IsFiniteSet(r.heap \cup {new})
          /\ Cardinality(r.heap \cup {new}) =
               IF new \in r.heap THEN Cardinality(r.heap) ELSE Cardinality(r.heap) + 1
      BY <1>1, FS_AddElement
    <3>2. Cardinality(r.heap) \in Nat /\ Cardinality(r.heap \cup {new}) \in Nat
      BY <1>1, <3>1, FS_CardinalityType
    <3>. QED
      BY <2>1, <3>1, <3>2
  <2>9. Cardinality(DOMAIN p.armed) = Cardinality(DOMAIN r.armed) + 1
        /\ Cardinality(DOMAIN r.armed) \in Nat
    <3> DEFINE D == DOMAIN r.armed
    <3>1. IsFiniteSet(D) /\ Cardinality(D) \in Nat /\ k \notin D
      BY <1>1, <1>4, ArmedFinite
    <3> HIDE DEF D
    <3>2. Cardinality(D \cup {k}) = Cardinality(D) + 1
      BY <3>1, FS_AddElement
    <3>. QED
      BY <2>2, <3>1, <3>2 DEF D
  <2>10. Bounded(p)
    BY <2>8, <2>9 DEF Bounded
  <2>11. Indexed(p, k + 1)
    BY <1>9, <1>10, <2>1, <2>5, <2>6, <2>7, <2>8 DEF Indexed, IndexedBut
  <2>. QED
    BY <1>8, <1>13, <2>1, <2>10, <2>11 DEF i, w
<1>. QED
  BY <1>12, <1>13

(* A renewal never moves the expiry earlier. *)
LEMMA RenewedLater ==
    ASSUME NEW slot \in Slot, NEW now \in Times
    PROVE  /\ Renewed(slot, now) \in Slot
           /\ Renewed(slot, now).key = slot.key
           /\ ExpiryOf(Renewed(slot, now)) = Never <=> ExpiryOf(slot) = Never
           /\ ExpiryOf(slot) <= ExpiryOf(Renewed(slot, now))
<1> DEFINE new == Renewed(slot, now)
<1>1. /\ slot = [key |-> slot.key, ttl |-> slot.ttl, fixed |-> slot.fixed, touch |-> slot.touch]
      /\ slot.key \in 0..MaxKeys /\ slot.ttl \in Ttls \cup {Never}
      /\ slot.fixed \in Fixed \cup {Never} /\ slot.touch \in Times
  BY DEF Slot
<1>2. ExpiryOf(slot) \in Int
  <2>1. ExpiryOf(slot) \in Times \cup {Never}
    BY ExpiryType
  <2>. QED
    BY <2>1, ExpiryAssumption DEF Times, Never
<1>3. CASE slot.ttl # Never /\ slot.fixed = Never
  <2> DEFINE later == Max({slot.touch, now})
  <2>1. slot.touch \in Int /\ now \in Int
    BY <1>1 DEF Times
  <2>2. later = IF slot.touch >= now THEN slot.touch ELSE now
    BY <2>1, MinMax
  <2>3. later \in Times /\ slot.touch <= later
    BY <1>1, <2>1, <2>2 DEF Times
  <2>4. new = [slot EXCEPT !.touch = later]
    BY <1>3 DEF Renewed
  <2> HIDE DEF later, new
  <2>5. new = [key |-> slot.key, ttl |-> slot.ttl, fixed |-> slot.fixed, touch |-> later]
    BY <1>1, <2>4
  <2>6. /\ new.key = slot.key /\ new.ttl = slot.ttl /\ new.fixed = slot.fixed
        /\ new.touch = later /\ new \in Slot
    BY <1>1, <2>3, <2>5 DEF Slot
  <2>7. ExpiryOf(new) = IF later + slot.ttl <= MaxTime THEN later + slot.ttl ELSE MaxTime
    BY <1>3, <2>6, ExpiryType
  <2>8. ExpiryOf(slot) = IF slot.touch + slot.ttl <= MaxTime
                         THEN slot.touch + slot.ttl ELSE MaxTime
    BY <1>3, ExpiryType
  <2>9. slot.ttl \in Nat /\ MaxTime \in Nat /\ slot.touch \in Nat /\ later \in Nat
    BY <1>1, <1>3, <2>3, ExpiryAssumption DEF Times
  <2>10. ExpiryOf(slot) <= ExpiryOf(new) /\ ExpiryOf(slot) \in Nat /\ ExpiryOf(new) \in Nat
    BY <2>3, <2>7, <2>8, <2>9
  <2>11. ExpiryOf(slot) # Never /\ ExpiryOf(new) # Never
    BY <2>10 DEF Never
  <2>. QED
    BY <2>6, <2>10, <2>11 DEF new
<1>4. CASE ~(slot.ttl # Never /\ slot.fixed = Never)
  <2>1. new = slot
    BY <1>4 DEF Renewed
  <2>. QED
    BY <1>2, <2>1
<1>. QED
  BY <1>3, <1>4

LEMMA RefreshIndexed ==
    ASSUME NEW r, NEW k, Indexed(r, k), Bounded(r), NEW s \in DOMAIN r.slots,
           NEW now \in Times, NEW q,
           q = [r EXCEPT !.slots = With(@, s, Renewed(r.slots[s], now))]
    PROVE  /\ Indexed(RefreshTtl(q, s), k) /\ Bounded(RefreshTtl(q, s))
           /\ RefreshTtl(q, s).slots = With(r.slots, s, Renewed(r.slots[s], now))
<1> DEFINE slot == Renewed(r.slots[s], now)
           w == With(r.slots, s, slot)
<1>1. /\ r \in Registry /\ IsFiniteSet(r.heap)
      /\ r = [slots |-> r.slots, heap |-> r.heap, armed |-> r.armed]
      /\ r.slots \in Maps(Streams, Slot) /\ r.armed \in Maps(0..MaxKeys, Times)
      /\ r.heap \in SUBSET Entry
      /\ DOMAIN r.slots \in SUBSET Streams /\ \A t \in DOMAIN r.slots : r.slots[t] \in Slot
  BY RegistryType DEF Indexed, IndexedBut
<1>2. /\ slot \in Slot /\ slot.key = r.slots[s].key
      /\ ExpiryOf(slot) = Never <=> ExpiryOf(r.slots[s]) = Never
      /\ ExpiryOf(r.slots[s]) <= ExpiryOf(slot)
  BY <1>1, RenewedLater
<1> HIDE DEF slot
<1>3. /\ DOMAIN w = DOMAIN r.slots /\ w[s] = slot
      /\ \A t \in DOMAIN r.slots : t # s => w[t] = r.slots[t]
      /\ w = [t \in DOMAIN w |-> w[t]]
  BY DEF With
<1>4. q = [slots |-> w, heap |-> r.heap, armed |-> r.armed]
  <2>1. q = [r EXCEPT !.slots = w]
    BY DEF slot
  <2> HIDE DEF w
  <2>. QED
    BY <1>1, <2>1
<1> HIDE DEF w
<1>5. q.slots = w /\ q.heap = r.heap /\ q.armed = r.armed
  BY <1>4
<1>6. w \in Maps(Streams, Slot)
  <2>1. \A t \in DOMAIN w : w[t] \in Slot
    BY <1>1, <1>2, <1>3
  <2>. QED
    BY <1>1, <1>3, <2>1, MapsType
<1>7. q \in Registry
  BY <1>1, <1>4, <1>6 DEF Registry
<1>8. \A t \in DOMAIN w : w[t].key = r.slots[t].key
                          /\ (ExpiryOf(w[t]) = Never <=> ExpiryOf(r.slots[t]) = Never)
  BY <1>2, <1>3
<1>9. \A t \in DOMAIN w : ExpiryOf(r.slots[t]) <= ExpiryOf(w[t]) /\ ExpiryOf(w[t]) \in Int
                          /\ ExpiryOf(r.slots[t]) \in Int
  <2>1. \A x \in Slot : ExpiryOf(x) \in Int
    <3>1. \A x \in Slot : ExpiryOf(x) \in Times \cup {Never}
      BY ExpiryType
    <3>. QED
      BY <3>1, ExpiryAssumption DEF Times, Never
  <2>2. ASSUME NEW t \in DOMAIN w
        PROVE  ExpiryOf(r.slots[t]) <= ExpiryOf(w[t]) /\ ExpiryOf(w[t]) \in Int
               /\ ExpiryOf(r.slots[t]) \in Int
    <3>1. r.slots[t] \in Slot /\ w[t] \in Slot
      BY <1>1, <1>2, <1>3
    <3>2. ExpiryOf(r.slots[t]) \in Int /\ ExpiryOf(w[t]) \in Int
      BY <2>1, <3>1
    <3>. QED
      BY <1>2, <1>3, <3>2
  <2>. QED
    BY <2>2
<1>10. ASSUME NEW t \in DOMAIN w PROVE Found(q, t)
  <2>1. Found(r, t)
    BY <1>3 DEF Indexed, IndexedBut
  <2>2. t \in DOMAIN r.slots
    BY <1>3
  <2>3. ExpiryOf(w[t]) # Never => r.armed[r.slots[t].key] \in Int
    <3>1. \A x \in DOMAIN r.armed : r.armed[x] \in Times
      BY <1>1, RegistryType
    <3>. QED
      BY <1>8, <2>1, <3>1 DEF Found, Times
  <2>4. ExpiryOf(w[t]) # Never => r.armed[r.slots[t].key] <= ExpiryOf(w[t])
    BY <1>8, <1>9, <2>1, <2>3 DEF Found
  <2>. QED
    BY <1>5, <1>8, <2>1, <2>4 DEF Found
<1>11. Indexed(q, k)
  <2>1. \A t, u \in DOMAIN w : w[t].key = w[u].key => t = u
    BY <1>3, <1>8 DEF Indexed, IndexedBut
  <2>2. \A t \in DOMAIN w : w[t].key < k
    BY <1>3, <1>8 DEF Indexed, IndexedBut
  <2>3. \A x \in DOMAIN q.armed :
          \E t \in DOMAIN q.slots : q.slots[t].key = x /\ ExpiryOf(q.slots[t]) # Never
    BY <1>3, <1>5, <1>8 DEF Indexed, IndexedBut
  <2>. QED
    BY <1>1, <1>5, <1>7, <1>10, <2>1, <2>2, <2>3 DEF Indexed, IndexedBut
<1>12. Bounded(q)
  BY <1>5 DEF Bounded
<1>13. Arm(q, s) = q
  <2>1. Found(q, s) /\ q.slots[s] = slot
    BY <1>3, <1>5, <1>10
  <2>2. \/ ExpiryOf(q.slots[s]) = Never
        \/ /\ q.slots[s].key \in DOMAIN q.armed
           /\ q.armed[q.slots[s].key] <= ExpiryOf(q.slots[s])
    BY <2>1 DEF Found
  <2>. QED
    BY <2>2 DEF Arm
<1>14. RefreshTtl(q, s) = q
  <2>1. Rebuild(q) = q
    BY <1>11, <1>12, RebuildIndexed
  <2>. QED
    BY <1>13, <2>1 DEF RefreshTtl
<1>. QED
  BY <1>5, <1>11, <1>12, <1>14 DEF w, slot

Expiring(r) == {s \in DOMAIN r.slots : ExpiryOf(r.slots[s]) # Never}

Anew(r, q) ==
    /\ q = [slots |-> q.slots, heap |-> q.heap, armed |-> q.armed]
    /\ q.slots = r.slots
    /\ q.heap = {[at |-> ExpiryOf(r.slots[s]), s |-> s, key |-> r.slots[s].key] :
                    s \in Expiring(r)}
    /\ q.armed = [x \in DOMAIN q.armed |-> q.armed[x]]
    /\ DOMAIN q.armed = {r.slots[s].key : s \in Expiring(r)}
    /\ \A s \in Expiring(r) : q.armed[r.slots[s].key] = ExpiryOf(r.slots[s])

LEMMA RestoreIndexed ==
    ASSUME NEW r, NEW k, Indexed(r, k), NEW q, Anew(r, q)
    PROVE  Indexed(q, k) /\ Bounded(q)
<1> DEFINE live == Expiring(r)
<1>1. /\ r \in Registry /\ r.slots \in Maps(Streams, Slot)
      /\ DOMAIN r.slots \in SUBSET Streams
      /\ \A s \in DOMAIN r.slots : r.slots[s] \in Slot /\ r.slots[s].key \in 0..MaxKeys
           /\ ExpiryOf(r.slots[s]) \in Times \cup {Never}
      /\ \A s, t \in DOMAIN r.slots : r.slots[s].key = r.slots[t].key => s = t
  BY RegistryType DEF Indexed, IndexedBut
<1>2. /\ q.slots = r.slots
      /\ q.heap = {[at |-> ExpiryOf(r.slots[s]), s |-> s, key |-> r.slots[s].key] : s \in live}
      /\ DOMAIN q.armed = {r.slots[s].key : s \in live}
      /\ q = [slots |-> q.slots, heap |-> q.heap, armed |-> q.armed]
      /\ q.armed = [x \in DOMAIN q.armed |-> q.armed[x]]
  BY DEF Anew
<1>3. ASSUME NEW s \in live
      PROVE  /\ r.slots[s].key \in DOMAIN q.armed
             /\ q.armed[r.slots[s].key] = ExpiryOf(r.slots[s])
             /\ ExpiryOf(r.slots[s]) \in Times
             /\ s \in DOMAIN r.slots
  <2>1. s \in DOMAIN r.slots /\ ExpiryOf(r.slots[s]) # Never
    BY DEF Expiring
  <2>. QED
    BY <1>1, <1>2, <2>1 DEF Anew
<1>l. ASSUME NEW s \in DOMAIN r.slots, s \notin live PROVE ExpiryOf(r.slots[s]) = Never
  BY <1>l DEF Expiring
<1> HIDE DEF live
<1>4. q \in Registry
  <2>1. \A x \in DOMAIN q.armed : x \in 0..MaxKeys /\ q.armed[x] \in Times
    BY <1>1, <1>2, <1>3
  <2>2. q.armed \in Maps(0..MaxKeys, Times)
    BY <1>2, <2>1, MapsType
  <2>3. q.heap \in SUBSET Entry
    BY <1>1, <1>2, <1>3 DEF Entry
  <2>. QED
    BY <1>1, <1>2, <2>2, <2>3 DEF Registry
<1>5. ArmedEntries(q) = q.heap
  <2>1. ASSUME NEW s \in DOMAIN r.slots
        PROVE  r.slots[s].key \in DOMAIN q.armed <=> s \in live
    BY <1>1, <1>2, <1>3
  <2>2. {t \in DOMAIN q.slots : q.slots[t].key \in DOMAIN q.armed} = live
    BY <1>2, <1>3, <2>1
  <2>3. ArmedEntries(q) =
          {[at |-> q.armed[q.slots[s].key], s |-> s, key |-> q.slots[s].key] : s \in live}
    BY <2>2 DEF ArmedEntries
  <2>4. ASSUME NEW s \in live
        PROVE  [at |-> q.armed[q.slots[s].key], s |-> s, key |-> q.slots[s].key]
                 = [at |-> ExpiryOf(r.slots[s]), s |-> s, key |-> r.slots[s].key]
    <3>1. q.armed[q.slots[s].key] = ExpiryOf(r.slots[s]) /\ q.slots[s].key = r.slots[s].key
      BY <1>2, <1>3, Zenon
    <3>. QED
      BY <3>1, Zenon
  <2> DEFINE E(s) == [at |-> q.armed[q.slots[s].key], s |-> s, key |-> q.slots[s].key]
             F(s) == [at |-> ExpiryOf(r.slots[s]), s |-> s, key |-> r.slots[s].key]
  <2>5. ArmedEntries(q) = {E(s) : s \in live} /\ q.heap = {F(s) : s \in live}
    BY <1>2, <2>3, Zenon
  <2>6. \A s \in live : E(s) = F(s)
    BY <2>4, Zenon
  <2> HIDE DEF E, F
  <2>. QED
    BY <2>5, <2>6
<1>6. IsFiniteSet(q.heap) /\ Cardinality(q.heap) <= Cardinality(DOMAIN q.armed)
  <2>1. \A s, t \in DOMAIN q.slots : q.slots[s].key = q.slots[t].key => s = t
    BY <1>1, <1>2
  <2>2. /\ IsFiniteSet(ArmedEntries(q))
        /\ Cardinality(ArmedEntries(q)) <= Cardinality(DOMAIN q.armed)
    BY <1>4, <2>1, ArmedEntriesFew
  <2>. QED
    BY <1>5, <2>2
<1>7. Bounded(q)
  <2>1. Cardinality(q.heap) \in Nat /\ Cardinality(DOMAIN q.armed) \in Nat
    BY <1>4, <1>6, ArmedFinite, FS_CardinalityType
  <2>. QED
    BY <1>6, <2>1 DEF Bounded
<1>8. ASSUME NEW s \in DOMAIN q.slots PROVE Found(q, s)
  <2>1. CASE s \in live
    <3> DEFINE a == q.armed[q.slots[s].key]
    <3>1. /\ a = ExpiryOf(q.slots[s]) /\ ExpiryOf(q.slots[s]) \in Times
          /\ q.slots[s].key \in DOMAIN q.armed
      BY <1>2, <1>3, <2>1, Zenon
    <3>2. [at |-> ExpiryOf(r.slots[s]), s |-> s, key |-> r.slots[s].key] \in q.heap
      BY <1>2, <2>1, Zenon
    <3>3. [at |-> a, s |-> s, key |-> q.slots[s].key] \in q.heap
      BY <1>2, <3>1, <3>2, Zenon
    <3>4. a <= ExpiryOf(q.slots[s])
      <4> HIDE DEF a
      <4>. QED
        BY <3>1, ExpiryAssumption DEF Times
    <3>. QED
      BY <3>1, <3>3, <3>4, Zenon DEF Found
  <2>2. CASE s \notin live
    BY <1>2, <1>l, <2>2 DEF Found
  <2>. QED
    BY <2>1, <2>2
<1>9. \A s \in DOMAIN q.slots : q.slots[s].key < k
  BY <1>2 DEF Indexed, IndexedBut
<1>10. \A x \in DOMAIN q.armed :
         \E s \in DOMAIN q.slots : q.slots[s].key = x /\ ExpiryOf(q.slots[s]) # Never
  BY <1>2 DEF live, Expiring
<1>. QED
  BY <1>1, <1>2, <1>4, <1>6, <1>7, <1>8, <1>9, <1>10 DEF Indexed, IndexedBut

---------------------------------------------------------------------------
(* The inductive invariant, and what a step does to the streams.           *)

IInv == TypeOK /\ Indexed(reg, keys) /\ Bounded(reg)

Puts == \E s \in Streams, slot \in Slot : slots' = With(slots, s, slot) /\ removed' = {}
Drops == \E s \in DOMAIN slots : slots' = Without(slots, s) /\ removed' = {}
Keeps == slots' = slots /\ removed' = {}
Sweeps ==
    \E now \in Times : \E l :
      /\ LoopInv(l, slots, now, Limit, keys) /\ Ended(l, now)
      /\ slots' = l.r.slots /\ removed' = l.got

LEMMA BecomeReg ==
    ASSUME NEW r \in Registry, Become(r)
    PROVE  reg' = r
<1>1. r = [slots |-> r.slots, heap |-> r.heap, armed |-> r.armed]
  BY RegistryType
<1>. QED
  BY <1>1 DEF Become, reg

LEMMA IndexedRegistry ==
    ASSUME NEW r, NEW k, NEW X, IndexedBut(r, k, X)
    PROVE  r \in Registry
BY DEF IndexedBut

LEMMA RegFields == reg.slots = slots /\ reg.heap = heap /\ reg.armed = armed
BY DEF reg

LEMMA CreateStep ==
    ASSUME IInv, NEW n \in Nodes, NEW s \in Streams, NEW ttl \in Ttls \cup {Never},
           NEW fixed \in Fixed \cup {Never}, CreateStream(n, s, ttl, fixed)
    PROVE  IInv' /\ Puts
<1> DEFINE r == IF Live(s) THEN RemoveSlot(reg, s) ELSE reg
           slot == [key |-> keys, ttl |-> ttl, fixed |-> fixed, touch |-> clock[n]]
           i == Insert(r, s, slot)
<1>1. /\ keys < MaxKeys /\ keys' = keys + 1 /\ Become(i) /\ removed' = {}
      /\ clock' = clock /\ pass' = pass
  BY DEF CreateStream, Command
<1>2. keys \in Nat /\ keys \in 0..MaxKeys /\ keys' \in 0..MaxKeys
  BY <1>1, ExpiryAssumption DEF IInv, TypeOK
<1>3. slot \in Slot /\ slot.key = keys
  BY <1>2 DEF IInv, TypeOK, Slot
<1>4. /\ Indexed(r, keys) /\ Bounded(r) /\ s \notin DOMAIN r.slots
      /\ r.slots = IF Live(s) THEN Without(slots, s) ELSE slots
  <2>1. CASE Live(s)
    <3>1. s \in DOMAIN reg.slots /\ IndexedBut(reg, keys, {s})
      BY <2>1, RegFields DEF Live, IInv, Indexed, IndexedBut
    <3>2. /\ Indexed(RemoveSlot(reg, s), keys) /\ Bounded(RemoveSlot(reg, s))
          /\ RemoveSlot(reg, s).slots = Without(reg.slots, s)
      BY <3>1, RemoveIndexed
    <3>3. s \notin DOMAIN Without(reg.slots, s)
      BY DEF Without, Restrict
    <3>4. r = RemoveSlot(reg, s)
      BY <2>1
    <3> HIDE DEF r
    <3>. QED
      BY <2>1, <3>2, <3>3, <3>4, RegFields
  <2>2. CASE ~Live(s)
    <3>1. r = reg
      BY <2>2
    <3> HIDE DEF r
    <3>. QED
      BY <2>2, <3>1, RegFields DEF Live, IInv
  <2>. QED
    BY <2>1, <2>2
<1> HIDE DEF r, slot
<1>5. Indexed(i, keys + 1) /\ Bounded(i) /\ i.slots = With(r.slots, s, slot)
  BY <1>2, <1>3, <1>4, InsertIndexed
<1> HIDE DEF i
<1>6. reg' = i
  BY <1>1, <1>5, BecomeReg, IndexedRegistry DEF Indexed
<1>7. IInv'
  <2>1. reg' \in Registry
    BY <1>5, <1>6, IndexedRegistry DEF Indexed
  <2>2. TypeOK'
    BY <1>1, <1>2, <2>1 DEF IInv, TypeOK
  <2>. QED
    BY <1>1, <1>5, <1>6, <2>2 DEF IInv
<1>8. slots' = With(slots, s, slot)
  <2>1. slots' = With(r.slots, s, slot)
    BY <1>1, <1>5 DEF Become
  <2>2. CASE Live(s)
    BY <1>4, <2>1, <2>2 DEF With, Without, Restrict, Live
  <2>3. CASE ~Live(s)
    BY <1>4, <2>1, <2>3
  <2>. QED
    BY <2>2, <2>3
<1>. QED
  BY <1>1, <1>3, <1>7, <1>8 DEF Puts

LEMMA RemoveStep ==
    ASSUME IInv, NEW s \in DOMAIN slots, Become(RemoveSlot(reg, s)), Command, keys' = keys
    PROVE  IInv' /\ Drops
<1> DEFINE q == RemoveSlot(reg, s)
<1>1. s \in DOMAIN reg.slots /\ IndexedBut(reg, keys, {s})
  BY RegFields DEF IInv, Indexed, IndexedBut
<1>2. Indexed(q, keys) /\ Bounded(q) /\ q.slots = Without(reg.slots, s)
  BY <1>1, RemoveIndexed
<1>3. Become(q)
  OBVIOUS
<1> HIDE DEF q
<1>4. q \in Registry
  BY <1>2, IndexedRegistry DEF Indexed
<1>5. reg' = q
  BY <1>3, <1>4, BecomeReg
<1>6. TypeOK'
  BY <1>4, <1>5 DEF IInv, TypeOK, Command
<1>7. IInv'
  BY <1>2, <1>5, <1>6 DEF IInv
<1>8. slots' = Without(slots, s)
  BY <1>2, <1>3, RegFields DEF Become
<1>. QED
  BY <1>7, <1>8 DEF Drops, Command

LEMMA TouchStep ==
    ASSUME IInv, NEW n \in Nodes, NEW s \in Streams, Touch(n, s)
    PROVE  IInv' /\ (Drops \/ Puts)
<1>1. s \in DOMAIN slots /\ Command /\ keys' = keys
  BY DEF Touch, Live
<1>2. CASE IsExpired(slots[s], clock[n])
  BY <1>1, <1>2, RemoveStep DEF Touch
<1>3. CASE ~IsExpired(slots[s], clock[n])
  <2> DEFINE q == [reg EXCEPT !.slots = With(@, s, Renewed(slots[s], clock[n]))]
             i == RefreshTtl(q, s)
  <2>1. Become(i)
    BY <1>3 DEF Touch
  <2>2. clock[n] \in Times /\ Indexed(reg, keys) /\ Bounded(reg) /\ s \in DOMAIN reg.slots
    BY <1>1, RegFields DEF IInv, TypeOK
  <2>3. q = [reg EXCEPT !.slots = With(@, s, Renewed(reg.slots[s], clock[n]))]
    BY RegFields
  <2> HIDE DEF q
  <2>4. /\ Indexed(i, keys) /\ Bounded(i)
        /\ i.slots = With(reg.slots, s, Renewed(reg.slots[s], clock[n]))
    BY <2>2, <2>3, RefreshIndexed
  <2> HIDE DEF i
  <2>5. i \in Registry
    BY <2>4, IndexedRegistry DEF Indexed
  <2>6. reg' = i
    BY <2>1, <2>5, BecomeReg
  <2>7. TypeOK'
    BY <1>1, <2>5, <2>6 DEF IInv, TypeOK, Command
  <2>8. IInv'
    BY <1>1, <2>4, <2>6, <2>7 DEF IInv
  <2>9. slots' = With(slots, s, Renewed(slots[s], clock[n]))
    BY <2>1, <2>4, RegFields DEF Become
  <2>10. Renewed(slots[s], clock[n]) \in Slot
    <3>1. reg \in Registry
      BY DEF IInv, TypeOK
    <3>2. slots[s] \in Slot
      BY <1>1, <3>1, RegFields, RegistryType
    <3>. QED
      BY <2>2, <3>2, RenewedLater
  <2>. QED
    BY <1>1, <2>8, <2>9, <2>10 DEF Puts, Command
<1>. QED
  BY <1>2, <1>3

LEMMA SweepStep ==
    ASSUME IInv, ApplySweep
    PROVE  IInv' /\ Sweeps /\ removed' \in SUBSET DOMAIN slots
           /\ \A s \in removed' : IsExpired(slots[s], pass.now)
<1> DEFINE l == Swept(reg, pass.now, Limit)
<1>1. /\ Become(l.r) /\ removed' = l.got /\ keys' = keys /\ clock' = clock /\ Committed
  BY DEF ApplySweep
<1>2. pass.now \in Times /\ pass.now \in Int /\ Limit \in Nat
  BY ExpiryAssumption DEF IInv, TypeOK, Times
<1>3. LoopInv(l, slots, pass.now, Limit, keys) /\ Ended(l, pass.now)
  BY <1>2, RegFields, SweptOutcome DEF IInv
<1> HIDE DEF l
<1>4. Indexed(l.r, keys) /\ Bounded(l.r) /\ l.got \in SUBSET DOMAIN slots
      /\ \A s \in l.got : IsExpired(slots[s], pass.now)
  BY <1>3 DEF LoopInv
<1>5. l.r \in Registry
  BY <1>4, IndexedRegistry DEF Indexed
<1>6. reg' = l.r
  BY <1>1, <1>5, BecomeReg
<1>7. pass' \in [on : BOOLEAN, now : Times, entries : Nat, proposed : BOOLEAN]
  <2>1. pass' = [on |-> pass.on, now |-> pass.now, entries |-> pass.entries + 1, proposed |-> FALSE]
    BY <1>1 DEF Committed
  <2>2. pass.on \in BOOLEAN /\ pass.entries \in Nat
    BY DEF IInv, TypeOK
  <2>3. pass.entries + 1 \in Nat
    BY <2>2
  <2>. QED
    BY <1>2, <2>1, <2>2, <2>3, Zenon
<1>8. l.got \in SUBSET Streams
  BY <1>4, RegFields, RegistryType DEF IInv, TypeOK
<1>9. TypeOK'
  BY <1>1, <1>5, <1>6, <1>7, <1>8 DEF IInv, TypeOK
<1>10. IInv'
  BY <1>1, <1>4, <1>6, <1>9 DEF IInv
<1>11. Sweeps
  BY <1>1, <1>2, <1>3 DEF Sweeps, Become
<1>. QED
  BY <1>1, <1>4, <1>10, <1>11

LEMMA RestoreStep ==
    ASSUME IInv, Restore
    PROVE  IInv' /\ Keeps
<1>1. /\ slots' = slots /\ keys' = keys /\ clock' = clock /\ pass' = pass /\ removed' = {}
  BY DEF Restore
<1> DEFINE live == {s \in DOMAIN slots : ExpiryOf(slots[s]) # Never}
<1>2. live = Expiring(reg)
  BY RegFields DEF Expiring
<1>3. /\ heap' = {[at |-> ExpiryOf(slots[s]), s |-> s, key |-> slots[s].key] : s \in live}
      /\ armed' = [x \in {slots[s].key : s \in live} |->
                     ExpiryOf(slots[CHOOSE s \in live : slots[s].key = x])]
  BY DEF Restore
<1>4. \A s, t \in live : slots[s].key = slots[t].key => s = t
  BY RegFields DEF IInv, Indexed, IndexedBut
<1> HIDE DEF live
<1>5. ASSUME NEW s \in live PROVE armed'[slots[s].key] = ExpiryOf(slots[s])
  <2> DEFINE c == CHOOSE t \in live : slots[t].key = slots[s].key
  <2>1. c \in live /\ slots[c].key = slots[s].key
    OBVIOUS
  <2>2. c = s
    BY <1>4, <2>1
  <2>3. armed'[slots[s].key] = ExpiryOf(slots[c])
    BY <1>3
  <2>. QED
    BY <2>2, <2>3
<1>6. Anew(reg, reg')
  <2>1. reg'.slots = slots /\ reg'.heap = heap' /\ reg'.armed = armed'
        /\ reg' = [slots |-> reg'.slots, heap |-> reg'.heap, armed |-> reg'.armed]
    BY <1>1 DEF reg
  <2>2. armed' = [x \in DOMAIN armed' |-> armed'[x]] /\ DOMAIN armed' = {slots[s].key : s \in live}
    BY <1>3
  <2>3. reg.slots = slots
    BY RegFields
  <2>. QED
    BY <1>2, <1>3, <1>5, <2>1, <2>2, <2>3 DEF Anew
<1>7. Indexed(reg', keys') /\ Bounded(reg')
  BY <1>1, <1>6, RestoreIndexed DEF IInv
<1>8. reg' \in Registry
  BY <1>7, IndexedRegistry DEF Indexed
<1>9. TypeOK'
  BY <1>1, <1>8 DEF IInv, TypeOK
<1>. QED
  BY <1>1, <1>7, <1>9 DEF IInv, Keeps

LEMMA SweepNowType ==
    ASSUME NEW t \in Times
    PROVE  /\ SweepNow(t) \in Times
           /\ SweepNow(t) = IF t <= Grace THEN 0 ELSE t - Grace
<1>1. t \in Nat /\ Grace \in Nat /\ MaxTime \in Nat /\ t - Grace \in Int
  BY ExpiryAssumption DEF Times
<1>2. SweepNow(t) = IF 0 >= t - Grace THEN 0 ELSE t - Grace
  <2> DEFINE d == t - Grace
  <2>1. d \in Int /\ SweepNow(t) = Max({0, d})
    BY <1>1 DEF SweepNow
  <2>2. Max({0, d}) = IF 0 >= d THEN 0 ELSE d
    <3> HIDE DEF d
    <3>. QED
      BY <2>1, MinMax
  <2>. QED
    BY <2>1, <2>2
<1>. QED
  BY <1>1, <1>2 DEF Times

LEMMA PlaceStep ==
    ASSUME IInv, SamePlace,
           pass' \in [on : BOOLEAN, now : Times, entries : Nat, proposed : BOOLEAN]
    PROVE  IInv' /\ Keeps
<1>1. reg' = reg /\ keys' = keys /\ clock' = clock /\ removed' = {} /\ slots' = slots
  BY DEF SamePlace, reg
<1>2. TypeOK'
  BY <1>1 DEF IInv, TypeOK
<1>. QED
  BY <1>1, <1>2 DEF IInv, Keeps

Step == Puts \/ Drops \/ Keeps \/ Sweeps

LEMMA NextStep ==
    ASSUME IInv, Next
    PROVE  IInv' /\ Step
<1> DEFINE Pass == [on : BOOLEAN, now : Times, entries : Nat, proposed : BOOLEAN]
<1>1. ASSUME NEW n \in Nodes, NEW s \in Streams,
             \/ CreateStream(n, s, Never, Never)
             \/ \E t \in Ttls : CreateStream(n, s, t, Never)
             \/ \E t \in Fixed : CreateStream(n, s, Never, t)
      PROVE  IInv' /\ Step
  BY <1>1, CreateStep DEF Step
<1>2. ASSUME NEW n \in Nodes, NEW s \in Streams, Touch(n, s) PROVE IInv' /\ Step
  BY <1>2, TouchStep DEF Step
<1>3. ASSUME NEW s \in Streams, DeleteStream(s) PROVE IInv' /\ Step
  BY <1>3, RemoveStep DEF Step, DeleteStream, Live
<1>4. ASSUME NEW n \in Nodes, BeginPass(n) PROVE IInv' /\ Step
  <2>1. SweepNow(clock[n]) \in Times
    BY SweepNowType DEF IInv, TypeOK
  <2>2. pass' = [on |-> TRUE, now |-> SweepNow(clock[n]), entries |-> 0, proposed |-> FALSE]
        /\ SamePlace
    BY <1>4 DEF BeginPass
  <2>3. pass' \in Pass
    BY <2>1, <2>2
  <2>. QED
    BY <2>2, <2>3, PlaceStep DEF Step
<1>5. ASSUME NEW n \in Nodes, Tick(n) PROVE IInv' /\ Step
  <2>1. /\ reg' = reg /\ keys' = keys /\ pass' = pass /\ removed' = {} /\ slots' = slots
        /\ clock[n] < MaxTime /\ clock' = [clock EXCEPT ![n] = @ + 1]
    BY <1>5 DEF Tick, reg
  <2>2. clock \in [Nodes -> Times]
    BY DEF IInv, TypeOK
  <2>3. clock' \in [Nodes -> Times]
    BY <2>1, <2>2, ExpiryAssumption DEF Times
  <2>4. TypeOK'
    BY <2>1, <2>3 DEF IInv, TypeOK
  <2>. QED
    BY <2>1, <2>4 DEF IInv, Keeps, Step
<1>6. CASE ProposeSweep
  <2>1. pass' = [pass EXCEPT !.proposed = TRUE] /\ SamePlace
    BY <1>6 DEF ProposeSweep
  <2>2. pass \in Pass
    BY DEF IInv, TypeOK
  <2>3. pass' \in Pass
    BY <2>1, <2>2
  <2>. QED
    BY <2>1, <2>3, PlaceStep DEF Step
<1>7. CASE ApplySweep
  BY <1>7, SweepStep DEF Step
<1>8. CASE EndPass \/ FailPass
  <2>1. pass' \in {NoPass, [pass EXCEPT !.on = FALSE]} /\ SamePlace
    BY <1>8 DEF EndPass, FailPass
  <2>2. 0 \in Times /\ pass \in Pass
    BY ExpiryAssumption DEF Times, IInv, TypeOK
  <2>3. NoPass \in Pass
    BY <2>2 DEF NoPass
  <2>4. [pass EXCEPT !.on = FALSE] \in Pass
    BY <2>2
  <2>5. pass' \in Pass
    BY <2>1, <2>3, <2>4
  <2>. QED
    BY <2>1, <2>5, PlaceStep DEF Step
<1>9. CASE Restore
  BY <1>9, RestoreStep DEF Step
<1>. QED
  BY <1>1, <1>2, <1>3, <1>4, <1>5, <1>6, <1>7, <1>8, <1>9 DEF Next

LEMMA InitIInv ==
    ASSUME Init
    PROVE  IInv
<1>1. /\ slots = NoMap /\ heap = {} /\ armed = NoMap /\ keys = 0
      /\ clock = [n \in Nodes |-> 0] /\ pass = NoPass /\ removed = {}
  BY DEF Init
<1>2. 0 \in Times /\ 0 \in 0..MaxKeys
  BY ExpiryAssumption DEF Times
<1>3. /\ slots \in Maps(Streams, Slot) /\ armed \in Maps(0..MaxKeys, Times)
      /\ DOMAIN slots = {} /\ DOMAIN armed = {}
  BY <1>1, NoMapType
<1>4. reg \in Registry
  BY <1>1, <1>3 DEF reg, Registry
<1>5. TypeOK
  BY <1>1, <1>2, <1>4 DEF TypeOK, NoPass
<1>6. IsFiniteSet(reg.heap)
  BY <1>1, RegFields, FS_EmptySet
<1>7. Indexed(reg, keys)
  <2>1. DOMAIN reg.slots = {} /\ DOMAIN reg.armed = {}
    BY <1>3, RegFields
  <2>. QED
    BY <1>4, <1>6, <2>1 DEF Indexed, IndexedBut
<1>8. Bounded(reg)
  <2>1. Cardinality(reg.heap) = 0
    BY <1>1, RegFields, FS_EmptySet
  <2>2. Cardinality(DOMAIN reg.armed) = 0
    BY <1>3, RegFields, FS_EmptySet
  <2>. QED
    BY <2>1, <2>2 DEF Bounded
<1>. QED
  BY <1>5, <1>7, <1>8 DEF IInv

LEMMA StutterIInv ==
    ASSUME IInv, UNCHANGED vars
    PROVE  IInv'
<1>1. reg' = reg /\ keys' = keys /\ clock' = clock /\ pass' = pass /\ removed' = removed
  BY DEF vars, reg
<1>2. TypeOK'
  BY <1>1 DEF IInv, TypeOK
<1>. QED
  BY <1>1, <1>2 DEF IInv

(* Every stream that has an expiry is armed at or before it, nothing else  *)
(* is armed, each key names one slot, and the heap holds at most two       *)
(* entries per armed stream.                                               *)
THEOREM IndexInvariant == Spec => []IInv
<1>1. Init => IInv
  BY InitIInv
<1>2. IInv /\ [Next]_vars => IInv'
  BY NextStep, StutterIInv
<1>. QED
  BY <1>1, <1>2, PTL DEF Spec

(* Every variable of the index and of the pass keeps its type. *)
THEOREM IndexTyped == Spec => []TypeOK
<1>1. IInv => TypeOK
  BY DEF IInv
<1>. QED
  BY <1>1, IndexInvariant, PTL

(* ttl_front_due hides no due stream: when the heap's front is not due, no *)
(* live stream has expired.                                                *)
THEOREM FrontExactAlways == Spec => []FrontExact
<1>1. ASSUME IInv PROVE FrontExact
  <2> SUFFICES ASSUME NEW now \in Times, ~FrontDue(heap, now), NEW s \in DOMAIN slots,
                      IsExpired(slots[s], now)
               PROVE  FALSE
    BY DEF FrontExact
  <2>1. reg \in Registry /\ heap \in SUBSET Entry /\ s \in DOMAIN reg.slots
    BY <1>1, RegFields, RegistryType DEF IInv, TypeOK
  <2>2. ExpiryOf(slots[s]) # Never /\ now >= ExpiryOf(slots[s])
    BY DEF IsExpired
  <2>3. Found(reg, s)
    BY <1>1, <2>1 DEF IInv, Indexed, IndexedBut
  <2> DEFINE f == [at |-> armed[slots[s].key], s |-> s, key |-> slots[s].key]
             e == Front(heap)
  <2>4. f \in heap /\ f.at <= ExpiryOf(slots[s])
    BY <2>2, <2>3, RegFields DEF Found
  <2>5. heap # {} /\ e \in heap /\ (f = e \/ Sooner(e, f))
    BY <2>1, <2>4, FrontFirst
  <2>6. e.at \in Nat /\ f.at \in Nat /\ now \in Nat /\ ExpiryOf(slots[s]) \in Nat
    <3>1. ExpiryOf(slots[s]) \in Times
      BY <2>1, <2>2, RegFields, RegistryType
    <3>2. e \in Entry /\ f \in Entry
      BY <2>1, <2>4, <2>5
    <3>. QED
      BY <3>1, <3>2, EntryType, ExpiryAssumption DEF Times
  <2> HIDE DEF e, f
  <2>7. e.at <= f.at
    BY <2>5, <2>6 DEF Sooner
  <2>8. e.at <= now
    BY <2>2, <2>4, <2>6, <2>7
  <2>. QED
    BY <2>5, <2>8 DEF FrontDue, e
<1>. QED
  BY <1>1, IndexInvariant, PTL

(* rebuild_ttl_if_bloated bounds the heap by twice the expiring streams.   *)
THEOREM HeapBoundedAlways == Spec => []HeapBounded
<1>1. ASSUME IInv PROVE HeapBounded
  <2> DEFINE live == {s \in DOMAIN slots : ExpiryOf(slots[s]) # Never}
             D == DOMAIN armed
             key == [s \in live |-> slots[s].key]
  <2>1. reg \in Registry /\ DOMAIN slots \in SUBSET Streams
    BY <1>1, RegFields, RegistryType DEF IInv, TypeOK
  <2>2. IsFiniteSet(live)
    BY <2>1, ExpiryAssumption, FS_Subset
  <2>3. \A s \in live : slots[s].key \in D
    BY <1>1, RegFields DEF IInv, Indexed, IndexedBut, Found
  <2>4. \A k \in D : \E s \in live : slots[s].key = k
    BY <1>1, RegFields DEF IInv, Indexed, IndexedBut
  <2>5. Cardinality(heap) <= 2 * Cardinality(D) /\ Cardinality(heap) \in Nat
    BY <1>1, RegFields, FS_CardinalityType DEF IInv, Indexed, IndexedBut, Bounded
  <2>6. HeapBounded <=> Cardinality(heap) <= 2 * Cardinality(live)
    BY DEF HeapBounded
  <2> HIDE DEF live, D
  <2>7. key \in Surjection(live, D)
    BY <2>3, <2>4 DEF Surjection
  <2>8. Cardinality(D) <= Cardinality(live) /\ IsFiniteSet(D)
    <3> HIDE DEF key
    <3>. QED
      BY <2>2, <2>7, FS_Surjection
  <2>9. Cardinality(D) \in Nat /\ Cardinality(live) \in Nat
    BY <2>2, <2>8, FS_CardinalityType
  <2>. QED
    BY <2>5, <2>6, <2>8, <2>9
<1>. QED
  BY <1>1, IndexInvariant, PTL

---------------------------------------------------------------------------
(* What the sweep removes is expired for every node.                       *)

ClockInv ==
    /\ \A m, n \in Nodes : clock[m] - clock[n] <= Skew
    /\ \A n \in Nodes : pass.now <= clock[n]

LEMMA ClockStep ==
    ASSUME Skew <= Grace, IInv, ClockInv, [Next]_vars
    PROVE  ClockInv'
<1>1. /\ Skew \in Nat /\ Grace \in Nat /\ pass.now \in Nat
      /\ \A n \in Nodes : clock[n] \in Nat /\ clock[n] \in Times
  BY ExpiryAssumption DEF IInv, TypeOK, Times
<1>2. CASE clock' = clock /\ (pass'.now = pass.now \/ pass'.now = 0)
  BY <1>1, <1>2 DEF ClockInv
<1>3. ASSUME NEW k \in Nodes, BeginPass(k) PROVE ClockInv'
  <2>1. clock' = clock /\ pass'.now = SweepNow(clock[k])
    BY <1>3 DEF BeginPass, SamePlace
  <2>2. SweepNow(clock[k]) = IF clock[k] <= Grace THEN 0 ELSE clock[k] - Grace
    BY <1>1, SweepNowType
  <2>3. ASSUME NEW n \in Nodes PROVE pass'.now <= clock[n]
    <3>1. clock[k] - clock[n] <= Skew /\ clock[n] \in Nat /\ clock[k] \in Nat
      BY <1>1 DEF ClockInv
    <3>. QED
      BY <1>1, <2>1, <2>2, <3>1
  <2>. QED
    BY <2>1, <2>3 DEF ClockInv
<1>4. ASSUME NEW k \in Nodes, Tick(k) PROVE ClockInv'
  <2>1. /\ clock' = [clock EXCEPT ![k] = @ + 1] /\ pass' = pass
        /\ \A m \in Nodes : clock[k] + 1 - clock[m] <= Skew
    BY <1>4 DEF Tick
  <2>2. clock \in [Nodes -> Times]
    BY DEF IInv, TypeOK
  <2>3. clock'[k] = clock[k] + 1 /\ \A m \in Nodes : m # k => clock'[m] = clock[m]
    BY <2>1, <2>2
  <2>4. ASSUME NEW m \in Nodes, NEW n \in Nodes PROVE clock'[m] - clock'[n] <= Skew
    <3>1. /\ clock[m] - clock[n] <= Skew /\ clock[m] \in Nat /\ clock[n] \in Nat
          /\ clock[k] + 1 - clock[n] <= Skew /\ clock[k] \in Nat
      BY <1>1, <2>1 DEF ClockInv
    <3>. QED
      BY <1>1, <2>3, <3>1
  <2>5. ASSUME NEW n \in Nodes PROVE pass.now <= clock'[n]
    BY <1>1, <2>3 DEF ClockInv
  <2>. QED
    BY <2>1, <2>4, <2>5 DEF ClockInv
<1>5. CASE UNCHANGED vars
  BY <1>2, <1>5 DEF vars
<1>6. ASSUME Command PROVE ClockInv'
  BY <1>2, <1>6 DEF Command
<1>7. ASSUME ProposeSweep \/ ApplySweep \/ EndPass \/ FailPass \/ Restore PROVE ClockInv'
  <2>1. clock' = clock
    BY <1>7 DEF ProposeSweep, ApplySweep, EndPass, FailPass, Restore, SamePlace
  <2>2. pass'.now = pass.now \/ pass'.now = 0
    <3>1. CASE ProposeSweep
      <4>1. pass \in [on : BOOLEAN, now : Times, entries : Nat, proposed : BOOLEAN]
        BY DEF IInv, TypeOK
      <4>2. pass' = [pass EXCEPT !.proposed = TRUE]
        BY <3>1 DEF ProposeSweep
      <4>. QED
        BY <4>1, <4>2
    <3>2. CASE ApplySweep
      BY <3>2 DEF ApplySweep, Committed
    <3>3. CASE EndPass \/ FailPass
      <4>1. pass \in [on : BOOLEAN, now : Times, entries : Nat, proposed : BOOLEAN]
        BY DEF IInv, TypeOK
      <4>. QED
        BY <3>3, <4>1 DEF EndPass, FailPass, NoPass
    <3>4. CASE Restore
      BY <3>4 DEF Restore
    <3>. QED
      BY <1>7, <3>1, <3>2, <3>3, <3>4
  <2>. QED
    BY <1>2, <2>1, <2>2
<1>. QED
  BY <1>3, <1>4, <1>5, <1>6, <1>7 DEF Next, CreateStream, Touch, DeleteStream

(* When no two clocks lie further apart than the grace, a stream that the  *)
(* sweep removes is expired for every node, whichever leader's clock the   *)
(* pass took and however late its entry applies.                           *)
THEOREM GoneForAllHolds ==
    ASSUME Skew <= Grace
    PROVE  Spec => GoneForAll
<1> DEFINE Gone == \A s \in removed' : \A n \in Nodes : IsExpired(slots[s], clock[n])
<1>1. ASSUME Init PROVE ClockInv
  <2>1. Skew \in Nat
    BY ExpiryAssumption
  <2>. QED
    BY <1>1, <2>1 DEF Init, ClockInv, NoPass
<1>2. IInv /\ ClockInv /\ [Next]_vars => ClockInv'
  BY ClockStep
<1>3. ASSUME IInv, ClockInv, [Next]_vars PROVE [Gone]_vars
  <2>1. CASE UNCHANGED vars
    BY <2>1
  <2>2. CASE ApplySweep
    <3>1. removed' \in SUBSET DOMAIN slots /\ \A s \in removed' : IsExpired(slots[s], pass.now)
      BY <1>3, <2>2, SweepStep
    <3>2. ASSUME NEW s \in removed', NEW n \in Nodes PROVE IsExpired(slots[s], clock[n])
      <4>1. reg \in Registry /\ slots[s] = reg.slots[s] /\ s \in DOMAIN reg.slots
        BY <1>3, <3>1, RegFields DEF IInv, TypeOK
      <4>2. ExpiryOf(slots[s]) # Never /\ pass.now >= ExpiryOf(slots[s])
        BY <3>1 DEF IsExpired
      <4>3. ExpiryOf(slots[s]) \in Times
        BY <4>1, <4>2, RegistryType
      <4>4. pass.now <= clock[n] /\ pass.now \in Times /\ clock[n] \in Times
        BY <1>3 DEF ClockInv, IInv, TypeOK
      <4>5. clock[n] >= ExpiryOf(slots[s])
        BY <4>2, <4>3, <4>4, ExpiryAssumption DEF Times
      <4>. QED
        BY <4>2, <4>5 DEF IsExpired
    <3>. QED
      BY <3>2
  <2>3. CASE removed' = {}
    BY <2>3
  <2>. QED
    BY <1>3, <2>1, <2>2, <2>3
    DEF Next, CreateStream, Touch, DeleteStream, Command, BeginPass, Tick, ProposeSweep,
        EndPass, FailPass, SamePlace, Restore
<1> HIDE DEF Gone
<1>4. Spec => [][Gone]_vars
  BY <1>1, <1>2, <1>3, IndexInvariant, PTL DEF Spec
<1>. QED
  BY <1>4 DEF GoneForAll, Gone

---------------------------------------------------------------------------
(* The index implements the plain set of expiries.                         *)

LEMMA ExpiriesType ==
    ASSUME IInv
    PROVE  /\ DOMAIN Expiries = DOMAIN slots /\ DOMAIN slots \in SUBSET Streams
           /\ \A s \in DOMAIN slots : Expiries[s] = ExpiryOf(slots[s])
           /\ \A s \in DOMAIN slots : ExpiryOf(slots[s]) \in Times \cup {Never}
<1>1. reg \in Registry
  BY DEF IInv, TypeOK
<1>2. DOMAIN slots \in SUBSET Streams
      /\ \A s \in DOMAIN slots : ExpiryOf(slots[s]) \in Times \cup {Never}
  BY <1>1, RegFields, RegistryType
<1>. QED
  BY <1>2 DEF Expiries

LEMMA PutRefines ==
    ASSUME IInv, Puts
    PROVE  Abstract!Next
<1>1. PICK s \in Streams, slot \in Slot : slots' = With(slots, s, slot) /\ removed' = {}
  BY DEF Puts
<1> DEFINE at == ExpiryOf(slot)
<1>2. at \in Times \cup {Never}
  BY ExpiryType
<1>3. DOMAIN slots' = DOMAIN slots \cup {s} /\ slots'[s] = slot
      /\ \A t \in DOMAIN slots : t # s => slots'[t] = slots[t]
  BY <1>1 DEF With
<1>4. Expiries' = [t \in DOMAIN slots' |-> ExpiryOf(slots'[t])]
  BY DEF Expiries
<1>5. DOMAIN Expiries = DOMAIN slots /\ \A t \in DOMAIN slots : Expiries[t] = ExpiryOf(slots[t])
  BY DEF Expiries
<1>6. Expiries' = [t \in DOMAIN Expiries \cup {s} |-> IF t = s THEN at ELSE Expiries[t]]
  <2>1. \A t \in DOMAIN slots \cup {s} :
          ExpiryOf(slots'[t]) = IF t = s THEN at ELSE Expiries[t]
    BY <1>3, <1>5
  <2> HIDE DEF at
  <2>. QED
    BY <1>3, <1>4, <1>5, <2>1
<1>7. Abstract!Put(s, at)
  BY <1>1, <1>6 DEF Abstract!Put
<1>. QED
  BY <1>2, <1>7 DEF Abstract!Next

LEMMA DropRefines ==
    ASSUME IInv, Drops
    PROVE  Abstract!Next
<1>1. PICK s \in DOMAIN slots : slots' = Without(slots, s) /\ removed' = {}
  BY DEF Drops
<1>2. DOMAIN slots' = DOMAIN slots \ {s} /\ \A t \in DOMAIN slots' : slots'[t] = slots[t]
  BY <1>1 DEF Without, Restrict
<1>3. Expiries' = [t \in DOMAIN slots' |-> ExpiryOf(slots'[t])]
  BY DEF Expiries
<1>4. DOMAIN Expiries = DOMAIN slots /\ \A t \in DOMAIN slots : Expiries[t] = ExpiryOf(slots[t])
  BY DEF Expiries
<1>5. Expiries' = [t \in DOMAIN Expiries \ {s} |-> Expiries[t]]
  BY <1>2, <1>3, <1>4
<1>6. Abstract!Remove(s)
  BY <1>1, <1>4, <1>5 DEF Abstract!Remove
<1>7. s \in Streams
  BY ExpiriesType
<1>. QED
  BY <1>6, <1>7 DEF Abstract!Next

LEMMA KeepRefines ==
    ASSUME IInv, Keeps
    PROVE  Abstract!Next
<1>1. slots' = slots /\ removed' = {}
  BY DEF Keeps
<1>2. Expiries' = Expiries
  BY <1>1 DEF Expiries
<1>3. DOMAIN Expiries = DOMAIN slots /\ DOMAIN slots \in SUBSET Streams
      /\ \A s \in DOMAIN slots : Expiries[s] \in Times \cup {Never}
  BY ExpiriesType
<1>4. Expiries = [t \in DOMAIN Expiries |-> Expiries[t]]
  BY DEF Expiries
<1>5. CASE DOMAIN slots = {}
  <2>1. Abstract!FirstExpired(0) = {}
    BY <1>3, <1>5 DEF Abstract!FirstExpired, Abstract!Expired
  <2>2. DOMAIN Expiries \ removed' = DOMAIN Expiries
    BY <1>1
  <2>3. Expiries' = [t \in DOMAIN Expiries \ removed' |-> Expiries[t]]
    BY <1>2, <1>4, <2>2
  <2>4. Abstract!Sweep(0)
    BY <1>1, <2>1, <2>3 DEF Abstract!Sweep
  <2>5. 0 \in Times
    BY ExpiryAssumption DEF Times
  <2>. QED
    BY <2>4, <2>5 DEF Abstract!Next
<1>6. CASE DOMAIN slots # {}
  <2>1. PICK s \in DOMAIN slots : TRUE
    BY <1>6
  <2>2. Expiries' = [t \in DOMAIN Expiries \cup {s} |-> IF t = s THEN Expiries[s] ELSE Expiries[t]]
    <3>1. DOMAIN Expiries \cup {s} = DOMAIN Expiries
      BY <1>3, <2>1
    <3>. QED
      BY <1>2, <1>4, <3>1
  <2>3. Abstract!Put(s, Expiries[s])
    BY <1>1, <2>2 DEF Abstract!Put
  <2>4. s \in Streams /\ Expiries[s] \in Times \cup {Never}
    BY <1>3, <2>1
  <2>. QED
    BY <2>3, <2>4 DEF Abstract!Next
<1>. QED
  BY <1>5, <1>6

(* An ended loop has taken the first expired streams: all when it stopped  *)
(* for want of one, and Limit of them, each before all the others, when it *)
(* stopped at its limit.                                                   *)
LEMMA SweepRefines ==
    ASSUME IInv, Sweeps
    PROVE  Abstract!Next
<1>0. PICK now \in Times : \E l :
         /\ LoopInv(l, slots, now, Limit, keys) /\ Ended(l, now)
         /\ slots' = l.r.slots /\ removed' = l.got
  BY DEF Sweeps
<1>1. PICK l :
        /\ LoopInv(l, slots, now, Limit, keys) /\ Ended(l, now)
        /\ slots' = l.r.slots /\ removed' = l.got
  BY <1>0
<1> DEFINE G == l.got
           X == Abstract!Expired(now)
           B(s) == {t \in X : Abstract!Before(t, s)}
<1>2. /\ DOMAIN Expiries = DOMAIN slots /\ DOMAIN slots \in SUBSET Streams
      /\ \A s \in DOMAIN slots : Expiries[s] = ExpiryOf(slots[s])
      /\ \A s \in DOMAIN slots : ExpiryOf(slots[s]) \in Times \cup {Never}
  BY ExpiriesType
<1>3. X = {s \in DOMAIN slots : ExpiryOf(slots[s]) # Never /\ ExpiryOf(slots[s]) <= now}
  BY <1>2 DEF Abstract!Expired
<1>4. \A s \in X : s \in DOMAIN slots /\ ExpiryOf(slots[s]) \in Nat /\ s \in Nat
  <2>1. \A t \in Times : t \in Nat
    BY ExpiryAssumption DEF Times
  <2>. QED
    BY <1>2, <1>3, <2>1, ExpiryAssumption
<1>5. \A s, t \in X : Abstract!Before(s, t) <=> SoonerStream(slots, s, t)
  BY <1>2, <1>4 DEF Abstract!Before, SoonerStream
<1>6. G \in SUBSET X
  <2>1. \A s \in Times : s \in Nat
    BY ExpiryAssumption DEF Times
  <2>2. \A g \in G : g \in DOMAIN slots /\ IsExpired(slots[g], now)
    BY <1>1 DEF LoopInv
  <2>. QED
    BY <1>2, <1>3, <2>1, <2>2 DEF IsExpired
<1>7. \A g \in G : \A t \in X \ G : Abstract!Before(g, t)
  <2>1. \A g \in G : \A t \in DOMAIN slots \ G :
          ExpiryOf(slots[t]) # Never => SoonerStream(slots, g, t)
    BY <1>1 DEF LoopInv
  <2>. QED
    BY <1>3, <1>5, <1>6, <2>1
<1>8. IsFiniteSet(G) /\ Cardinality(G) + l.left = Limit /\ l.left \in Nat
  BY <1>1 DEF LoopInv
<1>9. IsFiniteSet(X)
  BY <1>2, <1>3, ExpiryAssumption, FS_Subset
<1>10. Cardinality(G) \in Nat /\ Limit \in Nat
  BY <1>8, ExpiryAssumption, FS_CardinalityType
<1>11. \A s, t \in X : ~(Abstract!Before(s, t) /\ Abstract!Before(t, s)) /\ ~Abstract!Before(s, s)
  BY <1>4, <1>5 DEF SoonerStream
<1> HIDE DEF X, G
<1>12. ASSUME NEW s \in X PROVE s \in G <=> Cardinality(B(s)) < Limit
  <2>1. CASE s \in G
    <3>1. B(s) \in SUBSET (G \ {s})
      BY <1>7, <1>11, <2>1
    <3> DEFINE C == B(s)
    <3> HIDE DEF C, B
    <3>2. IsFiniteSet(G \ {s}) /\ Cardinality(G \ {s}) = Cardinality(G) - 1
      BY <1>8, <2>1, FS_RemoveElement
    <3>3. IsFiniteSet(C) /\ Cardinality(C) <= Cardinality(G \ {s})
      BY <3>1, <3>2, FS_Subset DEF C
    <3>4. Cardinality(C) \in Nat
      BY <3>3, FS_CardinalityType
    <3>5. Cardinality(C) < Limit
      BY <1>8, <1>10, <3>2, <3>3, <3>4
    <3>. QED
      BY <2>1, <3>5 DEF C
  <2>2. CASE s \notin G
    <3>1. l.left = 0
      <4>1. SUFFICES ASSUME l.left # 0 PROVE FALSE
        OBVIOUS
      <4>2. ~FrontDue(l.r.heap, now)
        BY <1>1, <4>1 DEF Ended
      <4>3. s \in DOMAIN l.r.slots /\ l.r.slots[s] = slots[s] /\ Indexed(l.r, keys)
        BY <1>1, <1>4, <2>2 DEF LoopInv, G
      <4>4. ExpiryOf(slots[s]) # Never /\ ExpiryOf(slots[s]) <= now
        BY <1>3 DEF X
      <4>5. Found(l.r, s) /\ l.r \in Registry
        BY <4>3 DEF Indexed, IndexedBut
      <4> DEFINE f == [at |-> l.r.armed[slots[s].key], s |-> s, key |-> slots[s].key]
                 e == Front(l.r.heap)
      <4>6. f \in l.r.heap /\ f.at <= ExpiryOf(slots[s])
        BY <4>3, <4>4, <4>5 DEF Found
      <4>7. l.r.heap \in SUBSET Entry
        BY <4>5, RegistryType
      <4>8. e \in l.r.heap /\ (f = e \/ Sooner(e, f)) /\ l.r.heap # {}
        BY <4>6, <4>7, FrontFirst
      <4>9. e.at \in Nat /\ f.at \in Nat /\ now \in Nat /\ ExpiryOf(slots[s]) \in Nat
        <5>1. e \in Entry /\ f \in Entry
          BY <4>6, <4>7, <4>8
        <5>. QED
          BY <1>4, <5>1, EntryType, ExpiryAssumption DEF Times
      <4> HIDE DEF e, f
      <4>10. e.at <= f.at
        BY <4>8, <4>9 DEF Sooner
      <4>11. e.at <= now
        BY <4>4, <4>6, <4>9, <4>10
      <4>. QED
        BY <4>2, <4>8, <4>11 DEF FrontDue, e
    <3>2. G \in SUBSET B(s)
      BY <1>6, <1>7, <2>2
    <3>3. B(s) \in SUBSET X
      OBVIOUS
    <3> DEFINE C == B(s)
    <3> HIDE DEF C, B
    <3>4. IsFiniteSet(C)
      BY <1>9, <3>3, FS_Subset DEF C
    <3>5. Cardinality(G) <= Cardinality(C) /\ Cardinality(C) \in Nat
      BY <3>2, <3>4, FS_Subset, FS_CardinalityType DEF C
    <3>6. ~(Cardinality(C) < Limit)
      BY <1>8, <1>10, <3>1, <3>5
    <3>. QED
      BY <2>2, <3>6 DEF C
  <2>. QED
    BY <2>1, <2>2
<1>13. Abstract!FirstExpired(now) = G
  <2>1. Abstract!FirstExpired(now) = {s \in X : Cardinality(B(s)) < Limit}
    BY DEF Abstract!FirstExpired, X, Cardinality, Abstract!Cardinality
  <2> HIDE DEF B
  <2>. QED
    BY <1>6, <1>12, <2>1
<1>14. removed' = G
  BY <1>1 DEF G
<1>15. Expiries' = [t \in DOMAIN Expiries \ removed' |-> Expiries[t]]
  <2>1. DOMAIN slots' = DOMAIN slots \ G /\ \A s \in DOMAIN slots' : slots'[s] = slots[s]
    BY <1>1 DEF LoopInv, G
  <2>2. Expiries' = [t \in DOMAIN slots' |-> ExpiryOf(slots'[t])]
    BY DEF Expiries
  <2>. QED
    BY <1>2, <1>14, <2>1, <2>2
<1>16. Abstract!Sweep(now)
  BY <1>13, <1>14, <1>15 DEF Abstract!Sweep
<1>. QED
  BY <1>16 DEF Abstract!Next

(* The TTL index, lazily repaired heap and all, removes exactly the streams *)
(* that a sorted set of expiries would, in every sweep.                     *)
THEOREM IndexRefinesSet == Spec => SweepsInOrder
<1>1. ASSUME Init PROVE Abstract!Init
  <2>1. slots = NoMap /\ removed = {}
    BY <1>1 DEF Init
  <2>2. Expiries = [s \in {} |-> Never]
    BY <2>1 DEF Expiries, NoMap
  <2>. QED
    BY <2>1, <2>2 DEF Abstract!Init
<1>2. ASSUME IInv, [Next]_vars PROVE [Abstract!Next]_(Abstract!vars)
  <2>1. CASE Next
    BY <1>2, <2>1, NextStep, PutRefines, DropRefines, KeepRefines, SweepRefines DEF Step
  <2>2. CASE UNCHANGED vars
    BY <2>2 DEF vars, Abstract!vars, Expiries
  <2>. QED
    BY <1>2, <2>1, <2>2
<1>. QED
  BY <1>1, <1>2, IndexInvariant, PTL DEF Spec, SweepsInOrder, Abstract!Spec
============================================================================

------------------------- MODULE KeyedWritesProofs -------------------------
(* Proofs about KeyedWrites, for every value of its constants. *)
EXTENDS KeyedWrites, TLAPS

(* What evaluate can answer. *)
IsEvaluation(e) ==
    /\ e.epoch \in Int
    /\ e.closed \in ClosedEpoch \cup {NotClosed}
    /\ e.opened \in Opened

LEMMA EvaluateType ==
    ASSUME NEW r \in Record \cup {NoRecord}, NEW f \in Int, NEW h \in Nat,
           NEW key \in Key, NEW tokened \in BOOLEAN
    PROVE  IsEvaluation(Evaluate(r, f, h, key, tokened))
<1>1. CASE r = NoRecord
  BY <1>1 DEF Evaluate, EvaluateNew, Answer, Claim, OpenedAt, IsEvaluation,
              Opened, Key, Absent
<1>2. CASE r # NoRecord
  <2>1. r \in Record
    BY <1>2
  <2>2. r.epoch \in Nat /\ r.last_seq \in Nat /\ r.closed_epoch \in ClosedEpoch \cup {NotClosed}
    BY <2>1 DEF Record
  <2>3. [epoch |-> r.epoch, seq |-> r.last_seq] \in ClosedEpoch
    BY <2>2 DEF ClosedEpoch
  <2>4. IsEvaluation(EvaluateOlder(r, key))
    BY <2>2 DEF EvaluateOlder, Answer, IsEvaluation, Opened
  <2>5. IsEvaluation(EvaluateLater(r, f, key))
    BY <2>2, <2>3 DEF EvaluateLater, Answer, Claim, OpenedAt, IsEvaluation, Opened, Absent
  <2>6. IsEvaluation(EvaluateCurrent(r, h, key))
    BY <2>2, <2>3 DEF EvaluateCurrent, Answer, IsEvaluation, Opened
  <2>7. IsEvaluation(Answer("Expired", f, NotClosed))
    BY DEF Answer, IsEvaluation, Opened
  <2>. QED
    BY <1>2, <2>4, <2>5, <2>6, <2>7 DEF Evaluate
<1>. QED
  BY <1>1, <1>2

---------------------------------------------------------------------------
(* Requests and the gate. *)

LEMMA RequestType ==
    ASSUME NEW w \in Requests
    PROVE  /\ w.epoch \in Int /\ w.seq \in Int /\ w.digest \in Digest
           /\ w.producer \in Producer \cup {NoProducer}
           /\ w.producer \in Producer => KeyOf(w) \in Key
<1>1. CASE w \in KeyedWrite
  <2>1. /\ w.producer \in Writers \ {NoProducer}
        /\ w.epoch \in Epochs /\ w.seq \in Seqs /\ w.digest \in Digest
    BY <1>1 DEF KeyedWrite
  <2>2. w.producer \in Producer /\ w.epoch \in Nat /\ w.seq \in Nat
    BY <2>1, ConstantsAssumption
  <2>3. KeyOf(w) \in Key
    BY <2>1, <2>2 DEF KeyOf, Key
  <2>. QED
    BY <2>1, <2>2, <2>3
<1>2. CASE w = UnkeyedWrite
  <2>1. /\ w.producer = NoProducer /\ w.digest = NoDigest
        /\ w.epoch = Absent /\ w.seq = Absent
    BY <1>2 DEF UnkeyedWrite
  <2>2. NoProducer \notin Producer /\ NoDigest \in Digest
    BY ConstantsAssumption
  <2>. QED
    BY <2>1, <2>2 DEF Absent
<1>. QED
  BY <1>1, <1>2 DEF Requests

LEMMA GateType ==
    ASSUME NEW s \in Slot, NEW w \in Requests, NEW tokened \in BOOLEAN,
           NEW now \in Clock, history \in Nat
    PROVE  IsEvaluation(Gate(s, w, tokened, now))
<1>1. CASE w.producer = NoProducer
  BY <1>1 DEF Gate, Unkeyed, Answer, IsEvaluation, Opened, Absent
<1>2. CASE w.producer # NoProducer
  <2>1. w.producer \in Producer /\ KeyOf(w) \in Key
    BY <1>2, RequestType
  <2>2. s.producers[w.producer] \in Record \cup {NoRecord} /\ s.floor \in Int
    BY <2>1 DEF Slot
  <2>3. IsEvaluation(Evaluate(s.producers[w.producer], s.floor, history, KeyOf(w), tokened))
    BY <2>1, <2>2, EvaluateType
  <2>4. IsEvaluation(Answer("ProducerLimit", Absent, NotClosed))
    BY DEF Answer, IsEvaluation, Opened, Absent
  <2>. QED
    BY <1>2, <2>3, <2>4 DEF Gate
<1>. QED
  BY <1>1, <1>2

(* A keyed write that passes the gate was let through by the table. *)
LEMMA GateIsEvaluate ==
    ASSUME NEW s \in Slot, NEW w \in Requests, NEW tokened \in BOOLEAN, NEW now \in Clock,
           w.producer \in Producer,
           Gate(s, w, tokened, now).kind \in {"Unkeyed", "Claim", "Next"}
    PROVE  /\ Gate(s, w, tokened, now)
                = Evaluate(s.producers[w.producer], s.floor, history, KeyOf(w), tokened)
           /\ Gate(s, w, tokened, now).kind \in {"Claim", "Next"}
<1>1. w.producer # NoProducer
  BY ConstantsAssumption
<1>2. Gate(s, w, tokened, now)
        = Evaluate(s.producers[w.producer], s.floor, history, KeyOf(w), tokened)
  BY <1>1 DEF Gate, Answer
<1>3. Evaluate(s.producers[w.producer], s.floor, history, KeyOf(w), tokened).kind # "Unkeyed"
  BY DEF Evaluate, EvaluateNew, EvaluateOlder, EvaluateLater, EvaluateCurrent, Answer, Claim
<1>. QED
  BY <1>2, <1>3

LEMMA RecordAfterType ==
    ASSUME NEW s \in Slot, NEW w \in Requests, NEW b \in Bodies, NEW tokened \in BOOLEAN,
           NEW now \in Clock, history \in Nat, w.producer \in Producer,
           Gate(s, w, tokened, now).kind \in {"Unkeyed", "Claim", "Next"}
    PROVE  RecordAfter(s, w, b, Gate(s, w, tokened, now), now) \in Record
<1> DEFINE gate == Gate(s, w, tokened, now)
           r == s.producers[w.producer]
           receipt == [start |-> s.tail, next |-> s.tail + b.len, closed |-> b.close]
<1>1. IsEvaluation(gate) /\ KeyOf(w) \in Key
  BY GateType, RequestType
<1>2. receipt \in Receipt
  BY ConstantsAssumption DEF Receipt, Slot, Body
<1>3. now \in Nat
  BY ConstantsAssumption
<1>4. CASE gate.kind = "Claim"
  BY <1>1, <1>2, <1>3, <1>4 DEF RecordAfter, Claimed, Record, IsEvaluation, Key
<1>5. CASE gate.kind = "Next"
  <2>1. gate = Evaluate(r, s.floor, history, KeyOf(w), tokened)
    BY GateIsEvaluate
  <2>2. r # NoRecord
    BY <1>5, <2>1 DEF Evaluate, EvaluateNew, Answer, Claim
  <2>3. r \in Record
    BY <2>2 DEF Slot
  <2>. QED
    BY <1>1, <1>2, <1>3, <1>5, <2>3 DEF RecordAfter, Advanced, Record, Key
<1>. QED
  BY <1>4, <1>5, GateIsEvaluate

---------------------------------------------------------------------------
(* Retirement. *)

(* The floor rises over every retired record; nothing else of the stream   *)
(* changes.                                                                *)
LEMMA RetirementsEffect ==
    ASSUME NEW s \in Slot, NEW V \in SUBSET Known(s), NEW t \in Retirements(s, V)
    PROVE  /\ t \in Slot
           /\ t.log = s.log /\ t.created = s.created
           /\ t.tail = s.tail /\ t.history = s.history /\ t.inherited = s.inherited
           /\ s.floor \in Int /\ t.floor \in Int /\ t.floor >= s.floor
           /\ \A p \in Producer : t.producers[p] = IF p \in V THEN NoRecord ELSE s.producers[p]
           /\ \A p \in V : s.producers[p] \in Record /\ s.producers[p].epoch <= t.floor
<1>1. \A p \in V : p \in Producer /\ s.producers[p] \in Record
  BY DEF Known, HasRecord, Slot
<1>2. \A p \in V : s.producers[p].epoch \in Nat
  BY <1>1 DEF Record
<1>3. s.floor \in Int
  BY DEF Slot
<1>4. FloorsAfter(s, V) \subseteq Int
  BY <1>2, <1>3 DEF FloorsAfter
<1>5. PICK f \in FloorsAfter(s, V) :
        /\ \A h \in FloorsAfter(s, V) : h <= f
        /\ t = [s EXCEPT !.producers = [p \in Producer |->
                             IF p \in V THEN NoRecord ELSE s.producers[p]],
                         !.floor = f]
  BY DEF Retirements
<1>6. f \in Int
  BY <1>4
<1>7. s.floor <= f /\ \A p \in V : s.producers[p].epoch <= f
  BY <1>5 DEF FloorsAfter
<1>8. [p \in Producer |-> IF p \in V THEN NoRecord ELSE s.producers[p]]
        \in [Producer -> Record \cup {NoRecord}]
  BY DEF Slot
<1>9. t \in Slot
  BY <1>5, <1>6, <1>8 DEF Slot
<1>10. /\ t.log = s.log /\ t.created = s.created /\ t.floor = f
       /\ t.tail = s.tail /\ t.history = s.history /\ t.inherited = s.inherited
  BY <1>5 DEF Slot
<1>11. \A p \in Producer : t.producers[p] = IF p \in V THEN NoRecord ELSE s.producers[p]
  BY <1>5 DEF Slot
<1>. QED
  BY <1>1, <1>3, <1>6, <1>7, <1>9, <1>10, <1>11

(* What a content remembers. *)
LEMMA LogEntry ==
    ASSUME NEW s \in Slot, NEW i \in DOMAIN s.log
    PROVE  s.log[i] \in Entry /\ s.log[i].epoch \in Int /\ s.log[i].seq \in Int
<1>1. s.log \in Seq(Entry)
  BY DEF Slot
<1>2. s.log[i] \in Entry
  BY <1>1
<1>. QED
  BY <1>2 DEF Entry

LEMMA RetirementsInv ==
    ASSUME NEW s \in Slot, NEW V \in SUBSET Known(s), NEW t \in Retirements(s, V),
           SlotInv(s)
    PROVE  SlotInv(t)
<1>1. ExactlyOnceIn(t) /\ HistoryFenceIn(t)
  BY RetirementsEffect DEF SlotInv, ExactlyOnceIn, HistoryFenceIn
<1>2. ASSUME NEW p \in Producer PROVE RemembersProducer(t, p)
  <2> DEFINE r == s.producers[p]
  <2>1. RemembersProducer(s, p)
    BY DEF SlotInv
  <2>2. r # NoRecord => r \in Record /\ r.epoch \in Nat
    BY DEF Slot, Record
  <2>3. CASE p \in V
    <3>1. t.producers[p] = NoRecord /\ r \in Record /\ r.epoch <= t.floor /\ t.log = s.log
      BY <2>3, RetirementsEffect
    <3>2. ASSUME NEW i \in DOMAIN s.log, s.log[i].producer = p
          PROVE  s.log[i].epoch <= t.floor
      <4>1. s.log[i].epoch \in Int
        BY LogEntry
      <4>2. s.log[i].epoch <= r.epoch \/ s.log[i].epoch <= s.floor
        BY <2>1, <3>2 DEF RemembersProducer
      <4>. QED
        BY <2>2, <3>1, <4>1, <4>2, RetirementsEffect, NoRecordAssumption
    <3>. QED
      BY <3>1, <3>2 DEF RemembersProducer
  <2>4. CASE p \notin V
    <3>1. t.producers[p] = r /\ t.log = s.log /\ t.floor \in Int /\ s.floor \in Int /\ s.floor <= t.floor
      BY <2>4, RetirementsEffect
    <3>2. CASE r # NoRecord /\ r.opened = "AboveFloor"
      BY <2>1, <3>1, <3>2 DEF RemembersProducer
    <3>3. CASE ~(r # NoRecord /\ r.opened = "AboveFloor")
      <4>1. r # NoRecord => r.epoch <= t.floor
        BY <2>1, <2>2, <3>1, <3>3 DEF RemembersProducer
      <4>2. ASSUME NEW i \in DOMAIN s.log, s.log[i].producer = p
            PROVE  s.log[i].epoch <= t.floor
        <5>1. s.log[i].epoch \in Int
          BY LogEntry
        <5>2. s.log[i].epoch <= s.floor
          BY <2>1, <3>3, <4>2 DEF RemembersProducer
        <5>. QED
          BY <3>1, <5>1, <5>2
      <4>. QED
        BY <3>1, <3>3, <4>1, <4>2 DEF RemembersProducer
    <3>. QED
      BY <3>2, <3>3
  <2>. QED
    BY <2>3, <2>4
<1>. QED
  BY <1>1, <1>2 DEF SlotInv

---------------------------------------------------------------------------
(* What the table lets through, against what the stream remembers: a write  *)
(* whose record is opened above the floor is newer than every write of its  *)
(* producer, and one below the floor carries no token.                      *)
PassedFacts(s, w, tokened, R) ==
    /\ R.epoch = w.epoch /\ R.last_seq = w.seq /\ R.history = history
    /\ R.opened = "AboveFloor" =>
        \A i \in DOMAIN s.log : s.log[i].producer = w.producer =>
            /\ s.log[i].epoch <= w.epoch
            /\ s.log[i].epoch = w.epoch =>
                s.log[i].seq < w.seq /\ s.log[i].history = history
    /\ R.opened # "AboveFloor" =>
        /\ ~tokened
        /\ w.epoch <= s.floor
        /\ \A i \in DOMAIN s.log :
            s.log[i].producer = w.producer => s.log[i].epoch <= s.floor

LEMMA GatePassed ==
    ASSUME NEW s \in Slot, NEW w \in Requests, NEW b \in Bodies, NEW tokened \in BOOLEAN,
           NEW now \in Clock, w.producer \in Producer, SlotInv(s), history \in Nat,
           Gate(s, w, tokened, now).kind \in {"Unkeyed", "Claim", "Next"}
    PROVE  PassedFacts(s, w, tokened, RecordAfter(s, w, b, Gate(s, w, tokened, now), now))
<1> DEFINE gate == Gate(s, w, tokened, now)
           p == w.producer
           r == s.producers[p]
           R == RecordAfter(s, w, b, gate, now)
<1>1. /\ gate = Evaluate(r, s.floor, history, KeyOf(w), tokened)
      /\ gate.kind \in {"Claim", "Next"}
  BY GateIsEvaluate
<1>2. w.epoch \in Nat /\ w.seq \in Nat /\ s.floor \in Int
  BY RequestType DEF Key, KeyOf, Slot
<1>3. RemembersProducer(s, p)
  BY DEF SlotInv
<1>4. \A i \in DOMAIN s.log : s.log[i].epoch \in Int /\ s.log[i].seq \in Int
  BY LogEntry
<1>5. KeyOf(w).epoch = w.epoch /\ KeyOf(w).seq = w.seq
  BY DEF KeyOf
<1>6. r # NoRecord => r \in Record /\ r.epoch \in Nat /\ r.last_seq \in Nat /\ r.opened \in Opened
  BY DEF Slot, Record
<1>7. CASE r = NoRecord
  <2>1. gate = EvaluateNew(s.floor, KeyOf(w), tokened)
    BY <1>1, <1>7 DEF Evaluate
  <2>2. /\ gate = Claim(NotClosed, OpenedAt(s.floor, w.epoch))
        /\ ~(tokened /\ w.epoch <= s.floor)
    BY <1>1, <1>5, <2>1 DEF EvaluateNew, Answer
  <2>3. gate.kind = "Claim" /\ gate.opened = OpenedAt(s.floor, w.epoch)
    BY <2>2 DEF Claim
  <2>4. R.epoch = w.epoch /\ R.last_seq = w.seq /\ R.history = history /\ R.opened = gate.opened
    BY <1>5, <2>3 DEF RecordAfter, Claimed
  <2>5. \A i \in DOMAIN s.log : s.log[i].producer = p => s.log[i].epoch <= s.floor
    BY <1>3, <1>7 DEF RemembersProducer
  <2>6. R.opened = "AboveFloor" => w.epoch > s.floor
    BY <1>2, <2>3, <2>4 DEF OpenedAt
  <2>7. R.opened # "AboveFloor" => w.epoch <= s.floor
    BY <1>2, <2>3, <2>4 DEF OpenedAt
  <2>8. R.opened = "AboveFloor" => \A i \in DOMAIN s.log :
            s.log[i].producer = p => s.log[i].epoch < w.epoch
    BY <1>2, <1>4, <2>5, <2>6
  <2>. QED
    BY <1>2, <1>4, <2>2, <2>4, <2>5, <2>7, <2>8 DEF PassedFacts
<1>8. CASE r # NoRecord
  <2>1. ~ReachesForgotten(r, s.floor, KeyOf(w), tokened)
    BY <1>1, <1>8 DEF Evaluate, Answer
  <2>2. CASE w.epoch > r.epoch
    <3>1. gate = EvaluateLater(r, s.floor, KeyOf(w))
      BY <1>1, <1>2, <1>5, <1>6, <1>8, <2>1, <2>2 DEF Evaluate
    <3>2. w.seq = 0 /\ gate.kind = "Claim"
      BY <1>1, <1>5, <3>1 DEF EvaluateLater, Answer, Claim
    <3>3. R.epoch = w.epoch /\ R.last_seq = w.seq /\ R.history = history /\ R.opened = gate.opened
      BY <1>5, <3>2 DEF RecordAfter, Claimed
    <3>4. CASE r.opened = "AboveFloor"
      <4>1. R.opened = "AboveFloor"
        BY <1>5, <3>1, <3>2, <3>3, <3>4 DEF EvaluateLater, Claim
      <4>2. \A i \in DOMAIN s.log : s.log[i].producer = p => s.log[i].epoch <= r.epoch
        BY <1>3, <1>8, <3>4 DEF RemembersProducer
      <4>3. \A i \in DOMAIN s.log : s.log[i].producer = p => s.log[i].epoch < w.epoch
        BY <1>2, <1>4, <1>6, <1>8, <2>2, <4>2
      <4>. QED
        BY <1>2, <1>4, <3>3, <4>1, <4>3 DEF PassedFacts
    <3>5. CASE r.opened # "AboveFloor"
      <4>1. R.opened = OpenedAt(s.floor, w.epoch)
        BY <1>5, <3>1, <3>2, <3>3, <3>5 DEF EvaluateLater, Claim
      <4>2. \A i \in DOMAIN s.log : s.log[i].producer = p => s.log[i].epoch <= s.floor
        BY <1>3, <1>8, <3>5 DEF RemembersProducer
      <4>3. CASE w.epoch <= s.floor
        <5>1. ~tokened
          BY <1>2, <1>5, <1>6, <1>8, <2>1, <3>5, <4>3 DEF ReachesForgotten, Opened, Absent
        <5>2. R.opened = "BelowFloor"
          BY <4>1, <4>3 DEF OpenedAt
        <5>. QED
          BY <3>3, <4>2, <4>3, <5>1, <5>2 DEF PassedFacts
      <4>4. CASE w.epoch > s.floor
        <5>1. R.opened = "AboveFloor"
          BY <1>2, <4>1, <4>4 DEF OpenedAt
        <5>2. \A i \in DOMAIN s.log : s.log[i].producer = p => s.log[i].epoch < w.epoch
          BY <1>2, <1>4, <4>2, <4>4
        <5>. QED
          BY <1>2, <1>4, <3>3, <5>1, <5>2 DEF PassedFacts
      <4>. QED
        BY <1>2, <4>3, <4>4
    <3>. QED
      BY <3>4, <3>5
  <2>3. CASE ~(w.epoch > r.epoch)
    <3>1. w.epoch = r.epoch /\ gate = EvaluateCurrent(r, history, KeyOf(w))
      <4>1. w.epoch < r.epoch => gate = EvaluateOlder(r, KeyOf(w))
        BY <1>1, <1>5, <1>8, <2>1 DEF Evaluate
      <4>2. ~(w.epoch < r.epoch)
        BY <1>1, <4>1 DEF EvaluateOlder, Answer
      <4>. QED
        BY <1>1, <1>2, <1>5, <1>6, <1>8, <2>1, <2>3, <4>2 DEF Evaluate
    <3>2. gate.kind = "Next" /\ r.history = history /\ w.seq = r.last_seq + 1
      BY <1>1, <1>5, <3>1 DEF EvaluateCurrent, Answer, HistoryFenced
    <3>3. R.epoch = w.epoch /\ R.last_seq = w.seq /\ R.history = history /\ R.opened = r.opened
      BY <1>5, <1>6, <1>8, <3>1, <3>2 DEF RecordAfter, Advanced, Record
    <3>4. CASE r.opened = "AboveFloor"
      <4>1. \A i \in DOMAIN s.log : s.log[i].producer = p =>
                /\ s.log[i].epoch <= r.epoch
                /\ s.log[i].epoch = r.epoch =>
                    s.log[i].seq <= r.last_seq /\ s.log[i].history = r.history
        BY <1>3, <1>8, <3>4 DEF RemembersProducer
      <4>2. \A i \in DOMAIN s.log : s.log[i].producer = p =>
                /\ s.log[i].epoch <= w.epoch
                /\ s.log[i].epoch = w.epoch =>
                    s.log[i].seq < w.seq /\ s.log[i].history = history
        BY <1>2, <1>4, <1>6, <1>8, <3>1, <3>2, <4>1
      <4>. QED
        BY <3>3, <3>4, <4>2 DEF PassedFacts
    <3>5. CASE r.opened # "AboveFloor"
      <4>1. /\ w.epoch <= s.floor
            /\ \A i \in DOMAIN s.log : s.log[i].producer = p => s.log[i].epoch <= s.floor
        BY <1>3, <1>8, <3>1, <3>5 DEF RemembersProducer
      <4>2. ~tokened
        BY <1>2, <1>5, <1>6, <1>8, <2>1, <3>1, <3>5, <4>1 DEF ReachesForgotten, Opened, Absent
      <4>. QED
        BY <3>3, <3>5, <4>1, <4>2 DEF PassedFacts
    <3>. QED
      BY <3>4, <3>5
  <2>. QED
    BY <2>2, <2>3
<1>. QED
  BY <1>7, <1>8

---------------------------------------------------------------------------
(* A write that applies. *)

LEMMA EntryType ==
    ASSUME NEW s \in Slot, NEW w, NEW b \in Bodies, NEW tokened \in BOOLEAN,
           w \in Requests \/ w = UnkeyedWrite, history \in Nat, writes \in Nat
    PROVE  EntryOf(s, w, b, tokened) \in Entry
<1>1. /\ w.epoch \in Int /\ w.seq \in Int /\ w.digest \in Digest
      /\ w.producer \in Producer \cup {NoProducer}
  BY RequestType, ConstantsAssumption DEF UnkeyedWrite, Absent
<1>2. s.tail \in Nat /\ b.len \in Nat
  BY ConstantsAssumption DEF Slot, Body
<1>. QED
  BY <1>1, <1>2 DEF EntryOf, Entry

LEMMA RenewedType ==
    ASSUME NEW s \in Slot, NEW now \in Clock
    PROVE  Renewed(s, now) \in Nat
<1>1. s.touched \in Nat /\ now \in Nat
  BY ConstantsAssumption DEF Slot
<1>. QED
  BY <1>1 DEF Renewed, MaxOf

LEMMA AppliedType ==
    ASSUME NEW s \in Slot, NEW w \in Requests, NEW b \in Bodies, NEW tokened \in BOOLEAN,
           NEW now \in Clock, history \in Nat, writes \in Nat,
           Gate(s, w, tokened, now).kind \in {"Unkeyed", "Claim", "Next"}
    PROVE  /\ Applied(s, w, b, Gate(s, w, tokened, now), tokened, now) \in Slot
           /\ Applied(s, w, b, Gate(s, w, tokened, now), tokened, now).log
                = Append(s.log, EntryOf(s, w, b, tokened))
           /\ Applied(s, w, b, Gate(s, w, tokened, now), tokened, now).floor = s.floor
           /\ Applied(s, w, b, Gate(s, w, tokened, now), tokened, now).created = s.created
           /\ Applied(s, w, b, Gate(s, w, tokened, now), tokened, now).tail = s.tail + b.len
           /\ Applied(s, w, b, Gate(s, w, tokened, now), tokened, now).history = history
           /\ Applied(s, w, b, Gate(s, w, tokened, now), tokened, now).inherited = InheritedBy(s)
           /\ \A p \in Producer :
                Applied(s, w, b, Gate(s, w, tokened, now), tokened, now).producers[p]
                  = IF p = w.producer
                    THEN RecordAfter(s, w, b, Gate(s, w, tokened, now), now)
                    ELSE s.producers[p]
<1> DEFINE gate == Gate(s, w, tokened, now)
           R == RecordAfter(s, w, b, gate, now)
           e == EntryOf(s, w, b, tokened)
           t == Applied(s, w, b, gate, tokened, now)
           stream_seq == IF b.stream_seq = Absent THEN s.last_stream_seq ELSE b.stream_seq
           producers == [p \in Producer |-> IF p = w.producer THEN R ELSE s.producers[p]]
<1>1. e \in Entry
  BY EntryType
<1>2. Append(s.log, e) \in Seq(Entry)
  BY <1>1 DEF Slot
<1>3. Renewed(s, now) \in Nat
  BY RenewedType
<1>4. s.tail + b.len \in Nat /\ b.close \in BOOLEAN /\ stream_seq \in Int
  BY ConstantsAssumption DEF Slot, Body, Absent
<1>5. InheritedBy(s) \in Inherited
  BY DEF InheritedBy, Inherited, Slot
<1>6. producers \in [Producer -> Record \cup {NoRecord}]
  <2>1. \A p \in Producer : p = w.producer => R \in Record
    BY RecordAfterType
  <2>. QED
    BY <2>1 DEF Slot
<1> HIDE DEF gate, R, e, stream_seq, producers
<1>7. t = [s EXCEPT !.inherited = InheritedBy(s), !.history = history,
                    !.tail = s.tail + b.len, !.last_stream_seq = stream_seq,
                    !.touched = Renewed(s, now), !.closed = b.close,
                    !.producers = producers, !.log = Append(s.log, e)]
  BY DEF Applied, gate, R, e, stream_seq, producers
<1>8. /\ t \in Slot
      /\ t.log = Append(s.log, e) /\ t.floor = s.floor /\ t.producers = producers
      /\ t.created = s.created /\ t.tail = s.tail + b.len /\ t.history = history
      /\ t.inherited = InheritedBy(s)
  BY <1>2, <1>3, <1>4, <1>5, <1>6, <1>7 DEF Slot
<1>9. \A p \in Producer : t.producers[p] = IF p = w.producer THEN R ELSE s.producers[p]
  BY <1>8 DEF producers
<1>. QED
  BY <1>8, <1>9 DEF gate, R, e

LEMMA AppliedInv ==
    ASSUME NEW s \in Slot, NEW w \in Requests, NEW b \in Bodies, NEW tokened \in BOOLEAN,
           NEW now \in Clock, history \in Nat, writes \in Nat, SlotInv(s),
           Gate(s, w, tokened, now).kind \in {"Unkeyed", "Claim", "Next"}
    PROVE  SlotInv(Applied(s, w, b, Gate(s, w, tokened, now), tokened, now))
<1> DEFINE gate == Gate(s, w, tokened, now)
           R == RecordAfter(s, w, b, gate, now)
           e == EntryOf(s, w, b, tokened)
           t == Applied(s, w, b, gate, tokened, now)
           n == Len(s.log)
<1>1. /\ t \in Slot /\ t.log = Append(s.log, e) /\ t.floor = s.floor
      /\ \A p \in Producer : t.producers[p] = IF p = w.producer THEN R ELSE s.producers[p]
  BY AppliedType
<1>2. s.log \in Seq(Entry) /\ e \in Entry
  BY EntryType DEF Slot
<1>3. /\ n \in Nat /\ DOMAIN s.log = 1..n /\ DOMAIN t.log = 1..(n+1)
      /\ \A i \in 1..n : t.log[i] = s.log[i]
      /\ t.log[n+1] = e
  BY <1>1, <1>2
<1>4. /\ e.producer = w.producer /\ e.epoch = w.epoch /\ e.seq = w.seq
      /\ e.tokened = tokened /\ e.history = history
  BY DEF EntryOf
<1>5. w.producer \in Producer \cup {NoProducer} /\ NoProducer \notin Producer
  BY RequestType, ConstantsAssumption
<1>6. w.epoch \in Int /\ w.seq \in Int /\ s.floor \in Int
  BY RequestType DEF Slot
<1>7. \A i \in 1..n : s.log[i].epoch \in Int /\ s.log[i].seq \in Int
  BY <1>3, LogEntry
<1>8. w.producer \in Producer => PassedFacts(s, w, tokened, R)
  BY GatePassed
<1> HIDE DEF gate, R, e, t, n
<1>9. ASSUME NEW i \in 1..n, SameEpoch(s.log[i], e), tokened
      PROVE  s.log[i].seq < w.seq /\ s.log[i].history = history
  <2>1. w.producer \in Producer /\ s.log[i].producer = w.producer /\ s.log[i].epoch = w.epoch
    BY <1>4, <1>5, <1>9 DEF SameEpoch
  <2>2. R.opened = "AboveFloor"
    BY <1>8, <1>9, <2>1 DEF PassedFacts
  <2>. QED
    BY <1>3, <1>8, <2>1, <2>2 DEF PassedFacts
<1>10. ExactlyOnceIn(t)
  <2> SUFFICES ASSUME NEW i \in 1..(n+1), NEW j \in 1..(n+1), i < j,
                      SameKey(t.log[i], t.log[j])
               PROVE  ~t.log[j].tokened
    BY <1>3 DEF ExactlyOnceIn
  <2>1. i \in 1..n /\ t.log[i] = s.log[i]
    BY <1>3
  <2>2. CASE j \in 1..n
    BY <1>3, <2>1, <2>2 DEF SlotInv, ExactlyOnceIn
  <2>3. CASE j = n + 1
    <3>1. SameEpoch(s.log[i], e) /\ s.log[i].seq = w.seq
      BY <1>3, <1>4, <2>1, <2>3 DEF SameKey
    <3>2. tokened => s.log[i].seq < w.seq
      BY <1>9, <2>1, <3>1
    <3>. QED
      BY <1>3, <1>4, <1>6, <2>3, <3>1, <3>2
  <2>. QED
    BY <1>3, <2>2, <2>3
<1>11. HistoryFenceIn(t)
  <2> SUFFICES ASSUME NEW i \in 1..(n+1), NEW j \in 1..(n+1), i < j,
                      SameEpoch(t.log[i], t.log[j]), t.log[j].tokened
               PROVE  t.log[i].history = t.log[j].history
    BY <1>3 DEF HistoryFenceIn
  <2>1. i \in 1..n /\ t.log[i] = s.log[i]
    BY <1>3
  <2>2. CASE j \in 1..n
    BY <1>3, <2>1, <2>2 DEF SlotInv, HistoryFenceIn
  <2>3. CASE j = n + 1
    BY <1>3, <1>4, <1>9, <2>1, <2>3
  <2>. QED
    BY <1>3, <2>2, <2>3
<1>12. ASSUME NEW p \in Producer PROVE RemembersProducer(t, p)
  <2>1. CASE p = w.producer
    <3>1. t.producers[p] = R /\ PassedFacts(s, w, tokened, R)
      BY <1>1, <1>8, <2>1
    <3>2. R \in Record
      BY <2>1, RecordAfterType DEF R, gate
    <3>3. R # NoRecord
      BY <3>2, NoRecordAssumption
    <3>4. CASE R.opened = "AboveFloor"
      <4>1. ASSUME NEW i \in 1..(n+1), t.log[i].producer = p
            PROVE  /\ t.log[i].epoch <= R.epoch
                   /\ t.log[i].epoch = R.epoch =>
                        t.log[i].seq <= R.last_seq /\ t.log[i].history = R.history
        <5>1. CASE i \in 1..n
          <6>1. i \in DOMAIN s.log /\ t.log[i] = s.log[i] /\ s.log[i].producer = w.producer
            BY <1>3, <2>1, <4>1, <5>1
          <6>2. /\ s.log[i].epoch <= w.epoch
                /\ s.log[i].epoch = w.epoch =>
                    s.log[i].seq < w.seq /\ s.log[i].history = history
            BY <3>1, <3>4, <6>1 DEF PassedFacts
          <6>3. R.epoch = w.epoch /\ R.last_seq = w.seq /\ R.history = history
            BY <3>1 DEF PassedFacts
          <6>. QED
            BY <1>6, <1>7, <5>1, <6>1, <6>2, <6>3
        <5>2. CASE i = n + 1
          BY <1>3, <1>4, <1>6, <3>1, <5>2 DEF PassedFacts
        <5>. QED
          BY <1>3, <5>1, <5>2
      <4>. QED
        BY <1>3, <3>1, <3>3, <3>4, <4>1 DEF RemembersProducer
    <3>5. CASE R.opened # "AboveFloor"
      <4>1. ASSUME NEW i \in 1..(n+1), t.log[i].producer = p
            PROVE  t.log[i].epoch <= t.floor
        <5>1. CASE i \in 1..n
          BY <1>1, <1>3, <2>1, <3>1, <3>5, <4>1, <5>1 DEF PassedFacts
        <5>2. CASE i = n + 1
          BY <1>1, <1>3, <1>4, <3>1, <3>5, <5>2 DEF PassedFacts
        <5>. QED
          BY <1>3, <5>1, <5>2
      <4>2. R.epoch <= t.floor
        BY <1>1, <3>1, <3>5 DEF PassedFacts
      <4>. QED
        BY <1>3, <3>1, <3>5, <4>1, <4>2 DEF RemembersProducer
    <3>. QED
      BY <3>4, <3>5
  <2>2. CASE p # w.producer
    <3>1. t.producers[p] = s.producers[p] /\ t.floor = s.floor
      BY <1>1, <2>2
    <3>2. \A i \in DOMAIN t.log : t.log[i].producer = p => i \in DOMAIN s.log /\ t.log[i] = s.log[i]
      BY <1>3, <1>4, <2>2
    <3>3. RemembersProducer(s, p)
      BY DEF SlotInv
    <3>. QED
      BY <3>1, <3>2, <3>3 DEF RemembersProducer
  <2>. QED
    BY <2>1, <2>2
<1>. QED
  BY <1>10, <1>11, <1>12 DEF SlotInv, t, gate

---------------------------------------------------------------------------
(* The steps.  Each lemma says what an action makes of the stream; the     *)
(* theorems combine them.                                                  *)

LEMMA RetireSets ==
    ASSUME NEW s \in Slot, NEW now \in Clock
    PROVE  /\ \A w \in Requests : IdleOwn(s, w.producer, now) \in SUBSET Known(s)
           /\ EvictedOverCap(s, now) \in SUBSET Known(s)
           /\ TidyIdle(s, now) \in SUBSET Known(s)
<1>1. \A w \in Requests : IdleOwn(s, w.producer, now) \in SUBSET Known(s)
  BY RequestType DEF IdleOwn, Known
<1>2. EvictedOverCap(s, now) \in SUBSET Known(s)
  BY DEF EvictedOverCap
<1>3. TidyIdle(s, now) \in SUBSET Known(s)
  BY DEF TidyIdle
<1>. QED
  BY <1>1, <1>2, <1>3

LEMMA WriteLiveSlot ==
    ASSUME TypeOK, NEW now \in Clock, NEW tok, NEW w \in Requests, NEW b \in Bodies,
           WriteLive(now, tok, w, b)
    PROVE  /\ slot \in Slot /\ slot' \in Slot
           /\ SlotInv(slot) => SlotInv(slot')
           /\ slot'.created = slot.created
<1> DEFINE tokened == tok # NoToken
<1>1. slot \in Slot /\ history \in Nat /\ writes \in Nat
  BY DEF TypeOK, WriteLive
<1>2. PICK s \in Retirements(slot, IdleOwn(slot, w.producer, now)) :
        LET gate == Gate(s, w, tokened, now)
            applies == Applies(s, b, gate)
            t == IF applies THEN Applied(s, w, b, gate, tokened, now) ELSE s
            evicted == IF w.producer = NoProducer THEN {} ELSE EvictedOverCap(t, now)
        IN  slot' \in Retirements(t, evicted)
  BY DEF WriteLive
<1> DEFINE gate == Gate(s, w, tokened, now)
           t == IF Applies(s, b, gate) THEN Applied(s, w, b, gate, tokened, now) ELSE s
           evicted == IF w.producer = NoProducer THEN {} ELSE EvictedOverCap(t, now)
<1>3. s \in Slot /\ (SlotInv(slot) => SlotInv(s)) /\ s.created = slot.created
  BY <1>1, RetireSets, RetirementsEffect, RetirementsInv
<1>4. tokened \in BOOLEAN
  OBVIOUS
<1> HIDE DEF tokened
<1>5. t \in Slot /\ (SlotInv(s) => SlotInv(t)) /\ t.created = s.created
  <2>1. CASE Applies(s, b, gate)
    <3>1. gate.kind \in {"Unkeyed", "Claim", "Next"}
      BY <2>1 DEF Applies
    <3>. QED
      BY <1>1, <1>3, <1>4, <2>1, <3>1, AppliedType, AppliedInv
  <2>2. CASE ~Applies(s, b, gate)
    BY <1>3, <2>2
  <2>. QED
    BY <2>1, <2>2
<1>6. slot' \in Retirements(t, evicted)
  BY <1>2
<1> HIDE DEF t
<1>7. evicted \in SUBSET Known(t)
  BY <1>5, RetireSets
<1> HIDE DEF evicted
<1>8. slot' \in Slot /\ (SlotInv(t) => SlotInv(slot')) /\ slot'.created = t.created
  BY <1>5, <1>6, <1>7, RetirementsEffect, RetirementsInv
<1>. QED
  BY <1>1, <1>3, <1>5, <1>8

LEMMA WriteLiveReports ==
    ASSUME TypeOK, NEW now \in Clock, NEW tok, NEW w \in Requests, NEW b \in Bodies,
           WriteLive(now, tok, w, b)
    PROVE  reports' \subseteq [producer : Producer, epoch : Nat, seq : Nat, at : Nat]
<1> DEFINE tokened == tok # NoToken
<1>1. slot \in Slot /\ history \in Nat
  BY DEF TypeOK, WriteLive
<1>2. PICK s \in Retirements(slot, IdleOwn(slot, w.producer, now)) :
        reports' = reports \cup Reported(s, w, b, Gate(s, w, tokened, now))
  BY DEF WriteLive
<1> DEFINE gate == Gate(s, w, tokened, now)
<1>3. s \in Slot
  BY <1>1, RetireSets, RetirementsEffect
<1>4. IsEvaluation(gate)
  BY <1>1, <1>3, GateType
<1>5. gate.closed # NotClosed => gate.closed \in ClosedEpoch
  BY <1>4 DEF IsEvaluation
<1>6. gate.closed # NotClosed => w.producer \in Producer
  <2>1. w.producer = NoProducer => gate.closed = NotClosed
    BY DEF Gate, Unkeyed, Answer
  <2>. QED
    BY <2>1, RequestType
<1>7. Len(s.log) \in Nat
  BY <1>3 DEF Slot
<1> HIDE DEF gate
<1>8. Reported(s, w, b, gate) \subseteq [producer : Producer, epoch : Nat, seq : Nat, at : Nat]
  BY <1>5, <1>6, <1>7 DEF Reported, ClosedEpoch
<1>. QED
  BY <1>2, <1>8 DEF TypeOK, gate

LEMMA NewSlotFacts ==
    ASSUME TypeOK, NEW now \in Clock, NEW b \in Bodies, NEW ttl \in Ttls, NEW exp \in Expiries
    PROVE  /\ NextCreated(now) \in Nat /\ NextCreated(now) > last_created
           /\ NewSlot(now, b, ttl, exp) \in Slot
           /\ NewSlot(now, b, ttl, exp).created = NextCreated(now)
           /\ SlotInv(NewSlot(now, b, ttl, exp))
           /\ NewSlot(now, b, ttl, exp).producers = [p \in Producer |-> NoRecord]
           /\ NewSlot(now, b, ttl, exp).history = history
           /\ NewSlot(now, b, ttl, exp).inherited = NotInherited
<1> DEFINE empty == [created |-> NextCreated(now), closed |-> b.close, tail |-> 0,
                     last_stream_seq |-> b.stream_seq, ttl |-> ttl,
                     expires_at |-> exp, touched |-> now,
                     producers |-> [p \in Producer |-> NoRecord],
                     floor |-> Absent, history |-> history,
                     inherited |-> NotInherited, log |-> <<>>]
           e == EntryOf(empty, UnkeyedWrite, b, FALSE)
           t == NewSlot(now, b, ttl, exp)
<1>1. /\ now \in Nat /\ b.close \in BOOLEAN /\ b.stream_seq \in Int /\ b.len \in Nat
      /\ ttl \in Int /\ exp \in Int
  BY ConstantsAssumption DEF Body, Absent
<1>2. NextCreated(now) \in Nat /\ NextCreated(now) > last_created
  BY <1>1 DEF NextCreated, MaxOf, TypeOK
<1>3. empty \in Slot
  BY <1>1, <1>2 DEF Slot, TypeOK, Absent, NotInherited, Inherited
<1>4. e \in Entry /\ e.producer = NoProducer
  <2>1. e \in Entry
    BY <1>3, EntryType DEF TypeOK
  <2>. QED
    BY <2>1 DEF EntryOf, UnkeyedWrite
<1>5. /\ empty.created = NextCreated(now) /\ empty.log = <<>>
      /\ empty.producers = [p \in Producer |-> NoRecord]
      /\ empty.history = history /\ empty.inherited = NotInherited
  OBVIOUS
<1> HIDE DEF e, empty
<1>6. t = IF b.len = 0 THEN empty ELSE [empty EXCEPT !.tail = b.len, !.log = <<e>>]
  BY DEF NewSlot, e, empty
<1>7. <<e>> \in Seq(Entry)
  BY <1>4
<1>8. /\ t \in Slot /\ t.created = NextCreated(now)
      /\ t.producers = [p \in Producer |-> NoRecord]
      /\ t.history = history /\ t.inherited = NotInherited
      /\ t.log = <<>> \/ t.log = <<e>>
  BY <1>1, <1>3, <1>5, <1>6, <1>7 DEF Slot
<1>9. \A i \in DOMAIN t.log : t.log[i].producer = NoProducer
  BY <1>4, <1>8
<1>10. SlotInv(t)
  <2>1. ExactlyOnceIn(t) /\ HistoryFenceIn(t)
    BY <1>9 DEF ExactlyOnceIn, HistoryFenceIn, SameKey, SameEpoch
  <2>2. \A p \in Producer : RemembersProducer(t, p)
    BY <1>8, <1>9, ConstantsAssumption DEF RemembersProducer
  <2>. QED
    BY <2>1, <2>2 DEF SlotInv
<1>. QED
  BY <1>2, <1>8, <1>10

LEMMA TouchSlot ==
    ASSUME TypeOK, NEW now \in Clock, Touch(now)
    PROVE  /\ slot \in Slot /\ slot' \in Slot
           /\ SlotInv(slot) => SlotInv(slot')
           /\ slot'.created = slot.created /\ slot'.log = slot.log
           /\ slot'.producers = slot.producers /\ slot'.floor = slot.floor
           /\ slot'.tail = slot.tail /\ slot'.history = slot.history
           /\ slot'.inherited = slot.inherited
<1>1. slot \in Slot /\ slot' = [slot EXCEPT !.touched = Renewed(slot, now)]
  BY DEF TypeOK, Touch
<1>2. slot' \in Slot /\ slot'.created = slot.created /\ slot'.log = slot.log
      /\ slot'.producers = slot.producers /\ slot'.floor = slot.floor
      /\ slot'.tail = slot.tail /\ slot'.history = slot.history
      /\ slot'.inherited = slot.inherited
  BY <1>1, RenewedType DEF Slot
<1>3. SlotInv(slot) => SlotInv(slot')
  BY <1>2 DEF SlotInv, ExactlyOnceIn, HistoryFenceIn, RemembersProducer
<1>. QED
  BY <1>1, <1>2, <1>3

LEMMA TidySlot ==
    ASSUME TypeOK, NEW now \in Clock, Tidy(now)
    PROVE  /\ slot \in Slot /\ slot' \in Slot
           /\ SlotInv(slot) => SlotInv(slot')
           /\ slot'.created = slot.created
<1>1. slot \in Slot
  BY DEF TypeOK, Tidy
<1>2. PICK s \in Retirements(slot, TidyIdle(slot, now)) :
        slot' \in Retirements(s, EvictedOverCap(s, now))
  BY DEF Tidy
<1>3. s \in Slot /\ (SlotInv(slot) => SlotInv(s)) /\ s.created = slot.created
  BY <1>1, RetireSets, RetirementsEffect, RetirementsInv
<1>4. EvictedOverCap(s, now) \in SUBSET Known(s)
  BY <1>3, RetireSets
<1>. QED
  BY <1>1, <1>2, <1>3, <1>4, RetirementsEffect, RetirementsInv

LEMMA ObserveType ==
    ASSUME TypeOK, Observe, slot' \in Slot \cup {NoSlot}, history' \in Nat
    PROVE  minted' \subseteq Token /\ served' \subseteq Token \X Entry
<1>1. CASE slot' = NoSlot
  BY <1>1 DEF TypeOK, Observe, Rendered
<1>2. CASE slot' # NoSlot
  <2>1. slot' \in Slot
    BY <1>2
  <2>2. TokenOf(slot', history') \in Token
    BY <2>1 DEF TokenOf, Token, Slot
  <2>3. \A i \in DOMAIN slot'.log : slot'.log[i] \in Entry
    BY <2>1, LogEntry
  <2>4. Rendered(slot', history') \subseteq Token \X Entry
    BY <1>2, <2>2, <2>3 DEF Rendered
  <2>. QED
    BY <1>2, <2>2, <2>4 DEF TypeOK, Observe
<1>. QED
  BY <1>1, <1>2

(* The actions of Next, for the proofs that go through them one by one. *)
LEMMA NextCases ==
    ASSUME [Next]_vars
    PROVE  \/ \E now \in Clock : ExpireStream(now)
           \/ \E now \in Clock, tok \in minted \cup {NoToken}, w \in Requests, b \in Bodies :
                WriteLive(now, tok, w, b)
           \/ \E now \in Clock, b \in Bodies, ttl \in Ttls, exp \in Expiries :
                Create(now, b, ttl, exp)
           \/ \E now \in Clock, tok \in minted \cup {NoToken} : Delete(now, tok)
           \/ \E now \in Clock : Touch(now)
           \/ \E now \in Clock : Tidy(now)
           \/ \E now \in Clock : Genesis(now) \/ AcceptLoss(now)
           \/ CatchUp
           \/ UNCHANGED vars
BY DEF Next

LEMMA KeptSlot ==
    ASSUME TypeOK, NEW now \in Clock, Genesis(now) \/ AcceptLoss(now)
    PROVE  \E from : /\ from \in [slot : Slot \cup {NoSlot}, history : Nat, last_created : Nat]
                     /\ NewHistory(now, from)
                     /\ (from.slot = slot /\ from.last_created = last_created) \/ from = kept
BY DEF Genesis, AcceptLoss, TypeOK

LEMMA TypeInit == Init => TypeOK
BY DEF Init, TypeOK

LEMMA TypeStep ==
    ASSUME TypeOK, [Next]_vars
    PROVE  TypeOK'
<1>1. ASSUME NEW now \in Clock, ExpireStream(now) PROVE TypeOK'
  BY <1>1 DEF TypeOK, ExpireStream, Remove, Forget
<1>2. ASSUME NEW now \in Clock, NEW tok \in minted \cup {NoToken}, NEW w \in Requests,
             NEW b \in Bodies, WriteLive(now, tok, w, b)
      PROVE  TypeOK'
  <2>1. slot' \in Slot
    BY <1>2, WriteLiveSlot
  <2>2. writes' \in Nat
    BY <1>2 DEF WriteLive, TypeOK
  <2>3. UNCHANGED <<history, last_created, kept, drawn, removals>>
    BY <1>2 DEF WriteLive
  <2>4. minted' \subseteq Token /\ served' \subseteq Token \X Entry
    <3>1. history' \in Nat /\ Observe
      BY <1>2, <2>3 DEF WriteLive, TypeOK
    <3>. QED
      BY <2>1, <3>1, ObserveType
  <2>5. reports' \subseteq [producer : Producer, epoch : Nat, seq : Nat, at : Nat]
    BY <1>2, WriteLiveReports
  <2>. QED
    BY <2>1, <2>2, <2>3, <2>4, <2>5 DEF TypeOK
<1>3. ASSUME NEW now \in Clock, NEW b \in Bodies, NEW ttl \in Ttls, NEW exp \in Expiries,
             Create(now, b, ttl, exp)
      PROVE  TypeOK'
  <2>1. slot' \in Slot \cup {NoSlot}
    BY <1>3, NewSlotFacts DEF Create
  <2>2. last_created' \in Nat /\ writes' \in Nat /\ removals' \in Nat
    BY <1>3, NewSlotFacts DEF Create, MaxOf, TypeOK
  <2>3. UNCHANGED <<history, kept, drawn>> /\ reports' = {} /\ Observe
    BY <1>3 DEF Create
  <2>4. minted' \subseteq Token /\ served' \subseteq Token \X Entry
    <3>1. history' \in Nat
      BY <2>3 DEF TypeOK
    <3>. QED
      BY <2>1, <2>3, <3>1, ObserveType
  <2>. QED
    BY <2>1, <2>2, <2>3, <2>4 DEF TypeOK
<1>4. ASSUME NEW now \in Clock, NEW tok \in minted \cup {NoToken}, Delete(now, tok)
      PROVE  TypeOK'
  BY <1>4 DEF TypeOK, Delete, Remove, Forget
<1>5. ASSUME NEW now \in Clock, Touch(now) PROVE TypeOK'
  BY <1>5, TouchSlot DEF TypeOK, Touch, ghosts
<1>6. ASSUME NEW now \in Clock, Tidy(now) PROVE TypeOK'
  BY <1>6, TidySlot DEF TypeOK, Tidy, ghosts
<1>7. ASSUME NEW now \in Clock, Genesis(now) \/ AcceptLoss(now) PROVE TypeOK'
  <2>1. PICK from : /\ from \in [slot : Slot \cup {NoSlot}, history : Nat, last_created : Nat]
                    /\ NewHistory(now, from)
    BY <1>7, KeptSlot
  <2>2. now \in Nat
    BY ConstantsAssumption
  <2>3. /\ slot' \in Slot \cup {NoSlot} /\ history' \in Nat /\ drawn' \in Nat
        /\ last_created' \in Nat /\ reports' = {} /\ Observe
        /\ UNCHANGED <<kept, writes, removals>>
    BY <2>1, <2>2 DEF NewHistory, CounterRaised, TypeOK, MaxOf
  <2>4. minted' \subseteq Token /\ served' \subseteq Token \X Entry
    BY <2>3, ObserveType
  <2>. QED
    BY <2>3, <2>4 DEF TypeOK
<1>8. CASE CatchUp
  BY <1>8 DEF TypeOK, CatchUp, state, ghosts
<1>9. CASE UNCHANGED vars
  BY <1>9 DEF TypeOK, vars, state, ghosts
<1>. QED
  BY <1>1, <1>2, <1>3, <1>4, <1>5, <1>6, <1>7, <1>8, <1>9, NextCases

(* Every variable keeps its type. *)
THEOREM TypeCorrect == Spec => []TypeOK
<1>1. Init => TypeOK
  BY TypeInit
<1>2. TypeOK /\ [Next]_vars => TypeOK'
  BY TypeStep
<1>. QED
  BY <1>1, <1>2, PTL DEF Spec

LEMMA InvInit == Init => IInv
BY DEF Init, IInv

LEMMA InvStep ==
    ASSUME TypeOK, IInv, [Next]_vars
    PROVE  IInv'
<1>1. ASSUME NEW now \in Clock, ExpireStream(now) PROVE IInv'
  BY <1>1 DEF IInv, ExpireStream, Remove
<1>2. ASSUME NEW now \in Clock, NEW tok \in minted \cup {NoToken}, NEW w \in Requests,
             NEW b \in Bodies, WriteLive(now, tok, w, b)
      PROVE  IInv'
  <2>1. slot # NoSlot /\ kept' = kept
    BY <1>2 DEF WriteLive
  <2>. QED
    BY <1>2, <2>1, WriteLiveSlot DEF IInv
<1>3. ASSUME NEW now \in Clock, NEW b \in Bodies, NEW ttl \in Ttls, NEW exp \in Expiries,
             Create(now, b, ttl, exp)
      PROVE  IInv'
  <2>1. kept' = kept /\ (slot' # NoSlot => slot' = NewSlot(now, b, ttl, exp))
    BY <1>3 DEF Create
  <2>. QED
    BY <2>1, NewSlotFacts DEF IInv
<1>4. ASSUME NEW now \in Clock, NEW tok \in minted \cup {NoToken}, Delete(now, tok)
      PROVE  IInv'
  BY <1>4 DEF IInv, Delete, Remove
<1>5. ASSUME NEW now \in Clock, Touch(now) PROVE IInv'
  <2>1. slot # NoSlot /\ kept' = kept
    BY <1>5 DEF Touch
  <2>. QED
    BY <1>5, <2>1, TouchSlot DEF IInv
<1>6. ASSUME NEW now \in Clock, Tidy(now) PROVE IInv'
  <2>1. slot # NoSlot /\ kept' = kept
    BY <1>6 DEF Tidy
  <2>. QED
    BY <1>6, <2>1, TidySlot DEF IInv
<1>7. ASSUME NEW now \in Clock, Genesis(now) \/ AcceptLoss(now) PROVE IInv'
  <2>1. kept' = kept /\ (slot' = slot \/ slot' = kept.slot)
    BY <1>7 DEF Genesis, AcceptLoss, NewHistory
  <2>. QED
    BY <2>1 DEF IInv
<1>8. CASE CatchUp
  BY <1>8 DEF IInv, CatchUp, state
<1>9. CASE UNCHANGED vars
  BY <1>9 DEF IInv, vars, state
<1>. QED
  BY <1>1, <1>2, <1>3, <1>4, <1>5, <1>6, <1>7, <1>8, <1>9, NextCases

(* All a stream remembers of its producers bounds all it ever applied for  *)
(* them, in every reachable state.                                         *)
THEOREM RemembersAlways == Spec => []IInv
<1>1. Init => TypeOK /\ IInv
  BY TypeInit, InvInit
<1>2. TypeOK /\ IInv /\ [Next]_vars => TypeOK' /\ IInv'
  BY TypeStep, InvStep
<1>. QED
  BY <1>1, <1>2, PTL DEF Spec

(* A tokened write never applies a key the stream already holds. *)
THEOREM ExactlyOnceAlways == Spec => []ExactlyOnce
<1>1. IInv => ExactlyOnce
  BY DEF IInv, SlotInv, ExactlyOnce
<1>. QED
  BY <1>1, RemembersAlways, PTL

(* A tokened write never continues an epoch claimed in an earlier history. *)
THEOREM HistoryFenceAlways == Spec => []HistoryFence
<1>1. IInv => HistoryFence
  BY DEF IInv, SlotInv, HistoryFence
<1>. QED
  BY <1>1, RemembersAlways, PTL

---------------------------------------------------------------------------
(* Tokens.  A history id is drawn once, and within a history created_at    *)
(* only grows, so a token that was not the current one is new.             *)
TokenInv ==
    /\ history <= drawn
    /\ \A t \in minted : /\ t.history <= drawn
                         /\ t.history = history => t.created <= last_created
    /\ slot # NoSlot => slot.created <= last_created
    /\ kept.slot # NoSlot => kept.slot.created <= kept.last_created

TokenFresh == CurrentToken' # CurrentToken /\ slot' # NoSlot => CurrentToken' \notin minted

(* A step that leaves the token and the counters alone. *)
LEMMA SameTokenStep ==
    ASSUME TypeOK, TokenInv, slot # NoSlot, slot' # NoSlot, slot'.created = slot.created,
           UNCHANGED <<history, last_created, kept, drawn>>,
           minted' \subseteq minted \cup {TokenOf(slot', history')}
    PROVE  TokenInv' /\ TokenFresh
<1>1. TokenOf(slot', history') = TokenOf(slot, history)
  BY DEF TokenOf
<1>2. TokenFresh
  BY <1>1 DEF TokenFresh, CurrentToken
<1>3. /\ TokenOf(slot', history').history = history
      /\ TokenOf(slot', history').created = slot.created
  BY DEF TokenOf
<1>4. TokenInv'
  BY <1>3 DEF TokenInv
<1>. QED
  BY <1>2, <1>4

(* A step that removes the stream. *)
LEMMA RemoveStep ==
    ASSUME TypeOK, TokenInv, Remove
    PROVE  TokenInv' /\ TokenFresh
BY DEF Remove, TokenInv, TokenFresh

LEMMA CreateStep ==
    ASSUME TypeOK, TokenInv, NEW now \in Clock, NEW b \in Bodies, NEW ttl \in Ttls,
           NEW exp \in Expiries, Create(now, b, ttl, exp)
    PROVE  TokenInv' /\ TokenFresh
<1> DEFINE created == NextCreated(now)
<1>1. UNCHANGED <<history, kept, drawn>> /\ Observe
  BY DEF Create
<1>2. /\ created \in Nat /\ created > last_created
      /\ NewSlot(now, b, ttl, exp).created = created
  BY NewSlotFacts
<1>3. /\ last_created \in Nat /\ history \in Nat /\ drawn \in Nat
      /\ \A t \in minted : t.history \in Nat /\ t.created \in Nat
  BY DEF TypeOK, Token
<1> HIDE DEF created
<1>4. CASE slot' = NoSlot
  <2>1. last_created' = last_created \/ last_created' = MaxOf(last_created, created)
    BY DEF Create, created
  <2>2. last_created' \in Nat /\ last_created <= last_created'
    BY <1>2, <1>3, <2>1 DEF MaxOf
  <2>3. minted' = minted
    BY <1>1, <1>4 DEF Observe
  <2>4. TokenInv'
    BY <1>1, <1>3, <1>4, <2>2, <2>3 DEF TokenInv
  <2>. QED
    BY <1>4, <2>4 DEF TokenFresh
<1>5. CASE slot' # NoSlot
  <2>1. slot' = NewSlot(now, b, ttl, exp) /\ last_created' = MaxOf(last_created, created)
    BY <1>5 DEF Create, created
  <2>2. slot'.created = created /\ last_created' = created
    BY <1>2, <1>3, <2>1 DEF MaxOf
  <2>3. /\ TokenOf(slot', history').created = created
        /\ TokenOf(slot', history').history = history
    BY <1>1, <2>2 DEF TokenOf
  <2>4. minted' = minted \cup {TokenOf(slot', history')}
    BY <1>1, <1>5 DEF Observe
  <2>5. \A t \in minted' : t.history <= drawn /\ (t.history = history => t.created <= created)
    <3>1. ASSUME NEW t \in minted
          PROVE  t.history <= drawn /\ (t.history = history => t.created <= created)
      BY <1>2, <1>3 DEF TokenInv
    <3>2. history <= drawn /\ created <= created
      BY <1>2 DEF TokenInv
    <3>. QED
      BY <2>3, <2>4, <3>1, <3>2
  <2>6. TokenInv'
    BY <1>1, <1>2, <2>2, <2>5 DEF TokenInv
  <2>7. TokenOf(slot', history') \notin minted
    BY <1>2, <1>3, <2>3 DEF TokenInv
  <2>. QED
    BY <1>5, <2>6, <2>7 DEF TokenFresh, CurrentToken
<1>. QED
  BY <1>4, <1>5

LEMMA NewHistoryStep ==
    ASSUME TypeOK, TokenInv, NEW now \in Clock, Genesis(now) \/ AcceptLoss(now)
    PROVE  TokenInv' /\ TokenFresh
<1>1. PICK from : /\ from \in [slot : Slot \cup {NoSlot}, history : Nat, last_created : Nat]
                  /\ NewHistory(now, from)
                  /\ (from.slot = slot /\ from.last_created = last_created) \/ from = kept
  BY KeptSlot
<1>2. from.slot # NoSlot => from.slot.created <= from.last_created
  BY <1>1 DEF TokenInv
<1>3. /\ slot' = from.slot /\ history' = drawn + 1 /\ drawn' = drawn + 1
      /\ last_created' = MaxOf(from.last_created, now) /\ kept' = kept /\ Observe
  BY <1>1 DEF NewHistory, CounterRaised
<1>4. /\ now \in Nat /\ drawn \in Nat
      /\ \A t \in minted : t.history \in Nat /\ t.created \in Nat
  BY ConstantsAssumption DEF TypeOK, Token
<1>5. from.last_created \in Nat /\ (from.slot # NoSlot => from.slot.created \in Nat)
  BY <1>1 DEF Slot
<1>6. slot' # NoSlot => slot'.created <= last_created'
  BY <1>2, <1>3, <1>4, <1>5 DEF MaxOf
<1>7. \A t \in minted : t.history <= drawn
  BY DEF TokenInv
<1>8. \A t \in minted : t.history <= drawn + 1 /\ t.history # drawn + 1
  BY <1>4, <1>7
<1>9. slot' # NoSlot => /\ TokenOf(slot', history').history = drawn + 1
                        /\ TokenOf(slot', history').created = slot'.created
  BY <1>3 DEF TokenOf
<1>10. minted' \subseteq minted \cup {TokenOf(slot', history')}
       /\ (slot' = NoSlot => minted' = minted)
  BY <1>3 DEF Observe
<1>11. \A t \in minted' : t.history <= drawn' /\ (t.history = history' => t.created <= last_created')
  BY <1>3, <1>4, <1>6, <1>8, <1>9, <1>10
<1>12. TokenInv'
  BY <1>3, <1>4, <1>6, <1>11 DEF TokenInv
<1>13. TokenFresh
  BY <1>8, <1>9 DEF TokenFresh, CurrentToken
<1>. QED
  BY <1>12, <1>13

LEMMA TokenStep ==
    ASSUME TypeOK, TokenInv, [Next]_vars
    PROVE  TokenInv' /\ TokenFresh
<1>1. ASSUME NEW now \in Clock, ExpireStream(now) PROVE TokenInv' /\ TokenFresh
  BY <1>1, RemoveStep DEF ExpireStream
<1>2. ASSUME NEW now \in Clock, NEW tok \in minted \cup {NoToken}, NEW w \in Requests,
             NEW b \in Bodies, WriteLive(now, tok, w, b)
      PROVE  TokenInv' /\ TokenFresh
  <2>1. slot # NoSlot /\ slot' \in Slot /\ slot'.created = slot.created
    BY <1>2, WriteLiveSlot DEF WriteLive
  <2>2. UNCHANGED <<history, last_created, kept, drawn>> /\ Observe
    BY <1>2 DEF WriteLive
  <2>. QED
    BY <2>1, <2>2, SameTokenStep, SentinelAssumption DEF Observe
<1>3. ASSUME NEW now \in Clock, NEW b \in Bodies, NEW ttl \in Ttls, NEW exp \in Expiries,
             Create(now, b, ttl, exp)
      PROVE  TokenInv' /\ TokenFresh
  BY <1>3, CreateStep
<1>4. ASSUME NEW now \in Clock, NEW tok \in minted \cup {NoToken}, Delete(now, tok)
      PROVE  TokenInv' /\ TokenFresh
  BY <1>4, RemoveStep DEF Delete
<1>5. ASSUME NEW now \in Clock, Touch(now) PROVE TokenInv' /\ TokenFresh
  BY <1>5, TouchSlot, SameTokenStep, SentinelAssumption DEF Touch, ghosts
<1>6. ASSUME NEW now \in Clock, Tidy(now) PROVE TokenInv' /\ TokenFresh
  BY <1>6, TidySlot, SameTokenStep, SentinelAssumption DEF Tidy, ghosts
<1>7. ASSUME NEW now \in Clock, Genesis(now) \/ AcceptLoss(now) PROVE TokenInv' /\ TokenFresh
  BY <1>7, NewHistoryStep
<1>8. CASE CatchUp
  BY <1>8 DEF TokenInv, TokenFresh, CurrentToken, CatchUp, state, ghosts
<1>9. CASE UNCHANGED vars
  BY <1>9 DEF TokenInv, TokenFresh, CurrentToken, vars, state, ghosts
<1>. QED
  BY <1>1, <1>2, <1>3, <1>4, <1>5, <1>6, <1>7, <1>8, <1>9, NextCases

(* A token names one incarnation in one history for ever: whenever the     *)
(* stream's token changes, no response ever rendered the new one.          *)
THEOREM TokensUnique == Spec => TokenNeverReused
<1>1. Init => TypeOK /\ TokenInv
  BY TypeInit DEF Init, TokenInv
<1>2. TypeOK /\ TokenInv /\ [Next]_vars => TypeOK' /\ TokenInv'
  BY TypeStep, TokenStep
<1>3. TypeOK /\ TokenInv /\ [Next]_vars => [TokenFresh]_vars
  BY TokenStep
<1>4. TokenNeverReused <=> [][TokenFresh]_vars
  BY DEF TokenNeverReused, TokenFresh
<1>. QED
  BY <1>1, <1>2, <1>3, <1>4, PTL DEF Spec
============================================================================

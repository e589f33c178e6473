------------------------ MODULE KeyedAnswersProofs ------------------------
(* What the answers of the producer protocol promise, proved for every     *)
(* value of the constants of KeyedWrites.                                  *)
EXTENDS KeyedWritesProofs

---------------------------------------------------------------------------
(* Every refusal has a way out. *)

Escapable(r, f, h, key, tokened) ==
    LET answer == Evaluate(r, f, h, key, tokened)
        Kind(epoch, seq) ==
            Evaluate(r, f, h, [epoch |-> epoch, seq |-> seq, digest |-> key.digest], tokened).kind
    IN  /\ answer.kind \in {"Expired", "EpochClosed", "StaleEpoch"}
              => Kind(answer.epoch + 1, 0) = "Claim"
        /\ answer.kind = "EpochNotClaimed" => Kind(key.epoch, 0) = "Claim"
        /\ answer.kind = "SeqGap" => Kind(key.epoch, answer.epoch) \in {"Claim", "Next"}

(* The table alone: a record that bounds what the stream remembers. *)
LEMMA TableEscapable ==
    ASSUME NEW r \in Record \cup {NoRecord}, NEW f \in Int, NEW h \in Nat,
           NEW key \in Key, NEW tokened \in BOOLEAN,
           r # NoRecord /\ r.opened # "AboveFloor" => r.epoch <= f
    PROVE  Escapable(r, f, h, key, tokened)
<1> DEFINE answer == Evaluate(r, f, h, key, tokened)
           other(epoch, seq) == [epoch |-> epoch, seq |-> seq, digest |-> key.digest]
           Kind(epoch, seq) == Evaluate(r, f, h, other(epoch, seq), tokened).kind
<1> SUFFICES /\ answer.kind \in {"Expired", "EpochClosed", "StaleEpoch"}
                   => Kind(answer.epoch + 1, 0) = "Claim"
             /\ answer.kind = "EpochNotClaimed" => Kind(key.epoch, 0) = "Claim"
             /\ answer.kind = "SeqGap" => Kind(key.epoch, answer.epoch) \in {"Claim", "Next"}
  BY DEF Escapable
<1>1. key.epoch \in Nat /\ key.seq \in Nat
  BY DEF Key
<1>2. CASE r = NoRecord
  <2>1. /\ answer = EvaluateNew(f, key, tokened)
        /\ \A e, q \in Int : Kind(e, q) = EvaluateNew(f, other(e, q), tokened).kind
    BY <1>2 DEF Evaluate
  <2>2. answer.kind # "Expired" \/ answer.epoch = f
    BY <2>1 DEF EvaluateNew, Answer, Claim
  <2>3. answer.kind \notin {"EpochClosed", "StaleEpoch", "EpochNotClaimed"}
    BY <2>1 DEF EvaluateNew, Answer, Claim
  <2>4. answer.kind = "SeqGap" => answer.epoch = 0 /\ ~(tokened /\ key.epoch <= f)
    BY <2>1 DEF EvaluateNew, Answer, Claim
  <2>5. \A e \in Int : ~(tokened /\ e <= f) => Kind(e, 0) = "Claim"
    BY <2>1 DEF EvaluateNew, Claim
  <2>. QED
    BY <1>1, <2>2, <2>3, <2>4, <2>5
<1>3. CASE r # NoRecord
  <2>1. r.epoch \in Nat /\ r.last_seq \in Nat /\ r.opened \in Opened
    BY <1>3 DEF Record
  <2> DEFINE forgotten(e, q) ==
               tokened /\ r.opened = "BelowFloor" /\ f # Absent
               /\ ~(q = 0 /\ e > r.epoch /\ e > f)
  <2>2. \A e, q \in Int : ReachesForgotten(r, f, other(e, q), tokened) <=> forgotten(e, q)
    BY DEF ReachesForgotten
  <2>3. ReachesForgotten(r, f, key, tokened) <=> forgotten(key.epoch, key.seq)
    BY DEF ReachesForgotten
  <2>4. \A e \in Int : e > r.epoch /\ ~forgotten(e, 0) => Kind(e, 0) = "Claim"
    <3> SUFFICES ASSUME NEW e \in Int, e > r.epoch, ~forgotten(e, 0) PROVE Kind(e, 0) = "Claim"
      OBVIOUS
    <3>1. Evaluate(r, f, h, other(e, 0), tokened) = EvaluateLater(r, f, other(e, 0))
      BY <1>3, <2>1, <2>2 DEF Evaluate
    <3>. QED
      BY <3>1 DEF EvaluateLater, Claim
  <2>5. CASE forgotten(key.epoch, key.seq)
    <3>1. answer.kind = "Expired" /\ answer.epoch = f
      BY <1>3, <2>3, <2>5 DEF Evaluate, Answer
    <3>2. f + 1 > r.epoch /\ ~forgotten(f + 1, 0)
      BY <1>3, <2>1, <2>5
    <3>. QED
      BY <2>4, <3>1, <3>2
  <2>6. CASE ~forgotten(key.epoch, key.seq) /\ key.epoch < r.epoch
    <3>1. answer = EvaluateOlder(r, key)
      BY <1>3, <2>3, <2>6 DEF Evaluate
    <3>2. answer.kind \in {"EpochClosed", "StaleEpoch"} /\ answer.epoch = r.epoch
      BY <3>1 DEF EvaluateOlder, Answer
    <3>3. ~forgotten(r.epoch + 1, 0)
      BY <1>1, <2>1, <2>6
    <3>. QED
      BY <2>1, <2>4, <3>2, <3>3
  <2>7. CASE ~forgotten(key.epoch, key.seq) /\ key.epoch > r.epoch
    <3>1. answer = EvaluateLater(r, f, key)
      BY <1>1, <1>3, <2>1, <2>3, <2>7 DEF Evaluate
    <3>2. answer.kind \in {"EpochNotClaimed", "Claim"}
          /\ (answer.kind = "EpochNotClaimed" => key.seq # 0)
      BY <3>1 DEF EvaluateLater, Answer, Claim
    <3>3. key.seq # 0 => ~forgotten(key.epoch, 0)
      BY <1>1, <2>1, <2>7
    <3>. QED
      BY <1>1, <2>4, <2>7, <3>2, <3>3
  <2>8. CASE ~forgotten(key.epoch, key.seq) /\ key.epoch = r.epoch
    <3>1. answer = EvaluateCurrent(r, h, key)
      BY <1>1, <1>3, <2>1, <2>3, <2>8 DEF Evaluate
    <3>2. /\ answer.kind \in {"KeyConflict", "Repeat", "Evicted", "EpochClosed", "Next", "SeqGap"}
          /\ answer.kind = "EpochClosed" => answer.epoch = r.epoch
          /\ answer.kind = "SeqGap" => answer.epoch = r.last_seq + 1 /\ ~HistoryFenced(r, h)
      BY <3>1 DEF EvaluateCurrent, Answer
    <3>3. answer.kind = "EpochClosed" => ~forgotten(r.epoch + 1, 0)
      BY <1>1, <2>1, <2>8
    <3>4. ASSUME ~HistoryFenced(r, h) PROVE Kind(key.epoch, r.last_seq + 1) = "Next"
      <4>1. ~forgotten(key.epoch, r.last_seq + 1)
        BY <1>1, <2>1, <2>8
      <4>2. Evaluate(r, f, h, other(key.epoch, r.last_seq + 1), tokened)
              = EvaluateCurrent(r, h, other(key.epoch, r.last_seq + 1))
        BY <1>1, <1>3, <2>1, <2>2, <2>8, <4>1 DEF Evaluate
      <4>. QED
        BY <2>1, <3>4, <4>2 DEF EvaluateCurrent, DigestConflicts, Answer
    <3>. QED
      BY <2>1, <2>4, <3>2, <3>3, <3>4
  <2>. QED
    BY <1>1, <2>1, <2>5, <2>6, <2>7, <2>8
<1>. QED
  BY <1>2, <1>3

(* A producer that is refused can go on: the epoch above the one a refusal *)
(* names can be claimed and the seq it expects applies, whatever was       *)
(* retired, evicted or lost before (producer_record.rs, evaluate).         *)
THEOREM RefusalEscapableAlways == Spec => []RefusalEscapable
<1>1. TypeOK /\ IInv => RefusalEscapable
  <2> SUFFICES ASSUME TypeOK, IInv, slot # NoSlot,
                      NEW p \in Producer, NEW key \in Keys, NEW tokened \in BOOLEAN
               PROVE  Escapable(slot.producers[p], slot.floor, history, key, tokened)
    BY DEF RefusalEscapable, Escapable, Evaluated
  <2>1. slot \in Slot /\ history \in Nat /\ key \in Key
    BY ConstantsAssumption DEF TypeOK, Keys, Key
  <2>2. slot.producers[p] \in Record \cup {NoRecord} /\ slot.floor \in Int
    BY <2>1 DEF Slot
  <2>3. RemembersProducer(slot, p)
    BY DEF IInv, SlotInv
  <2>4. slot.producers[p] # NoRecord /\ slot.producers[p].opened # "AboveFloor"
          => slot.producers[p].epoch <= slot.floor
    BY <2>3 DEF RemembersProducer
  <2>. QED
    BY <2>1, <2>2, <2>4, TableEscapable
<1>. QED
  BY <1>1, TypeCorrect, RemembersAlways, PTL

---------------------------------------------------------------------------
(* The steps of a stream, as the proofs below use them. *)

(* A write on a live stream: idle records are retired, the write applies   *)
(* or not, and records over the cap are retired.                           *)
WriteShape(now, tokened, w, b, s, t, V, E) ==
    /\ s \in Slot /\ t \in Slot
    /\ V \in SUBSET Known(slot) /\ s \in Retirements(slot, V)
    /\ E \in SUBSET Known(t) /\ slot' \in Retirements(t, E)
    /\ LET gate == Gate(s, w, tokened, now)
       IN  /\ IF Applies(s, b, gate)
              THEN /\ gate.kind \in {"Unkeyed", "Claim", "Next"}
                   /\ t = Applied(s, w, b, gate, tokened, now)
              ELSE t = s
           /\ reports' = reports \cup Reported(s, w, b, gate)
    /\ E = IF w.producer = NoProducer THEN {} ELSE EvictedOverCap(t, now)

LEMMA WriteLiveShape ==
    ASSUME TypeOK, NEW now \in Clock, NEW tok, NEW w \in Requests, NEW b \in Bodies,
           WriteLive(now, tok, w, b)
    PROVE  /\ slot \in Slot /\ slot # NoSlot /\ slot' \in Slot /\ slot' # NoSlot
           /\ history' = history /\ kept' = kept
           /\ \E s, t, V, E : WriteShape(now, tok # NoToken, w, b, s, t, V, E)
<1> DEFINE tokened == tok # NoToken
           V == IdleOwn(slot, w.producer, now)
<1>1. slot \in Slot /\ history \in Nat /\ writes \in Nat /\ slot' \in Slot
  BY WriteLiveSlot DEF TypeOK, WriteLive
<1>2. PICK s \in Retirements(slot, V) :
        LET gate == Gate(s, w, tokened, now)
            applies == Applies(s, b, gate)
            t == IF applies THEN Applied(s, w, b, gate, tokened, now) ELSE s
            evicted == IF w.producer = NoProducer THEN {} ELSE EvictedOverCap(t, now)
        IN  slot' \in Retirements(t, evicted) /\ reports' = reports \cup Reported(s, w, b, gate)
  BY DEF WriteLive
<1> DEFINE gate == Gate(s, w, tokened, now)
           t == IF Applies(s, b, gate) THEN Applied(s, w, b, gate, tokened, now) ELSE s
           E == IF w.producer = NoProducer THEN {} ELSE EvictedOverCap(t, now)
<1>3. V \in SUBSET Known(slot) /\ s \in Slot
  BY <1>1, RetireSets, RetirementsEffect
<1>4. tokened \in BOOLEAN
  OBVIOUS
<1> HIDE DEF tokened, V
<1>5. t \in Slot /\ (Applies(s, b, gate) => gate.kind \in {"Unkeyed", "Claim", "Next"})
  <2>1. CASE Applies(s, b, gate)
    <3>1. gate.kind \in {"Unkeyed", "Claim", "Next"}
      BY <2>1 DEF Applies
    <3>. QED
      BY <1>1, <1>3, <1>4, <2>1, <3>1, AppliedType
  <2>2. CASE ~Applies(s, b, gate)
    BY <1>3, <2>2
  <2>. QED
    BY <2>1, <2>2
<1>6. slot' \in Retirements(t, E) /\ reports' = reports \cup Reported(s, w, b, gate)
  BY <1>2
<1>7. E \in SUBSET Known(t)
  <2> HIDE DEF t
  <2>. QED
    BY <1>5, RetireSets
<1>8. WriteShape(now, tokened, w, b, s, t, V, E)
  <2> HIDE DEF E
  <2>1. Applies(s, b, gate) => t = Applied(s, w, b, gate, tokened, now)
    OBVIOUS
  <2>2. ~Applies(s, b, gate) => t = s
    OBVIOUS
  <2> HIDE DEF t
  <2>3. E = IF w.producer = NoProducer THEN {} ELSE EvictedOverCap(t, now)
    BY DEF E, t
  <2>. QED
    BY <1>2, <1>3, <1>5, <1>6, <1>7, <2>1, <2>2, <2>3 DEF WriteShape
<1>9. slot # NoSlot /\ slot' # NoSlot /\ history' = history /\ kept' = kept
  BY <1>1, SentinelAssumption DEF WriteLive
<1>. QED
  BY <1>1, <1>8, <1>9 DEF tokened

(* Tidying retires twice. *)
LEMMA TidyShape ==
    ASSUME TypeOK, NEW now \in Clock, Tidy(now)
    PROVE  /\ slot \in Slot /\ slot # NoSlot /\ slot' \in Slot /\ slot' # NoSlot
           /\ history' = history /\ kept' = kept /\ reports' = reports
           /\ \E s \in Slot : \E V, E : /\ V \in SUBSET Known(slot) /\ s \in Retirements(slot, V)
                                        /\ E \in SUBSET Known(s) /\ slot' \in Retirements(s, E)
<1>1. slot \in Slot /\ slot' \in Slot /\ slot # NoSlot
  BY TidySlot DEF Tidy
<1>2. PICK s \in Retirements(slot, TidyIdle(slot, now)) :
        slot' \in Retirements(s, EvictedOverCap(s, now))
  BY DEF Tidy
<1>3. TidyIdle(slot, now) \in SUBSET Known(slot) /\ s \in Slot
  BY <1>1, <1>2, RetireSets, RetirementsEffect
<1>4. EvictedOverCap(s, now) \in SUBSET Known(s)
  BY <1>3, RetireSets
<1>5. history' = history /\ kept' = kept /\ reports' = reports
  BY DEF Tidy, ghosts
<1>. QED
  BY <1>1, <1>2, <1>3, <1>4, <1>5, SentinelAssumption

(* What a write that passes the gate makes of its producer's record. *)
Passes(s, w, b, tokened, r, R) ==
    /\ R.epoch = w.epoch /\ R.last_seq = w.seq /\ R.digest = w.digest
    /\ R.receipt.start = s.tail /\ R.receipt.next = s.tail + b.len /\ R.history = history
    /\ \/ /\ w.seq = 0 /\ R.claim_digest = w.digest
          /\ r = NoRecord \/ (r.opened # "AboveFloor" /\ w.epoch > r.epoch)
          /\ R.closed_epoch = NotClosed /\ R.opened = OpenedAt(s.floor, w.epoch)
          /\ ~(tokened /\ w.epoch <= s.floor)
       \/ /\ w.seq = 0 /\ R.claim_digest = w.digest
          /\ r # NoRecord /\ r.opened = "AboveFloor" /\ w.epoch > r.epoch
          /\ R.closed_epoch = [epoch |-> r.epoch, seq |-> r.last_seq]
          /\ R.opened = "AboveFloor"
       \/ /\ r # NoRecord /\ w.epoch = r.epoch /\ w.seq = r.last_seq + 1
          /\ r.history = history
          /\ R.closed_epoch = r.closed_epoch /\ R.claim_digest = r.claim_digest
          /\ R.opened = r.opened
          /\ ~(tokened /\ r.opened = "BelowFloor" /\ s.floor # Absent)

LEMMA GatePasses ==
    ASSUME NEW s \in Slot, NEW w \in Requests, NEW b \in Bodies, NEW tokened \in BOOLEAN,
           NEW now \in Clock, w.producer \in Producer, history \in Nat, SlotInv(s),
           Gate(s, w, tokened, now).kind \in {"Unkeyed", "Claim", "Next"}
    PROVE  Passes(s, w, b, tokened, s.producers[w.producer],
                  RecordAfter(s, w, b, Gate(s, w, tokened, now), now))
<1> DEFINE gate == Gate(s, w, tokened, now)
           r == s.producers[w.producer]
           R == RecordAfter(s, w, b, gate, now)
           receipt == [start |-> s.tail, next |-> s.tail + b.len, closed |-> b.close]
<1>1. /\ gate = Evaluate(r, s.floor, history, KeyOf(w), tokened)
      /\ gate.kind \in {"Claim", "Next"}
  BY GateIsEvaluate
<1>2. w.epoch \in Nat /\ w.seq \in Nat /\ s.floor \in Int
  BY RequestType DEF Key, KeyOf, Slot
<1>3. KeyOf(w).epoch = w.epoch /\ KeyOf(w).seq = w.seq /\ KeyOf(w).digest = w.digest
  BY DEF KeyOf
<1>4. r # NoRecord => r \in Record /\ r.epoch \in Nat /\ r.last_seq \in Nat /\ r.opened \in Opened
  BY DEF Slot, Record
<1>r. r # NoRecord /\ r.opened # "AboveFloor" => r.epoch <= s.floor
  BY DEF SlotInv, RemembersProducer
<1>5. gate.kind = "Claim" =>
        /\ R.epoch = w.epoch /\ R.last_seq = w.seq /\ R.digest = w.digest
        /\ R.receipt = receipt /\ R.claim_digest = w.digest
        /\ R.closed_epoch = gate.closed /\ R.opened = gate.opened /\ R.history = history
  BY <1>3 DEF RecordAfter, Claimed
<1>6. gate.kind = "Next" /\ r # NoRecord =>
        /\ R.epoch = r.epoch /\ R.last_seq = w.seq /\ R.digest = w.digest
        /\ R.receipt = receipt /\ R.claim_digest = r.claim_digest
        /\ R.closed_epoch = r.closed_epoch /\ R.opened = r.opened /\ R.history = r.history
  BY <1>3, <1>4 DEF RecordAfter, Advanced, Record
<1>7. receipt.start = s.tail /\ receipt.next = s.tail + b.len
  OBVIOUS
<1> HIDE DEF R, receipt
<1>8. CASE r = NoRecord
  <2>1. gate = EvaluateNew(s.floor, KeyOf(w), tokened)
    BY <1>1, <1>8 DEF Evaluate
  <2>2. /\ gate.kind = "Claim" /\ gate.closed = NotClosed /\ w.seq = 0
        /\ gate.opened = OpenedAt(s.floor, w.epoch) /\ ~(tokened /\ w.epoch <= s.floor)
    BY <1>1, <1>3, <2>1 DEF EvaluateNew, Answer, Claim
  <2>. QED
    BY <1>5, <1>7, <1>8, <2>2 DEF Passes, R
<1>9. CASE r # NoRecord
  <2>1. ~ReachesForgotten(r, s.floor, KeyOf(w), tokened)
    BY <1>1, <1>9 DEF Evaluate, Answer
  <2>2. ~(w.epoch < r.epoch)
    BY <1>1, <1>3, <1>9, <2>1 DEF Evaluate, EvaluateOlder, Answer
  <2>3. CASE w.epoch > r.epoch
    <3>1. gate = EvaluateLater(r, s.floor, KeyOf(w))
      BY <1>1, <1>2, <1>3, <1>4, <1>9, <2>1, <2>3 DEF Evaluate
    <3>2. /\ gate.kind = "Claim" /\ w.seq = 0
          /\ IF r.opened = "AboveFloor"
             THEN /\ gate.closed = [epoch |-> r.epoch, seq |-> r.last_seq]
                  /\ gate.opened = "AboveFloor"
             ELSE gate.closed = NotClosed /\ gate.opened = OpenedAt(s.floor, w.epoch)
      BY <1>1, <1>3, <3>1 DEF EvaluateLater, Answer, Claim
    <3>3. r.opened # "AboveFloor" => ~(tokened /\ w.epoch <= s.floor)
      BY <1>2, <1>3, <1>4, <1>9, <2>1 DEF ReachesForgotten, Opened, Absent
    <3>. QED
      BY <1>5, <1>7, <1>9, <2>3, <3>2, <3>3 DEF Passes, R
  <2>4. CASE w.epoch = r.epoch
    <3>1. gate = EvaluateCurrent(r, history, KeyOf(w))
      BY <1>1, <1>2, <1>3, <1>4, <1>9, <2>1, <2>4 DEF Evaluate
    <3>2. gate.kind = "Next" /\ w.seq = r.last_seq + 1 /\ r.history = history
      BY <1>1, <1>3, <3>1 DEF EvaluateCurrent, Answer, HistoryFenced
    <3>3. ~(tokened /\ r.opened = "BelowFloor" /\ s.floor # Absent)
      BY <1>2, <1>3, <1>4, <1>9, <2>1, <2>4 DEF ReachesForgotten
    <3>. QED
      BY <1>6, <1>7, <1>9, <2>4, <3>2, <3>3 DEF Passes, R
  <2>. QED
    BY <1>2, <1>4, <1>9, <2>2, <2>3, <2>4
<1>. QED
  BY <1>8, <1>9

---------------------------------------------------------------------------
(* Records attest what the stream holds: every seq up to the record's, and *)
(* under its newest seq the write its receipt describes.                   *)

Attested(s, p, epoch, seq) ==
    \E i \in DOMAIN s.log :
        s.log[i].producer = p /\ s.log[i].epoch = epoch /\ s.log[i].seq = seq

Newest(s, p, r) ==
    \E i \in DOMAIN s.log :
        /\ s.log[i].producer = p /\ s.log[i].epoch = r.epoch /\ s.log[i].seq = r.last_seq
        /\ s.log[i].digest = r.digest
        /\ s.log[i].start = r.receipt.start /\ s.log[i].next = r.receipt.next

Attests(s, p) ==
    LET r == s.producers[p]
    IN  r # NoRecord =>
        /\ \A q \in 0..r.last_seq : Attested(s, p, r.epoch, q)
        /\ Newest(s, p, r)
        /\ r.last_seq = 0 => r.claim_digest = r.digest
        /\ r.closed_epoch.epoch < r.epoch
        /\ r.opened = "BelowFloor" => r.closed_epoch = NotClosed

AttestsAll(s) == \A p \in Producer : Attests(s, p)

AttestInv ==
    /\ slot # NoSlot => AttestsAll(slot)
    /\ kept.slot # NoSlot => AttestsAll(kept.slot)

(* A stream with the same log and no other records attests as much. *)
LEMMA AttestsFewer ==
    ASSUME NEW s, NEW t, AttestsAll(s), t.log = s.log,
           \A p \in Producer : t.producers[p] \in {NoRecord, s.producers[p]}
    PROVE  AttestsAll(t)
<1> SUFFICES ASSUME NEW p \in Producer PROVE Attests(t, p)
  BY DEF AttestsAll
<1>1. Attests(s, p)
  BY DEF AttestsAll
<1>2. CASE t.producers[p] = NoRecord
  BY <1>2 DEF Attests
<1>3. CASE t.producers[p] = s.producers[p]
  BY <1>1, <1>3 DEF Attests, Attested, Newest
<1>. QED
  BY <1>2, <1>3

LEMMA AttestsRetired ==
    ASSUME NEW s \in Slot, NEW V \in SUBSET Known(s), NEW t \in Retirements(s, V), AttestsAll(s)
    PROVE  AttestsAll(t)
<1>1. t.log = s.log /\ \A p \in Producer : t.producers[p] \in {NoRecord, s.producers[p]}
  BY RetirementsEffect
<1>. QED
  BY <1>1, AttestsFewer

LEMMA AttestsApplied ==
    ASSUME NEW s \in Slot, NEW w \in Requests, NEW b \in Bodies, NEW tokened \in BOOLEAN,
           NEW now \in Clock, history \in Nat, writes \in Nat, SlotInv(s), AttestsAll(s),
           Gate(s, w, tokened, now).kind \in {"Unkeyed", "Claim", "Next"}
    PROVE  AttestsAll(Applied(s, w, b, Gate(s, w, tokened, now), tokened, now))
<1> DEFINE gate == Gate(s, w, tokened, now)
           R == RecordAfter(s, w, b, gate, now)
           e == EntryOf(s, w, b, tokened)
           t == Applied(s, w, b, gate, tokened, now)
           n == Len(s.log)
<1>1. /\ t.log = Append(s.log, e)
      /\ \A p \in Producer : t.producers[p] = IF p = w.producer THEN R ELSE s.producers[p]
  BY AppliedType
<1>2. s.log \in Seq(Entry) /\ e \in Entry
  BY EntryType DEF Slot
<1>3. /\ e.producer = w.producer /\ e.epoch = w.epoch /\ e.seq = w.seq /\ e.digest = w.digest
      /\ e.start = s.tail /\ e.next = s.tail + b.len
  BY DEF EntryOf
<1> HIDE DEF t, e
<1>4. /\ DOMAIN t.log = 1..(n + 1) /\ DOMAIN s.log = 1..n /\ n \in Nat
      /\ t.log[n + 1] = e /\ \A i \in 1..n : t.log[i] = s.log[i]
  BY <1>1, <1>2
<1>5. \A p, epoch, seq : Attested(s, p, epoch, seq) => Attested(t, p, epoch, seq)
  BY <1>4 DEF Attested
<1>6. \A p, r : Newest(s, p, r) => Newest(t, p, r)
  BY <1>4 DEF Newest
<1> SUFFICES ASSUME NEW p \in Producer PROVE Attests(t, p)
  BY DEF AttestsAll, t
<1>7. Attests(s, p)
  BY DEF AttestsAll
<1>8. CASE p # w.producer
  <2>1. t.producers[p] = s.producers[p]
    BY <1>1, <1>8
  <2>. QED
    BY <1>5, <1>6, <1>7, <2>1 DEF Attests
<1>9. CASE p = w.producer
  <2> DEFINE r == s.producers[p]
  <2>1. t.producers[p] = R
    BY <1>1, <1>9
  <2>2. Passes(s, w, b, tokened, r, R)
    BY <1>9, GatePasses
  <2>3. R \in Record /\ w.epoch \in Nat /\ w.seq \in Nat
    BY <1>9, RecordAfterType, RequestType DEF Key, KeyOf
  <2>4. r # NoRecord => r \in Record /\ r.epoch \in Nat /\ r.last_seq \in Nat
    BY DEF Slot, Record
  <2> HIDE DEF R, r
  <2>5. Newest(t, p, R) /\ Attested(t, p, R.epoch, R.last_seq)
    BY <1>3, <1>4, <1>9, <2>2 DEF Passes, Newest, Attested
  <2>6. \A q \in 0..R.last_seq : Attested(t, p, R.epoch, q)
    <3> SUFFICES ASSUME NEW q \in 0..R.last_seq PROVE Attested(t, p, R.epoch, q)
      OBVIOUS
    <3>1. CASE q = R.last_seq
      BY <2>5, <3>1
    <3>2. CASE q # R.last_seq
      <4>1. r # NoRecord /\ w.epoch = r.epoch /\ w.seq = r.last_seq + 1
        BY <2>2, <2>3, <3>2 DEF Passes
      <4>2. q \in 0..r.last_seq /\ R.epoch = r.epoch
        BY <2>2, <2>3, <2>4, <3>2, <4>1 DEF Passes
      <4>. QED
        BY <1>5, <1>7, <4>1, <4>2 DEF Attests, r
    <3>. QED
      BY <3>1, <3>2
  <2>7. R.last_seq = 0 => R.claim_digest = R.digest
    BY <2>2, <2>3, <2>4 DEF Passes
  <2>8. /\ R.closed_epoch.epoch < R.epoch
        /\ R.opened = "BelowFloor" => R.closed_epoch = NotClosed
    <3>1. r # NoRecord => /\ r.closed_epoch.epoch < r.epoch
                          /\ r.opened = "BelowFloor" => r.closed_epoch = NotClosed
      BY <1>7 DEF Attests, r
    <3>2. NotClosed.epoch = -1
      BY DEF NotClosed, Absent
    <3>. QED
      BY <2>2, <2>3, <2>4, <3>1, <3>2 DEF Passes
  <2>. QED
    BY <2>1, <2>5, <2>6, <2>7, <2>8 DEF Attests
<1>. QED
  BY <1>8, <1>9

LEMMA AttestWrite ==
    ASSUME TypeOK, IInv, AttestInv, NEW now \in Clock, NEW tok, NEW w \in Requests,
           NEW b \in Bodies, WriteLive(now, tok, w, b)
    PROVE  AttestsAll(slot')
<1> DEFINE tokened == tok # NoToken
<1>1. /\ slot \in Slot /\ slot # NoSlot
      /\ \E s, t, V, E : WriteShape(now, tokened, w, b, s, t, V, E)
  BY WriteLiveShape
<1>2. PICK s, t, V, E : WriteShape(now, tokened, w, b, s, t, V, E)
  BY <1>1
<1> DEFINE gate == Gate(s, w, tokened, now)
<1>3. s \in Slot /\ t \in Slot /\ V \in SUBSET Known(slot) /\ s \in Retirements(slot, V)
      /\ E \in SUBSET Known(t) /\ slot' \in Retirements(t, E)
  BY <1>2 DEF WriteShape
<1>4. SlotInv(s) /\ AttestsAll(s)
  BY <1>1, <1>3, RetirementsInv, AttestsRetired DEF IInv, AttestInv
<1>5. tokened \in BOOLEAN /\ history \in Nat /\ writes \in Nat
  BY DEF TypeOK
<1> HIDE DEF tokened
<1>6. AttestsAll(t)
  <2>1. CASE Applies(s, b, gate)
    BY <1>2, <1>3, <1>4, <1>5, <2>1, AttestsApplied DEF WriteShape
  <2>2. CASE ~Applies(s, b, gate)
    BY <1>2, <1>4, <2>2 DEF WriteShape
  <2>. QED
    BY <2>1, <2>2
<1>. QED
  BY <1>3, <1>6, AttestsRetired

LEMMA AttestStep ==
    ASSUME TypeOK, IInv, AttestInv, [Next]_vars
    PROVE  AttestInv'
<1>1. ASSUME NEW now \in Clock, ExpireStream(now) PROVE AttestInv'
  BY <1>1 DEF AttestInv, ExpireStream, Remove
<1>2. ASSUME NEW now \in Clock, NEW tok \in minted \cup {NoToken}, NEW w \in Requests,
             NEW b \in Bodies, WriteLive(now, tok, w, b)
      PROVE  AttestInv'
  <2>1. AttestsAll(slot') /\ kept' = kept
    BY <1>2, AttestWrite DEF WriteLive
  <2>. QED
    BY <2>1 DEF AttestInv, AttestsAll, Attests, Attested, Newest
<1>3. ASSUME NEW now \in Clock, NEW b \in Bodies, NEW ttl \in Ttls, NEW exp \in Expiries,
             Create(now, b, ttl, exp)
      PROVE  AttestInv'
  <2>1. kept' = kept /\ (slot' # NoSlot => slot' = NewSlot(now, b, ttl, exp))
    BY <1>3 DEF Create
  <2>2. slot' # NoSlot => slot'.producers = [p \in Producer |-> NoRecord]
    BY <2>1, NewSlotFacts
  <2>3. slot' # NoSlot => AttestsAll(slot')
    BY <2>2 DEF AttestsAll, Attests
  <2>. QED
    BY <2>1, <2>3 DEF AttestInv, AttestsAll, Attests, Attested, Newest
<1>4. ASSUME NEW now \in Clock, NEW tok \in minted \cup {NoToken}, Delete(now, tok)
      PROVE  AttestInv'
  BY <1>4 DEF AttestInv, Delete, Remove
<1>5. ASSUME NEW now \in Clock, Touch(now) PROVE AttestInv'
  <2>1. slot # NoSlot /\ kept' = kept
    BY <1>5 DEF Touch
  <2>2. slot'.log = slot.log /\ slot'.producers = slot.producers
    BY <1>5, TouchSlot
  <2>3. AttestsAll(slot')
    BY <2>1, <2>2, AttestsFewer DEF AttestInv
  <2>. QED
    BY <2>1, <2>3 DEF AttestInv, AttestsAll, Attests, Attested, Newest
<1>6. ASSUME NEW now \in Clock, Tidy(now) PROVE AttestInv'
  <2>1. /\ slot \in Slot /\ slot # NoSlot /\ kept' = kept
        /\ \E s \in Slot : \E V, E : /\ V \in SUBSET Known(slot) /\ s \in Retirements(slot, V)
                                     /\ E \in SUBSET Known(s) /\ slot' \in Retirements(s, E)
    BY <1>6, TidyShape
  <2>2. AttestsAll(slot')
    BY <2>1, AttestsRetired DEF AttestInv
  <2>. QED
    BY <2>1, <2>2 DEF AttestInv, AttestsAll, Attests, Attested, Newest
<1>7. ASSUME NEW now \in Clock, Genesis(now) \/ AcceptLoss(now) PROVE AttestInv'
  <2>1. kept' = kept /\ (slot' = slot \/ slot' = kept.slot)
    BY <1>7 DEF Genesis, AcceptLoss, NewHistory
  <2>. QED
    BY <2>1 DEF AttestInv
<1>8. CASE CatchUp
  BY <1>8 DEF AttestInv, CatchUp, state
<1>9. CASE UNCHANGED vars
  BY <1>9 DEF AttestInv, vars, state
<1>. QED
  BY <1>1, <1>2, <1>3, <1>4, <1>5, <1>6, <1>7, <1>8, <1>9, NextCases

(* Rows 9 and 10 of the table, from what the record attests. *)
LEMMA RepeatsTrue ==
    ASSUME NEW s \in Slot, NEW p \in Producer, NEW key \in Key, NEW tokened \in BOOLEAN,
           NEW h \in Nat, Attests(s, p)
    PROVE  LET kind == Evaluate(s.producers[p], s.floor, h, key, tokened).kind
               record == s.producers[p]
           IN  /\ kind = "Evicted" => Holds(s, p, key) # {}
               /\ kind = "Repeat" =>
                    \E i \in Holds(s, p, key) :
                        /\ s.log[i].digest = key.digest
                        /\ s.log[i].start = record.receipt.start
                        /\ s.log[i].next = record.receipt.next
<1> DEFINE r == s.producers[p]
           answer == Evaluate(r, s.floor, h, key, tokened)
<1> SUFFICES ASSUME answer.kind \in {"Evicted", "Repeat"}
             PROVE  /\ answer.kind = "Evicted" => Holds(s, p, key) # {}
                    /\ answer.kind = "Repeat" =>
                        \E i \in Holds(s, p, key) :
                            /\ s.log[i].digest = key.digest
                            /\ s.log[i].start = r.receipt.start
                            /\ s.log[i].next = r.receipt.next
  OBVIOUS
<1>1. key.epoch \in Nat /\ key.seq \in Nat
  BY DEF Key
<1>2. r # NoRecord
  BY DEF Evaluate, EvaluateNew, Answer, Claim
<1>3. r.epoch \in Nat /\ r.last_seq \in Nat
  BY <1>2 DEF Slot, Record
<1>4. key.epoch = r.epoch /\ answer = EvaluateCurrent(r, h, key)
  BY <1>1, <1>2, <1>3 DEF Evaluate, EvaluateOlder, EvaluateLater, Answer, Claim
<1>5. /\ ~DigestConflicts(r, key)
      /\ answer.kind = "Evicted" => key.seq < r.last_seq
      /\ answer.kind = "Repeat" => key.seq = r.last_seq
  BY <1>4 DEF EvaluateCurrent, Answer
<1>6. ASSUME answer.kind = "Evicted" PROVE Holds(s, p, key) # {}
  <2>1. Attested(s, p, r.epoch, key.seq)
    BY <1>1, <1>2, <1>3, <1>5, <1>6 DEF Attests
  <2>. QED
    BY <1>4, <2>1 DEF Attested, Holds
<1>7. ASSUME answer.kind = "Repeat"
      PROVE  \E i \in Holds(s, p, key) :
                /\ s.log[i].digest = key.digest
                /\ s.log[i].start = r.receipt.start
                /\ s.log[i].next = r.receipt.next
  <2>1. Newest(s, p, r) /\ (r.last_seq = 0 => r.claim_digest = r.digest)
    BY <1>2 DEF Attests
  <2>2. key.digest = r.digest
    BY <1>5, <1>7, <2>1 DEF DigestConflicts
  <2>. QED
    BY <1>4, <1>5, <1>7, <2>1, <2>2 DEF Newest, Holds
<1>. QED
  BY <1>6, <1>7

(* A write is answered "applied before" only if the stream holds it, and   *)
(* the range such an answer gives is that of the write with this identity  *)
(* (producer_record.rs, rows 9 and 10 of evaluate).                        *)
THEOREM RepeatTruthAlways == Spec => []RepeatTruth
<1>1. Init => TypeOK /\ IInv /\ AttestInv
  BY TypeInit, InvInit DEF Init, AttestInv
<1>2. TypeOK /\ IInv /\ AttestInv /\ [Next]_vars => (TypeOK /\ IInv /\ AttestInv)'
  BY TypeStep, InvStep, AttestStep
<1>3. TypeOK /\ IInv /\ AttestInv => RepeatTruth
  <2> SUFFICES ASSUME TypeOK, AttestInv, slot # NoSlot,
                      NEW p \in Producer, NEW key \in Keys, NEW tokened \in BOOLEAN
               PROVE  LET kind == Evaluated(slot, p, key, tokened).kind
                          record == slot.producers[p]
                      IN  /\ kind = "Evicted" => Holds(slot, p, key) # {}
                          /\ kind = "Repeat" =>
                               \E i \in Holds(slot, p, key) :
                                   /\ slot.log[i].digest = key.digest
                                   /\ slot.log[i].start = record.receipt.start
                                   /\ slot.log[i].next = record.receipt.next
    BY DEF RepeatTruth
  <2>1. slot \in Slot /\ history \in Nat /\ key \in Key
    BY ConstantsAssumption DEF TypeOK, Keys, Key
  <2>2. Attests(slot, p)
    BY DEF AttestInv, AttestsAll
  <2>. QED
    BY <2>1, <2>2, RepeatsTrue DEF Evaluated
<1>. QED
  BY <1>1, <1>2, <1>3, PTL DEF Spec

---------------------------------------------------------------------------
(* Reported closures stay closed.  The record that closed an epoch, the    *)
(* history that fenced it, or the floor the record left behind refuses     *)
(* every later tokened write of it.                                        *)

Blocked(s, h, rep) ==
    LET r == s.producers[rep.producer]
    IN  IF r # NoRecord /\ r.opened = "AboveFloor"
        THEN \/ r.epoch > rep.epoch
             \/ r.epoch = rep.epoch /\ r.history # h
        ELSE rep.epoch <= s.floor

FinalIn(s, rep) ==
    \A i \in DOMAIN s.log :
        /\ i > rep.at
        /\ s.log[i].producer = rep.producer
        /\ s.log[i].epoch = rep.epoch
        /\ s.log[i].tokened
        => s.log[i].seq <= rep.seq

Bound(s, h, rep) == rep.at <= Len(s.log) /\ Blocked(s, h, rep) /\ FinalIn(s, rep)

ReportInv ==
    /\ slot = NoSlot => reports = {}
    /\ slot # NoSlot => \A rep \in reports : Bound(slot, history, rep)

Report == [producer : Producer, epoch : Nat, seq : Nat, at : Nat]

LEMMA BoundRetired ==
    ASSUME NEW s \in Slot, NEW V \in SUBSET Known(s), NEW t \in Retirements(s, V),
           NEW h, NEW rep \in Report, Bound(s, h, rep)
    PROVE  Bound(t, h, rep)
<1> DEFINE p == rep.producer
           r == s.producers[p]
<1>1. /\ t.log = s.log /\ s.floor \in Int /\ t.floor \in Int /\ t.floor >= s.floor
      /\ t.producers[p] = IF p \in V THEN NoRecord ELSE r
      /\ p \in V => r \in Record /\ r.epoch <= t.floor
  BY RetirementsEffect DEF Report
<1>2. rep.epoch \in Nat /\ (r \in Record => r.epoch \in Nat)
  BY DEF Report, Record
<1>3. Blocked(s, h, rep)
  BY DEF Bound
<1>4. Blocked(t, h, rep)
  <2> HIDE DEF r
  <2>1. IF r # NoRecord /\ r.opened = "AboveFloor"
        THEN \/ r.epoch > rep.epoch
             \/ r.epoch = rep.epoch /\ r.history # h
        ELSE rep.epoch <= s.floor
    BY <1>3 DEF Blocked, r
  <2>2. CASE p \in V
    BY <1>1, <1>2, <2>1, <2>2 DEF Blocked
  <2>3. CASE p \notin V
    BY <1>1, <1>2, <2>1, <2>3 DEF Blocked
  <2>. QED
    BY <2>2, <2>3
<1>. QED
  BY <1>1, <1>4 DEF Bound, FinalIn

LEMMA BoundApplied ==
    ASSUME NEW s \in Slot, NEW w \in Requests, NEW b \in Bodies, NEW tokened \in BOOLEAN,
           NEW now \in Clock, history \in Nat, writes \in Nat, SlotInv(s),
           Gate(s, w, tokened, now).kind \in {"Unkeyed", "Claim", "Next"},
           NEW rep \in Report, Bound(s, history, rep)
    PROVE  Bound(Applied(s, w, b, Gate(s, w, tokened, now), tokened, now), history, rep)
<1> DEFINE gate == Gate(s, w, tokened, now)
           R == RecordAfter(s, w, b, gate, now)
           e == EntryOf(s, w, b, tokened)
           t == Applied(s, w, b, gate, tokened, now)
           n == Len(s.log)
           p == rep.producer
           r == s.producers[p]
<1>1. /\ t.log = Append(s.log, e) /\ t.floor = s.floor
      /\ \A q \in Producer : t.producers[q] = IF q = w.producer THEN R ELSE s.producers[q]
  BY AppliedType
<1>2. s.log \in Seq(Entry) /\ e \in Entry /\ s.floor \in Int
  BY EntryType DEF Slot
<1>3. e.producer = w.producer /\ e.epoch = w.epoch /\ e.seq = w.seq /\ e.tokened = tokened
  BY DEF EntryOf
<1> HIDE DEF t, e
<1>4. /\ DOMAIN t.log = 1..(n + 1) /\ DOMAIN s.log = 1..n /\ n \in Nat /\ Len(t.log) = n + 1
      /\ t.log[n + 1] = e /\ \A i \in 1..n : t.log[i] = s.log[i]
  BY <1>1, <1>2
<1>5. rep.at \in Nat /\ rep.epoch \in Nat /\ p \in Producer
  BY DEF Report
<1>6. rep.at <= n /\ FinalIn(s, rep)
      /\ IF r # NoRecord /\ r.opened = "AboveFloor"
         THEN \/ r.epoch > rep.epoch
              \/ r.epoch = rep.epoch /\ r.history # history
         ELSE rep.epoch <= s.floor
  BY DEF Bound, Blocked
<1>7. CASE p # w.producer
  <2>1. t.producers[p] = r
    BY <1>1, <1>5, <1>7
  <2>2. Blocked(t, history, rep)
    BY <1>1, <1>6, <2>1 DEF Blocked
  <2>3. FinalIn(t, rep)
    BY <1>3, <1>4, <1>6, <1>7 DEF FinalIn
  <2>. QED
    BY <1>4, <1>5, <1>6, <2>2, <2>3 DEF Bound, t
<1>8. CASE p = w.producer
  <2>1. t.producers[p] = R
    BY <1>1, <1>5, <1>8
  <2>2. Passes(s, w, b, tokened, r, R)
    BY <1>5, <1>8, GatePasses
  <2>3. R \in Record /\ w.epoch \in Nat /\ w.seq \in Nat
    BY <1>5, <1>8, RecordAfterType, RequestType DEF Key, KeyOf
  <2>4. r # NoRecord => r.epoch \in Nat /\ r.opened \in Opened
    BY <1>5 DEF Slot, Record
  <2>5. R # NoRecord
    BY <2>3, NoRecordAssumption
  <2>6. r # NoRecord /\ r.opened # "AboveFloor" => r.epoch <= s.floor
    BY <1>5 DEF SlotInv, RemembersProducer
  <2> HIDE DEF R, r
  <2>7. /\ IF R.opened = "AboveFloor"
           THEN R.epoch > rep.epoch ELSE rep.epoch <= s.floor
        /\ ~(tokened /\ w.epoch = rep.epoch)
    <3>1. CASE /\ r = NoRecord \/ (r.opened # "AboveFloor" /\ w.epoch > r.epoch)
               /\ R.opened = OpenedAt(s.floor, w.epoch) /\ R.epoch = w.epoch
               /\ ~(tokened /\ w.epoch <= s.floor)
      BY <1>2, <1>5, <1>6, <2>3, <3>1 DEF OpenedAt
    <3>2. CASE /\ r # NoRecord /\ r.opened = "AboveFloor" /\ w.epoch > r.epoch
               /\ R.opened = "AboveFloor" /\ R.epoch = w.epoch
      BY <1>5, <1>6, <2>3, <2>4, <3>2
    <3>3. CASE /\ r # NoRecord /\ w.epoch = r.epoch /\ R.epoch = w.epoch
               /\ r.history = history /\ R.opened = r.opened
               /\ ~(tokened /\ r.opened = "BelowFloor" /\ s.floor # Absent)
      BY <1>2, <1>5, <1>6, <2>3, <2>4, <2>6, <3>3 DEF Opened, Absent
    <3>. QED
      BY <2>2, <3>1, <3>2, <3>3 DEF Passes
  <2>8. Blocked(t, history, rep)
    BY <1>1, <2>1, <2>5, <2>7 DEF Blocked
  <2>9. FinalIn(t, rep)
    <3>1. ~(e.tokened /\ e.epoch = rep.epoch)
      BY <1>3, <2>7
    <3>2. \A i \in 1..n + 1 : i = n + 1 \/ i \in 1..n
      BY <1>4
    <3>. QED
      BY <1>4, <1>6, <3>1, <3>2 DEF FinalIn
  <2>. QED
    BY <1>4, <1>5, <1>6, <2>8, <2>9 DEF Bound, t
<1>. QED
  BY <1>7, <1>8

(* An answer names a closure because a claim makes it, the record          *)
(* remembers it, or the history fences it.                                 *)
LEMMA ClosureCause ==
    ASSUME NEW s \in Slot, NEW w \in Requests, NEW tokened \in BOOLEAN, NEW now \in Clock,
           history \in Nat, SlotInv(s), AttestsAll(s),
           Gate(s, w, tokened, now).closed # NotClosed
    PROVE  LET gate == Gate(s, w, tokened, now)
               r == s.producers[w.producer]
           IN  /\ w.producer \in Producer /\ r # NoRecord
               /\ gate.closed.epoch \in Nat /\ gate.closed.seq \in Nat
               /\ \/ /\ gate.kind = "Claim" /\ w.epoch > r.epoch
                     /\ gate.closed.epoch = r.epoch /\ r.opened = "AboveFloor"
                  \/ /\ gate.kind \notin {"Unkeyed", "Claim", "Next"}
                     /\ IF r.opened = "AboveFloor"
                        THEN \/ r.epoch > gate.closed.epoch
                             \/ r.epoch = gate.closed.epoch /\ r.history # history
                        ELSE gate.closed.epoch <= s.floor
<1> DEFINE gate == Gate(s, w, tokened, now)
           r == s.producers[w.producer]
           key == KeyOf(w)
<1>1. w.producer \in Producer
  <2>1. Unkeyed.closed = NotClosed
    BY DEF Unkeyed, Answer
  <2>2. w.producer # NoProducer
    BY <2>1 DEF Gate
  <2>. QED
    BY <2>2, RequestType
<1>2. gate = Evaluate(r, s.floor, history, key, tokened)
  <2>1. w.producer # NoProducer
    BY <1>1, ConstantsAssumption
  <2>2. Answer("ProducerLimit", Absent, NotClosed).closed = NotClosed
    BY DEF Answer
  <2>. QED
    BY <2>1, <2>2 DEF Gate
<1>3. key \in Key /\ key.epoch = w.epoch /\ key.epoch \in Nat /\ key.seq \in Nat /\ s.floor \in Int
  BY <1>1, RequestType DEF Key, KeyOf, Slot
<1>4. r # NoRecord
  <2>1. EvaluateNew(s.floor, key, tokened).closed = NotClosed
    BY DEF EvaluateNew, Answer, Claim
  <2>. QED
    BY <1>2, <2>1 DEF Evaluate
<1>5. /\ r.epoch \in Nat /\ r.last_seq \in Nat /\ r.opened \in Opened
      /\ r.closed_epoch # NotClosed => r.closed_epoch.epoch \in Nat /\ r.closed_epoch.seq \in Nat
  BY <1>1, <1>4 DEF Slot, Record, ClosedEpoch
<1>6. /\ r.closed_epoch.epoch < r.epoch
      /\ r.opened = "BelowFloor" => r.closed_epoch = NotClosed
      /\ r.opened # "AboveFloor" => r.epoch <= s.floor
  BY <1>1, <1>4 DEF AttestsAll, Attests, SlotInv, RemembersProducer
<1>7. ~ReachesForgotten(r, s.floor, key, tokened)
  BY <1>2, <1>4 DEF Evaluate, Answer
<1>8. CASE key.epoch < r.epoch
  <2>1. gate = EvaluateOlder(r, key)
    BY <1>2, <1>4, <1>7, <1>8 DEF Evaluate
  <2>2. gate.kind = "EpochClosed" /\ gate.closed = r.closed_epoch
    BY <2>1 DEF EvaluateOlder, Answer
  <2>. QED
    BY <1>1, <1>4, <1>5, <1>6, <2>2 DEF Opened
<1>9. CASE key.epoch > r.epoch
  <2>1. gate = EvaluateLater(r, s.floor, key)
    BY <1>2, <1>3, <1>4, <1>5, <1>7, <1>9 DEF Evaluate
  <2>2. /\ gate.kind = "Claim" /\ r.opened = "AboveFloor"
        /\ gate.closed = [epoch |-> r.epoch, seq |-> r.last_seq]
    BY <2>1 DEF EvaluateLater, Answer, Claim
  <2>. QED
    BY <1>1, <1>3, <1>4, <1>5, <1>9, <2>2
<1>10. CASE key.epoch = r.epoch
  <2>1. gate = EvaluateCurrent(r, history, key)
    BY <1>2, <1>3, <1>4, <1>5, <1>7, <1>10 DEF Evaluate
  <2>2. \/ gate.kind \in {"Repeat", "Evicted"} /\ gate.closed = r.closed_epoch
        \/ /\ gate.kind = "EpochClosed" /\ r.history # history
           /\ gate.closed = [epoch |-> r.epoch, seq |-> r.last_seq]
    BY <2>1 DEF EvaluateCurrent, Answer, HistoryFenced
  <2>3. CASE gate.kind \in {"Repeat", "Evicted"} /\ gate.closed = r.closed_epoch
    BY <1>1, <1>4, <1>5, <1>6, <2>3 DEF Opened
  <2>4. CASE /\ gate.kind = "EpochClosed" /\ r.history # history
             /\ gate.closed = [epoch |-> r.epoch, seq |-> r.last_seq]
    BY <1>1, <1>4, <1>5, <1>6, <2>4
  <2>. QED
    BY <2>2, <2>3, <2>4
<1>. QED
  BY <1>3, <1>5, <1>8, <1>9, <1>10

(* The answer of a write binds the stream it leaves. *)
LEMMA BoundReported ==
    ASSUME NEW s \in Slot, NEW w \in Requests, NEW b \in Bodies, NEW tokened \in BOOLEAN,
           NEW now \in Clock, history \in Nat, writes \in Nat, SlotInv(s), AttestsAll(s),
           NEW rep \in Reported(s, w, b, Gate(s, w, tokened, now))
    PROVE  LET gate == Gate(s, w, tokened, now)
               t == IF Applies(s, b, gate) THEN Applied(s, w, b, gate, tokened, now) ELSE s
           IN  rep \in Report /\ Bound(t, history, rep)
<1> DEFINE gate == Gate(s, w, tokened, now)
           r == s.producers[w.producer]
           t == IF Applies(s, b, gate) THEN Applied(s, w, b, gate, tokened, now) ELSE s
           n == Len(s.log)
<1>1. /\ gate.closed # NotClosed /\ (gate.kind = "Claim" => Applies(s, b, gate))
      /\ rep = [producer |-> w.producer, epoch |-> gate.closed.epoch,
                seq |-> gate.closed.seq, at |-> n]
  BY DEF Reported
<1>2. /\ w.producer \in Producer /\ r # NoRecord
      /\ gate.closed.epoch \in Nat /\ gate.closed.seq \in Nat
      /\ \/ /\ gate.kind = "Claim" /\ w.epoch > r.epoch
            /\ gate.closed.epoch = r.epoch /\ r.opened = "AboveFloor"
         \/ /\ gate.kind \notin {"Unkeyed", "Claim", "Next"}
            /\ IF r.opened = "AboveFloor"
               THEN \/ r.epoch > gate.closed.epoch
                    \/ r.epoch = gate.closed.epoch /\ r.history # history
               ELSE gate.closed.epoch <= s.floor
  BY <1>1, ClosureCause
<1>3. s.log \in Seq(Entry) /\ n \in Nat /\ DOMAIN s.log = 1..n
  BY DEF Slot
<1>4. rep \in Report
  BY <1>1, <1>2, <1>3 DEF Report
<1>5. CASE gate.kind \notin {"Unkeyed", "Claim", "Next"}
  <2>1. t = s
    BY <1>5 DEF Applies
  <2>2. Blocked(s, history, rep)
    BY <1>1, <1>2, <1>5 DEF Blocked
  <2>3. FinalIn(s, rep) /\ rep.at <= Len(s.log)
    BY <1>1, <1>3 DEF FinalIn
  <2>. QED
    BY <1>4, <2>1, <2>2, <2>3 DEF Bound
<1>6. CASE gate.kind = "Claim"
  <2> DEFINE e == EntryOf(s, w, b, tokened)
             R == RecordAfter(s, w, b, gate, now)
  <2>1. t = Applied(s, w, b, gate, tokened, now)
    BY <1>1, <1>6
  <2>2. t.log = Append(s.log, e) /\ t.producers[w.producer] = R
    BY <1>2, <1>6, <2>1, AppliedType
  <2>3. e \in Entry /\ e.epoch = w.epoch
    BY EntryType DEF EntryOf
  <2>4. Passes(s, w, b, tokened, r, R)
    BY <1>2, <1>6, GatePasses
  <2>5. R \in Record /\ R # NoRecord
    BY <1>2, <1>6, RecordAfterType, NoRecordAssumption
  <2>6. r.epoch \in Nat /\ w.epoch \in Nat /\ w.epoch > r.epoch /\ rep.epoch = r.epoch
        /\ r # NoRecord /\ r.opened = "AboveFloor"
    BY <1>1, <1>2, <1>6, RequestType DEF Slot, Record, Key, KeyOf
  <2> HIDE DEF t, e, R, r
  <2>7. R.opened = "AboveFloor" /\ R.epoch > rep.epoch
    BY <2>4, <2>6 DEF Passes
  <2>8. Blocked(t, history, rep)
    BY <1>1, <2>2, <2>5, <2>7 DEF Blocked
  <2>9. FinalIn(t, rep) /\ rep.at <= Len(t.log)
    <3>1. /\ DOMAIN t.log = 1..(n + 1) /\ Len(t.log) = n + 1 /\ t.log[n + 1] = e
      BY <1>3, <2>2, <2>3
    <3>2. rep.at = n
      BY <1>1
    <3>3. \A i \in DOMAIN t.log : i > rep.at => t.log[i].epoch # rep.epoch
      BY <1>3, <2>3, <2>6, <3>1, <3>2
    <3>. QED
      BY <1>3, <3>1, <3>2, <3>3 DEF FinalIn
  <2>. QED
    BY <1>4, <2>8, <2>9 DEF Bound, t
<1>. QED
  BY <1>2, <1>5, <1>6

LEMMA ReportWrite ==
    ASSUME TypeOK, IInv, AttestInv, ReportInv, NEW now \in Clock, NEW tok, NEW w \in Requests,
           NEW b \in Bodies, WriteLive(now, tok, w, b)
    PROVE  ReportInv'
<1> DEFINE tokened == tok # NoToken
<1>1. /\ slot \in Slot /\ slot # NoSlot /\ slot' # NoSlot /\ history' = history
      /\ \E s, t, V, E : WriteShape(now, tokened, w, b, s, t, V, E)
  BY WriteLiveShape
<1>2. PICK s, t, V, E : WriteShape(now, tokened, w, b, s, t, V, E)
  BY <1>1
<1> DEFINE gate == Gate(s, w, tokened, now)
<1>3. s \in Slot /\ t \in Slot /\ V \in SUBSET Known(slot) /\ s \in Retirements(slot, V)
      /\ E \in SUBSET Known(t) /\ slot' \in Retirements(t, E)
      /\ reports' = reports \cup Reported(s, w, b, gate)
  BY <1>2 DEF WriteShape
<1>4. SlotInv(s) /\ AttestsAll(s)
  BY <1>1, <1>3, RetirementsInv, AttestsRetired DEF IInv, AttestInv
<1>5. tokened \in BOOLEAN /\ history \in Nat /\ writes \in Nat /\ reports \subseteq Report
  BY DEF TypeOK, Report
<1> HIDE DEF tokened
<1>6. t = IF Applies(s, b, gate) THEN Applied(s, w, b, gate, tokened, now) ELSE s
  BY <1>2 DEF WriteShape
<1>7. ASSUME NEW rep \in reports PROVE rep \in Report /\ Bound(t, history, rep)
  <2>1. rep \in Report /\ Bound(slot, history, rep)
    BY <1>1, <1>5 DEF ReportInv
  <2>2. Bound(s, history, rep)
    BY <1>1, <1>3, <2>1, BoundRetired
  <2>3. CASE Applies(s, b, gate)
    <3>1. gate.kind \in {"Unkeyed", "Claim", "Next"}
      BY <2>3 DEF Applies
    <3>. QED
      BY <1>3, <1>4, <1>5, <1>6, <2>1, <2>2, <2>3, <3>1, BoundApplied
  <2>4. CASE ~Applies(s, b, gate)
    BY <1>6, <2>1, <2>2, <2>4
  <2>. QED
    BY <2>3, <2>4
<1>8. ASSUME NEW rep \in Reported(s, w, b, gate) PROVE rep \in Report /\ Bound(t, history, rep)
  BY <1>3, <1>4, <1>5, <1>6, BoundReported
<1>9. \A rep \in reports' : Bound(slot', history', rep)
  BY <1>1, <1>3, <1>7, <1>8, BoundRetired
<1>. QED
  BY <1>1, <1>9 DEF ReportInv

LEMMA ReportStep ==
    ASSUME TypeOK, IInv, AttestInv, ReportInv, [Next]_vars
    PROVE  ReportInv'
<1>1. ASSUME NEW now \in Clock, ExpireStream(now) PROVE ReportInv'
  BY <1>1 DEF ReportInv, ExpireStream, Remove, Forget
<1>2. ASSUME NEW now \in Clock, NEW tok \in minted \cup {NoToken}, NEW w \in Requests,
             NEW b \in Bodies, WriteLive(now, tok, w, b)
      PROVE  ReportInv'
  BY <1>2, ReportWrite
<1>3. ASSUME NEW now \in Clock, NEW b \in Bodies, NEW ttl \in Ttls, NEW exp \in Expiries,
             Create(now, b, ttl, exp)
      PROVE  ReportInv'
  BY <1>3 DEF ReportInv, Create
<1>4. ASSUME NEW now \in Clock, NEW tok \in minted \cup {NoToken}, Delete(now, tok)
      PROVE  ReportInv'
  BY <1>4 DEF ReportInv, Delete, Remove, Forget
<1>5. ASSUME NEW now \in Clock, Touch(now) PROVE ReportInv'
  <2>1. slot # NoSlot /\ slot' # NoSlot /\ history' = history /\ reports' = reports
    BY <1>5, TouchSlot, SentinelAssumption DEF Touch, ghosts
  <2>2. slot'.log = slot.log /\ slot'.producers = slot.producers /\ slot'.floor = slot.floor
    BY <1>5, TouchSlot
  <2>. QED
    BY <2>1, <2>2 DEF ReportInv, Bound, Blocked, FinalIn
<1>6. ASSUME NEW now \in Clock, Tidy(now) PROVE ReportInv'
  <2>1. /\ slot \in Slot /\ slot # NoSlot /\ slot' # NoSlot
        /\ history' = history /\ reports' = reports
        /\ \E s \in Slot : \E V, E : /\ V \in SUBSET Known(slot) /\ s \in Retirements(slot, V)
                                     /\ E \in SUBSET Known(s) /\ slot' \in Retirements(s, E)
    BY <1>6, TidyShape
  <2>2. reports \subseteq Report
    BY DEF TypeOK, Report
  <2>3. \A rep \in reports : Bound(slot', history, rep)
    BY <2>1, <2>2, BoundRetired DEF ReportInv
  <2>. QED
    BY <2>1, <2>3 DEF ReportInv
<1>7. ASSUME NEW now \in Clock, Genesis(now) \/ AcceptLoss(now) PROVE ReportInv'
  BY <1>7 DEF ReportInv, Genesis, AcceptLoss, NewHistory
<1>8. CASE CatchUp
  BY <1>8 DEF ReportInv, CatchUp, state, ghosts
<1>9. CASE UNCHANGED vars
  BY <1>9 DEF ReportInv, vars, state, ghosts
<1>. QED
  BY <1>1, <1>2, <1>3, <1>4, <1>5, <1>6, <1>7, <1>8, <1>9, NextCases

(* An epoch an answer reported closed after a seq stays so: no tokened     *)
(* write of it above that seq applies under the token of that answer,      *)
(* though the record that knew it is advanced, retired, evicted or         *)
(* reopened since (evaluate, retire_producer).                             *)
THEOREM ClosedReportFinalAlways == Spec => []ClosedReportFinal
<1>1. Init => TypeOK /\ IInv /\ AttestInv /\ ReportInv
  BY TypeInit, InvInit DEF Init, AttestInv, ReportInv
<1>2. TypeOK /\ IInv /\ AttestInv /\ ReportInv /\ [Next]_vars
        => (TypeOK /\ IInv /\ AttestInv /\ ReportInv)'
  BY TypeStep, InvStep, AttestStep, ReportStep
<1>3. ReportInv => ClosedReportFinal
  BY DEF ReportInv, ClosedReportFinal, Bound, FinalIn
<1>. QED
  BY <1>1, <1>2, <1>3, PTL DEF Spec
============================================================================

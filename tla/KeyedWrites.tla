---------------------------- MODULE KeyedWrites ----------------------------
(***************************************************************************)
(* One stream URL of one Raft group, seen through its writes: the group's  *)
(* history, the stream's incarnations, and the producer protocol that      *)
(* makes retried writes apply once (ursula-stream, state_machine/append.rs,*)
(* producers.rs, history.rs, lifecycle.rs).                                *)
(*                                                                         *)
(* Every action is the application of one committed command, so an action  *)
(* is atomic as apply is; concurrency between clients is the order in      *)
(* which their commands commit.  A command carries the clock of the node   *)
(* that proposed it, and nodes' clocks need not agree: each action takes   *)
(* any `now` of Clock.  A command that answers without changing the state  *)
(* is a stuttering step unless its answer is recorded in `reports`.        *)
(*                                                                         *)
(* An accepted loss replaces the group's state by an earlier one, which    *)
(* the surviving replica holds (`kept`), and draws a new history.          *)
(*                                                                         *)
(* Left out here: the stream's hot and cold bytes, the usage ledger and    *)
(* the TTL index, which the same commands also change; the bucket, which   *)
(* exists and is not erased.                                               *)
(***************************************************************************)
EXTENDS ProducerRecord, Sequences, FiniteSets

CONSTANTS
    Producer,      \* producer ids, ordered as the code orders their strings
    Writers,       \* who writes: producers, and NoProducer for unkeyed writes
    NoProducer,    \* a write without producer headers
    NoDigest,      \* a write without an identity
    NoSlot,        \* no stream at the URL
    NoToken,       \* a request without Stream-Incarnation
    Clock,         \* the values now_ms takes
    Epochs, Seqs,  \* the epochs and seqs writers use
    Bodies,        \* what creates, appends and closes carry besides the key
    Ttls,          \* sliding TTLs a create may set (Absent: none)
    Expiries,      \* absolute expiries a create may set (Absent: none)
    IdleExpiry,    \* PRODUCER_IDLE_EXPIRY_MS
    EvictIdle,     \* PRODUCER_CAP_EVICT_IDLE_MS
    MaxProducers,  \* MAX_PRODUCERS_PER_STREAM
    EvictBudget,   \* PRODUCER_CAP_EVICT_BUDGET
    TidyBudget,    \* TIDY_PRODUCER_BUDGET
    MaxCreatedAt,  \* MAX_CREATED_AT_MS
    MaxWrites,     \* bound: writes that apply in a behaviour
    MaxHistories,  \* bound: history events in a behaviour
    MaxRemovals,   \* bound: streams removed in a behaviour
    ClocksKeepUp   \* recoveries wait until the clock passed every create

(* A request's payload length, whether it closes the stream, its Stream-Seq, *)
(* and whether its content passes the checks made only of writes that apply. *)
Body == [len : Nat, close : BOOLEAN, stream_seq : Nat \cup {Absent}, valid : BOOLEAN]

ASSUME ConstantsAssumption ==
    /\ Producer \subseteq Nat /\ NoProducer \notin Producer /\ NoDigest \in Digest
    /\ Writers \subseteq Producer \cup {NoProducer}
    /\ Clock \subseteq Nat /\ Epochs \subseteq Nat /\ Seqs \subseteq Nat
    /\ Bodies \subseteq Body
    /\ Ttls \subseteq Nat \cup {Absent} /\ Expiries \subseteq Nat \cup {Absent}
    /\ IdleExpiry \in Nat \ {0} /\ EvictIdle \in Nat \ {0}
    /\ MaxProducers \in Nat \ {0} /\ EvictBudget \in Nat \ {0}
    /\ TidyBudget \in Nat \ {0}
    /\ MaxCreatedAt \in Nat /\ MaxWrites \in Nat
    /\ MaxHistories \in Nat /\ MaxRemovals \in Nat
    /\ ClocksKeepUp \in BOOLEAN

VARIABLES
    slot,          \* the stream at the URL, or NoSlot
    history,       \* the group's history id, 0 before its genesis
    last_created,  \* last_created_at_ms
    kept,          \* the state of the replica that survives a loss
    \* What the environment and the properties remember:
    drawn,         \* history ids drawn so far
    writes,        \* writes applied so far, in any history
    removals,      \* streams removed so far
    minted,        \* every token a response rendered
    served,        \* <<token, entry>>: what was readable under each token
    reports        \* closed epochs that answers under the current token named

state == <<slot, history, last_created>>
ghosts == <<writes, removals, minted, served, reports>>
vars == <<state, kept, drawn, ghosts>>

(* One applied write, in the order of the stream's bytes. *)
Entry ==
    [id : Nat, producer : Producer \cup {NoProducer}, epoch : Int, seq : Int,
     digest : Digest, tokened : BOOLEAN, history : Nat,
     start : Nat, next : Nat]

NotInherited == [history |-> 0, offset |-> 0]
Inherited == [history : Nat, offset : Nat]

(* StreamSlot and its StreamMetadata; `log` is the stream's content. *)
Slot ==
    [created : Nat, closed : BOOLEAN, tail : Nat, last_stream_seq : Int,
     ttl : Int, expires_at : Int, touched : Nat,
     producers : [Producer -> Record \cup {NoRecord}], floor : Int,
     history : Nat, inherited : Inherited, log : Seq(Entry)]

Token == [created : Nat, history : Nat]
ASSUME SentinelAssumption == NoSlot \notin Slot /\ NoToken \notin Token

\* Mutant: a token of created_at alone.
TokenWithoutHistory(s, h) == [created |-> s.created, history |-> 0]

(* incarnation_token: within a history a bijection of created_at, and      *)
(* across histories distinct but for a 2^-52 coincidence, so a pair.       *)
TokenOf(s, h) == [created |-> s.created, history |-> h]

MaxOf(a, b) == IF a >= b THEN a ELSE b

---------------------------------------------------------------------------
(* Expiry. *)

ExpiryOf(s) ==
    IF s.expires_at # Absent THEN s.expires_at
    ELSE IF s.ttl # Absent THEN s.touched + s.ttl ELSE Absent

Expired(s, now) == ExpiryOf(s) # Absent /\ now >= ExpiryOf(s)

(* renew_stream_ttl: never moves the expiry earlier. *)
Renewed(s, now) ==
    IF s.ttl # Absent /\ s.expires_at = Absent THEN MaxOf(s.touched, now)
    ELSE s.touched

---------------------------------------------------------------------------
(* Producer retirement. *)

HasRecord(s, p) == s.producers[p] # NoRecord
Known(s) == {p \in Producer : HasRecord(s, p)}

Idle(record, now) == now - record.last_seen >= IdleExpiry
CapEvictable(record, now) == now - record.last_seen >= EvictIdle

\* Mutant: a retirement leaves the floor where it is.
FloorUnraised(s, V) == {s.floor}

(* The epochs the floor covers once the producers V are retired; it becomes *)
(* the highest of them.                                                     *)
FloorsAfter(s, V) == {s.floor} \cup {s.producers[p].epoch : p \in V}

(* retire_producer, for each of V: the one slot s becomes. *)
Retirements(s, V) ==
    {[s EXCEPT
         !.producers = [p \in Producer |->
                           IF p \in V THEN NoRecord ELSE s.producers[p]],
         !.floor = f] :
        f \in {g \in FloorsAfter(s, V) : \A h \in FloorsAfter(s, V) : h <= g}}

(* expire_idle_producer, at the producer's own write. *)
IdleOwn(s, p, now) ==
    IF p # NoProducer /\ HasRecord(s, p) /\ Idle(s.producers[p], now)
    THEN {p} ELSE {}

\* Mutant: the cap is off by one.
CapAdmitsOneMore(s, p, now) == Cardinality(Known(s)) <= MaxProducers

(* producer_cap_admits. *)
CapAdmits(s, p, now) ==
    \/ Cardinality(Known(s)) < MaxProducers
    \/ HasRecord(s, p)
    \/ Cardinality({q \in Known(s) : ~CapEvictable(s.producers[q], now)})
           < MaxProducers

(* evict_producers_over_cap evicts the oldest (last_seen, id) first. *)
Older(s, p, q) ==
    \/ s.producers[p].last_seen < s.producers[q].last_seen
    \/ s.producers[p].last_seen = s.producers[q].last_seen /\ p < q

OverCap(s) ==
    LET excess == Cardinality(Known(s)) - MaxProducers
    IN  IF excess < EvictBudget THEN excess ELSE EvictBudget

EvictedOverCap(s, now) ==
    LET candidates == {p \in Known(s) : CapEvictable(s.producers[p], now)}
    IN  {p \in candidates :
            Cardinality({q \in candidates : Older(s, q, p)}) < OverCap(s)}

---------------------------------------------------------------------------
(* Writes. *)

(* A request: an append, or a close without a body.  Without producer      *)
(* headers it has no key.                                                  *)
KeyedWrite ==
    [producer : Writers \ {NoProducer}, epoch : Epochs, seq : Seqs, digest : Digest]
UnkeyedWrite == [producer |-> NoProducer, epoch |-> Absent, seq |-> Absent,
                 digest |-> NoDigest]

Requests == KeyedWrite \cup {w \in {UnkeyedWrite} : NoProducer \in Writers}

KeyOf(w) == [epoch |-> w.epoch, seq |-> w.seq, digest |-> w.digest]

(* producer_gate: the evaluation, with the cap checked for a new producer. *)
Unkeyed == Answer("Unkeyed", Absent, NotClosed)
Gate(s, w, tokened, now) ==
    IF w.producer = NoProducer THEN Unkeyed
    ELSE LET e == Evaluate(s.producers[w.producer], s.floor, history, KeyOf(w), tokened)
         IN  IF /\ e.kind = "Claim"
                /\ e.closed = NotClosed
                /\ ~CapAdmits(s, w.producer, now)
             THEN Answer("ProducerLimit", Absent, NotClosed)
             ELSE e

(* check_stream_seq. *)
StreamSeqAdvances(s, b) ==
    b.stream_seq = Absent \/ b.stream_seq > s.last_stream_seq

(* The checks between the gate and the apply: closed, content, Stream-Seq. *)
(* `valid` stands for the content checks; an append without a body must    *)
(* close.                                                                  *)
Applies(s, b, gate) ==
    /\ gate.kind \in {"Unkeyed", "Claim", "Next"}
    /\ ~s.closed
    /\ b.valid
    /\ b.len > 0 \/ b.close
    /\ StreamSeqAdvances(s, b)

\* Mutant: recorded once the write moved the tail.
InheritedLate(s) ==
    IF s.history = history THEN s.inherited
    ELSE [history |-> s.history, offset |-> s.tail + 1]

(* inherit_history: before the first write of a history, remember what it  *)
(* began from.                                                             *)
InheritedBy(s) ==
    IF s.history = history THEN s.inherited
    ELSE [history |-> s.history, offset |-> s.tail]

EntryOf(s, w, b, tokened) ==
    [id |-> writes + 1, producer |-> w.producer, epoch |-> w.epoch,
     seq |-> w.seq, digest |-> w.digest, tokened |-> tokened,
     history |-> history, start |-> s.tail, next |-> s.tail + b.len]

(* record_producer_success. *)
RecordAfter(s, w, b, gate, now) ==
    LET receipt == [start |-> s.tail, next |-> s.tail + b.len, closed |-> b.close]
    IN  IF gate.kind = "Claim"
        THEN Claimed(KeyOf(w), gate, history, receipt, now)
        ELSE Advanced(s.producers[w.producer], KeyOf(w), receipt, now)

(* The stream after the write w with body b applied. *)
Applied(s, w, b, gate, tokened, now) ==
    [s EXCEPT
        !.inherited = InheritedBy(s),
        !.history = history,
        !.tail = s.tail + b.len,
        !.last_stream_seq = IF b.stream_seq = Absent THEN s.last_stream_seq
                            ELSE b.stream_seq,
        !.touched = Renewed(s, now),
        !.closed = b.close,
        !.producers = [p \in Producer |->
                          IF p = w.producer THEN RecordAfter(s, w, b, gate, now)
                          ELSE s.producers[p]],
        !.log = Append(s.log, EntryOf(s, w, b, tokened))]

\* Mutant: an answer without a closure still names one.
ReportedAlways(s, w, b, gate) ==
    {[producer |-> w.producer, epoch |-> gate.closed.epoch,
      seq |-> gate.closed.seq, at |-> Len(s.log)]}

(* The closure the answer reports: a refusal or repeat reports it at once,  *)
(* a claim once it applied.  `at` is how much the stream held by then.      *)
Reported(s, w, b, gate) ==
    IF gate.closed # NotClosed /\ (gate.kind = "Claim" => Applies(s, b, gate))
    THEN {[producer |-> w.producer, epoch |-> gate.closed.epoch,
           seq |-> gate.closed.seq, at |-> Len(s.log)]}
    ELSE {}

---------------------------------------------------------------------------
(* What the properties remember of each step. *)

Rendered(s, h) ==
    IF s = NoSlot THEN {} ELSE {<<TokenOf(s, h), s.log[i]>> : i \in DOMAIN s.log}

(* The stream changed to slot' in history': its token was rendered, its    *)
(* bytes were readable.                                                    *)
Observe ==
    /\ minted' = IF slot' = NoSlot THEN minted ELSE minted \cup {TokenOf(slot', history')}
    /\ served' = served \cup Rendered(slot', history')

(* The stream is gone: its answers bind no later stream. *)
Forget ==
    /\ removals' = removals + 1
    /\ reports' = {}

Init ==
    /\ slot = NoSlot
    /\ history = 0
    /\ last_created = 0
    /\ kept = [slot |-> NoSlot, history |-> 0, last_created |-> 0]
    /\ drawn = 0
    /\ writes = 0
    /\ removals = 0
    /\ minted = {}
    /\ served = {}
    /\ reports = {}

(* remove_stream_state. *)
Remove ==
    /\ removals < MaxRemovals
    /\ slot' = NoSlot
    /\ Forget
    /\ UNCHANGED <<history, last_created, kept, drawn, writes, minted, served>>

(* incarnation_precondition of a write or a delete. *)
Precondition(tok, now) ==
    \/ tok = NoToken
    \/ Expired(slot, now)
    \/ tok = TokenOf(slot, history)

(* expire_stream_if_due: a write, a touch or a sweep removes an expired     *)
(* stream; the write answers 404.                                           *)
ExpireStream(now) ==
    /\ slot # NoSlot
    /\ Expired(slot, now)
    /\ Remove

(* append_borrowed and close on a live stream: retire the producer's own   *)
(* idle record, pass the gate, apply, then enforce the producer cap.       *)
WriteLive(now, tok, w, b) ==
    /\ slot # NoSlot
    /\ ~Expired(slot, now)
    /\ Precondition(tok, now)
    /\ \E s \in Retirements(slot, IdleOwn(slot, w.producer, now)) :
        LET tokened == tok # NoToken
            gate == Gate(s, w, tokened, now)
            applies == Applies(s, b, gate)
            t == IF applies THEN Applied(s, w, b, gate, tokened, now) ELSE s
            evicted == IF w.producer = NoProducer THEN {} ELSE EvictedOverCap(t, now)
        IN  /\ applies => writes < MaxWrites
            /\ slot' \in Retirements(t, evicted)
            /\ writes' = IF applies THEN writes + 1 ELSE writes
            /\ reports' = reports \cup Reported(s, w, b, gate)
    /\ UNCHANGED <<history, last_created, kept, drawn, removals>>
    /\ Observe

---------------------------------------------------------------------------
(* Lifecycle. *)

(* next_created_at_ms. *)
NextCreated(now) == MaxOf(now, last_created + 1)

NewSlot(now, b, ttl, expires_at) ==
    LET empty == [created |-> NextCreated(now), closed |-> b.close, tail |-> 0,
                  last_stream_seq |-> b.stream_seq, ttl |-> ttl,
                  expires_at |-> expires_at, touched |-> now,
                  producers |-> [p \in Producer |-> NoRecord],
                  floor |-> Absent, history |-> history,
                  inherited |-> NotInherited, log |-> <<>>]
    IN  IF b.len = 0 THEN empty
        ELSE [empty EXCEPT !.tail = b.len,
                              !.log = <<EntryOf(empty, UnkeyedWrite, b, FALSE)>>]

(* create_stream without a precondition; with one it changes nothing.  An   *)
(* expired stream is removed first, an existing one answers unchanged.      *)
Create(now, b, ttl, expires_at) ==
    /\ history # 0
    /\ ttl = Absent \/ expires_at = Absent
    /\ slot # NoSlot => Expired(slot, now) /\ removals < MaxRemovals
    /\ b.valid
    /\ b.len > 0 => writes < MaxWrites
    /\ IF NextCreated(now) <= MaxCreatedAt
       THEN /\ slot' = NewSlot(now, b, ttl, expires_at)
            /\ last_created' = MaxOf(last_created, NextCreated(now))
            /\ writes' = IF b.len = 0 THEN writes ELSE writes + 1
       ELSE /\ slot' = NoSlot
            /\ UNCHANGED <<last_created, writes>>
    /\ removals' = IF slot = NoSlot THEN removals ELSE removals + 1
    /\ reports' = {}
    /\ UNCHANGED <<history, kept, drawn>>
    /\ Observe

(* delete_stream. *)
Delete(now, tok) ==
    /\ slot # NoSlot
    /\ Precondition(tok, now)
    /\ Remove

(* touch_stream_access of a live stream. *)
Touch(now) ==
    /\ slot # NoSlot
    /\ ~Expired(slot, now)
    /\ slot' = [slot EXCEPT !.touched = Renewed(slot, now)]
    /\ UNCHANGED <<history, last_created, kept, drawn, ghosts>>

(* The idle producers one TidyStream retires, in id order. *)
TidyIdle(s, now) ==
    LET idle == {p \in Known(s) : Idle(s.producers[p], now)}
    IN  {p \in idle : Cardinality({q \in idle : q < p}) < TidyBudget}

(* tidy_stream: idle records, then the cap. *)
Tidy(now) ==
    /\ slot # NoSlot
    /\ \E s \in Retirements(slot, TidyIdle(slot, now)) :
            slot' \in Retirements(s, EvictedOverCap(s, now))
    /\ UNCHANGED <<history, last_created, kept, drawn, ghosts>>

---------------------------------------------------------------------------
(* History. *)

\* Mutant: the counter stays where the loss left it.
CounterUnraised(last, now) == last

(* new_history raises last_created_at_ms to its clock, for creates the loss *)
(* took.                                                                    *)
CounterRaised(last, now) == MaxOf(last, now)

(* new_history of the group's genesis, or after a loss that kept `from`.   *)
(* An event that names another history as the one it replaces is refused.  *)
NewHistory(now, from) ==
    /\ drawn < MaxHistories
    /\ drawn' = drawn + 1
    /\ slot' = from.slot
    /\ history' = drawn + 1
    /\ last_created' = CounterRaised(from.last_created, now)
    /\ reports' = {}
    /\ Observe
    /\ UNCHANGED <<kept, writes, removals>>

(* The first event of a group. *)
Genesis(now) ==
    /\ history = 0
    /\ NewHistory(now, [slot |-> slot, history |-> history, last_created |-> last_created])

(* Every created_at ever assigned, lost incarnations included. *)
Assigned == {t.created : t \in minted}

(* An operator accepts the loss of what `kept` does not hold; the leader   *)
(* of the survivors proposes the history event before it admits anything.  *)
AcceptLoss(now) ==
    /\ history # 0
    /\ ClocksKeepUp => \A c \in Assigned : c <= now
    /\ NewHistory(now, kept)

(* The replica that would survive a loss applies the log so far (of no     *)
(* interest once the bound allows no further loss).                        *)
CatchUp ==
    /\ drawn < MaxHistories
    /\ kept' = [slot |-> slot, history |-> history, last_created |-> last_created]
    /\ UNCHANGED <<state, drawn, ghosts>>

Next ==
    \/ \E now \in Clock :
        \/ ExpireStream(now)
        \/ \E tok \in minted \cup {NoToken}, 
              w \in Requests, b \in Bodies :
                WriteLive(now, tok, w, b)
        \/ \E b \in Bodies, ttl \in Ttls, exp \in Expiries : Create(now, b, ttl, exp)
        \/ \E tok \in minted \cup {NoToken} : Delete(now, tok)
        \/ Touch(now)
        \/ Tidy(now)
        \/ Genesis(now)
        \/ AcceptLoss(now)
    \/ CatchUp

Spec == Init /\ [][Next]_vars

---------------------------------------------------------------------------
(* Properties. *)

(* Every variable holds a value of its type. *)
TypeOK ==
    /\ slot \in Slot \cup {NoSlot}
    /\ history \in Nat
    /\ last_created \in Nat
    /\ kept \in [slot : Slot \cup {NoSlot}, history : Nat, last_created : Nat]
    /\ drawn \in Nat
    /\ writes \in Nat
    /\ removals \in Nat
    /\ minted \subseteq Token
    /\ served \subseteq Token \X Entry
    /\ reports \subseteq [producer : Producer, epoch : Nat, seq : Nat, at : Nat]

SameEpoch(x, y) ==
    x.producer # NoProducer /\ x.producer = y.producer /\ x.epoch = y.epoch
SameKey(x, y) == SameEpoch(x, y) /\ x.seq = y.seq

(* A write that carries Stream-Incarnation never applies a key the stream   *)
(* already holds, however its record was retired, evicted, reopened below   *)
(* the floor or carried through a loss in between: producer_record.rs's     *)
(* "a tokened write never reaches an epoch the stream forgot".              *)
ExactlyOnceIn(s) ==
    \A i, j \in DOMAIN s.log :
        i < j /\ SameKey(s.log[i], s.log[j]) => ~s.log[j].tokened
ExactlyOnce == slot # NoSlot => ExactlyOnceIn(slot)

(* A history event closes every epoch claimed before it (row 11): a tokened *)
(* write continues an epoch only in the history that claimed it.            *)
HistoryFenceIn(s) ==
    \A i, j \in DOMAIN s.log :
        i < j /\ SameEpoch(s.log[i], s.log[j]) /\ s.log[j].tokened
            => s.log[i].history = s.log[j].history
HistoryFence == slot # NoSlot => HistoryFenceIn(slot)

(* What the two need to be inductive.  All that a stream remembers of a     *)
(* producer bounds all it ever applied for it: without a record, or with    *)
(* one opened below the floor, its writes are at or below the floor; with   *)
(* one opened above, they are at or below the record, and those of its      *)
(* epoch at or below its seq and of its history.                            *)
RemembersProducer(s, p) ==
    LET r == s.producers[p]
    IN  IF r # NoRecord /\ r.opened = "AboveFloor"
        THEN \A i \in DOMAIN s.log :
                s.log[i].producer = p =>
                    /\ s.log[i].epoch <= r.epoch
                    /\ s.log[i].epoch = r.epoch =>
                        s.log[i].seq <= r.last_seq /\ s.log[i].history = r.history
        ELSE /\ r # NoRecord => r.epoch <= s.floor
             /\ \A i \in DOMAIN s.log :
                    s.log[i].producer = p => s.log[i].epoch <= s.floor

SlotInv(s) ==
    /\ ExactlyOnceIn(s)
    /\ HistoryFenceIn(s)
    /\ \A p \in Producer : RemembersProducer(s, p)

(* The inductive invariant: it holds of the stream and of the state a loss  *)
(* would leave.                                                             *)
IInv ==
    /\ slot # NoSlot => SlotInv(slot)
    /\ kept.slot # NoSlot => SlotInv(kept.slot)

Holds(s, p, key) ==
    {i \in DOMAIN s.log : /\ s.log[i].producer = p
                          /\ s.log[i].epoch = key.epoch
                          /\ s.log[i].seq = key.seq}

Evaluated(s, p, key, tokened) ==
    Evaluate(s.producers[p], s.floor, history, key, tokened)

Keys == [epoch : Epochs, seq : Seqs, digest : Digest]

(* An answer "this applied before" (rows 9 and 10) is true: the stream      *)
(* holds a write of that key, and a receipt is the range of the write with  *)
(* that very identity.                                                      *)
RepeatTruth ==
    slot # NoSlot =>
        \A p \in Producer, key \in Keys, tokened \in BOOLEAN :
            LET kind == Evaluated(slot, p, key, tokened).kind
                record == slot.producers[p]
            IN  /\ kind = "Evicted" => Holds(slot, p, key) # {}
                /\ kind = "Repeat" =>
                    \E i \in Holds(slot, p, key) :
                        /\ slot.log[i].digest = key.digest
                        /\ slot.log[i].start = record.receipt.start
                        /\ slot.log[i].next = record.receipt.next

(* Once an answer named epoch e of a producer closed after seq s, no        *)
(* tokened write of e above s ever applies under that token, whatever       *)
(* happens to the record that knew it.                                      *)
ClosedReportFinal ==
    \A r \in reports : \A i \in DOMAIN slot.log :
        /\ i > r.at
        /\ slot.log[i].producer = r.producer
        /\ slot.log[i].epoch = r.epoch
        /\ slot.log[i].tokened
        => slot.log[i].seq <= r.seq

(* A refusal names the way out and the way out is open: the epoch above the *)
(* one it names can be claimed, the seq it expects applies (no producer is  *)
(* stuck between the floor, its record and the history fence).              *)
RefusalEscapable ==
    slot # NoSlot =>
        \A p \in Producer, key \in Keys, tokened \in BOOLEAN :
            LET answer == Evaluated(slot, p, key, tokened)
                Kind(epoch, seq) ==
                    Evaluated(slot, p, [epoch |-> epoch, seq |-> seq,
                                        digest |-> key.digest], tokened).kind
            IN  /\ answer.kind \in {"Expired", "EpochClosed", "StaleEpoch"}
                      => Kind(answer.epoch + 1, 0) = "Claim"
                /\ answer.kind = "EpochNotClaimed" => Kind(key.epoch, 0) = "Claim"
                /\ answer.kind = "SeqGap"
                      => Kind(key.epoch, answer.epoch) \in {"Claim", "Next"}

(* A stream never holds more producers than the cap: what producer_cap_     *)
(* admits lets in, the enforcement after the write makes room for.          *)
CapHeld == slot # NoSlot => Cardinality(Known(slot)) <= MaxProducers

(* stream_inherited: the history and offset HEAD reports. *)
InheritedReport(s) ==
    IF s.history # history THEN [history |-> s.history, offset |-> s.tail]
    ELSE s.inherited

BytesBelow(entries, offset) ==
    {e \in entries : e.start < offset /\ e.next > e.start}

(* The bytes below Stream-Inherited-Offset are exactly those served at      *)
(* those offsets under Stream-Previous-Incarnation, which is never the      *)
(* current token, through any number of losses and writes between them.     *)
InheritedTruth ==
    slot # NoSlot /\ InheritedReport(slot) # NotInherited =>
        LET report == InheritedReport(slot)
            previous == TokenOf(slot, report.history)
        IN  /\ report.history # history
            /\ report.offset <= slot.tail
            /\ BytesBelow({x[2] : x \in {y \in served : y[1] = previous}}, report.offset)
                 = BytesBelow({slot.log[i] : i \in DOMAIN slot.log}, report.offset)

CurrentToken == IF slot = NoSlot THEN NoToken ELSE TokenOf(slot, history)

(* A token names one incarnation in one history: when the stream's token    *)
(* changes (a recreate, a restore, a loss) it becomes one never seen, so a  *)
(* client's equality test never confuses two streams.                       *)
TokenNeverReused ==
    [][CurrentToken' # CurrentToken /\ slot' # NoSlot => CurrentToken' \notin minted]_vars

(* A create never takes the created_at, and with it the cold generation and *)
(* object paths, of an incarnation a loss took (new_history raises the C7   *)
(* counter for it).                                                         *)
GenerationFresh ==
    [][/\ slot' # NoSlot /\ drawn' = drawn
       /\ slot = NoSlot \/ slot'.created # slot.created
       => slot'.created \notin Assigned]_vars

===========================================================================

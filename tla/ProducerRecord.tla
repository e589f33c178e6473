-------------------------- MODULE ProducerRecord --------------------------
(***************************************************************************)
(* The producer record of a stream and the evaluation of one keyed write,  *)
(* the pure part of ursula-stream's producer protocol                      *)
(* (state_machine/producer_record.rs).                                     *)
(*                                                                         *)
(* A keyed write names (producer, epoch, seq) and carries a digest that    *)
(* identifies it.  A stream keeps one record per producer, and one number, *)
(* the epoch floor: the highest epoch of any record it discarded.          *)
(*                                                                         *)
(* An absent number (Rust's Option::None) is Absent = -1, below every      *)
(* epoch, so `at_or_below(None, e)` is the plain comparison e <= floor.    *)
(* A digest is a member of Digest; "no digest" is one of its members.      *)
(***************************************************************************)
EXTENDS Integers

CONSTANTS
    Digest,       \* identities a write may carry, the absent one included
    NoRecord      \* the value of "this producer has no record"

Absent == -1

(* ClosedEpoch: epoch `epoch` ended after seq `seq`. *)
ClosedEpoch == [epoch : Nat, seq : Nat]
NotClosed == [epoch |-> Absent, seq |-> Absent]

(* WriteReceipt: the byte range a write holds, and whether it closed. *)
Receipt == [start : Nat, next : Nat, closed : BOOLEAN]

Opened == {"AboveFloor", "BelowFloor"}

(* ProducerState. *)
Record ==
    [epoch : Nat, last_seq : Nat, claim_digest : Digest,
     receipt : Receipt, digest : Digest,
     closed_epoch : ClosedEpoch \cup {NotClosed},
     opened : Opened, history : Nat, last_seen : Nat]

(* WriteKey. *)
Key == [epoch : Nat, seq : Nat, digest : Digest]

ASSUME NoRecordAssumption == NoRecord \notin Record

---------------------------------------------------------------------------
(* Evaluation: what the table decides for a write.  `epoch` is the epoch or *)
(* floor a refusal names, or the seq a gap expects; `closed` the closure a  *)
(* claim makes or an answer reports; `opened` the marker a claim sets.      *)

Claim(closes, opened) ==
    [kind |-> "Claim", epoch |-> Absent, closed |-> closes, opened |-> opened]

Answer(kind, epoch, closed) ==
    [kind |-> kind, epoch |-> epoch, closed |-> closed, opened |-> "AboveFloor"]

\* Mutant: a reopened record forgets that it is below the floor.
OpenedUnmarked(floor, epoch) == "AboveFloor"

OpenedAt(floor, epoch) ==
    IF epoch <= floor THEN "BelowFloor" ELSE "AboveFloor"

\* Mutant: the refusal names the write's epoch, not the floor.
EvaluateNewNamesEpoch(floor, key, tokened) ==
    IF tokened /\ key.epoch <= floor THEN Answer("Expired", key.epoch, NotClosed)
    ELSE IF key.seq = 0 THEN Claim(NotClosed, OpenedAt(floor, key.epoch))
    ELSE Answer("SeqGap", 0, NotClosed)

(* Rows 1 to 3: a producer without a record. *)
EvaluateNew(floor, key, tokened) ==
    IF tokened /\ key.epoch <= floor THEN Answer("Expired", floor, NotClosed)
    ELSE IF key.seq = 0 THEN Claim(NotClosed, OpenedAt(floor, key.epoch))
    ELSE Answer("SeqGap", 0, NotClosed)

(* A tokened write on a record opened below the floor is expired, unless it *)
(* claims above both.                                                       *)
ReachesForgotten(record, floor, key, tokened) ==
    /\ tokened
    /\ record.opened = "BelowFloor"
    /\ floor # Absent
    /\ ~(key.seq = 0 /\ key.epoch > record.epoch /\ key.epoch > floor)

(* Rows 4 and 5: an epoch older than the record's. *)
EvaluateOlder(record, key) ==
    IF record.closed_epoch.epoch = key.epoch
    THEN Answer("EpochClosed", record.epoch, record.closed_epoch)
    ELSE Answer("StaleEpoch", record.epoch, NotClosed)

(* Rows 6 and 7: a later epoch.  Only a record opened above the floor says  *)
(* what its claim closes.                                                   *)
EvaluateLater(record, floor, key) ==
    IF key.seq # 0 THEN Answer("EpochNotClaimed", Absent, NotClosed)
    ELSE IF record.opened = "AboveFloor"
    THEN Claim([epoch |-> record.epoch, seq |-> record.last_seq], "AboveFloor")
    ELSE Claim(NotClosed, OpenedAt(floor, key.epoch))

(* Row 8: the claim and the newest write keep their identity. *)
DigestConflicts(record, key) ==
    \/ key.seq = 0 /\ key.digest # record.claim_digest
    \/ key.seq # 0 /\ key.seq = record.last_seq /\ key.digest # record.digest

\* Mutant: an epoch continues across a history event.
NeverFenced(record, history) == FALSE

(* Row 11: the record's epoch was claimed in an earlier history. *)
HistoryFenced(record, history) == record.history # history

(* Rows 8 to 13: the record's own epoch. *)
EvaluateCurrent(record, history, key) ==
    LET reported == IF key.seq = 0 THEN record.closed_epoch ELSE NotClosed
    IN  IF DigestConflicts(record, key)
        THEN Answer("KeyConflict", record.epoch, NotClosed)
        ELSE IF key.seq = record.last_seq
        THEN Answer("Repeat", record.epoch, reported)
        ELSE IF key.seq < record.last_seq
        THEN Answer("Evicted", record.epoch, reported)
        ELSE IF HistoryFenced(record, history)
        THEN Answer("EpochClosed", record.epoch,
                    [epoch |-> record.epoch, seq |-> record.last_seq])
        ELSE IF key.seq = record.last_seq + 1
        THEN Answer("Next", record.epoch, NotClosed)
        ELSE Answer("SeqGap", record.last_seq + 1, NotClosed)

(* evaluate: the first row that matches decides. *)
Evaluate(record, floor, history, key, tokened) ==
    IF record = NoRecord THEN EvaluateNew(floor, key, tokened)
    ELSE IF ReachesForgotten(record, floor, key, tokened)
    THEN Answer("Expired", floor, NotClosed)
    ELSE IF key.epoch < record.epoch THEN EvaluateOlder(record, key)
    ELSE IF key.epoch > record.epoch THEN EvaluateLater(record, floor, key)
    ELSE EvaluateCurrent(record, history, key)

---------------------------------------------------------------------------
(* ProducerState::claimed: the record after a claim applied. *)
Claimed(key, evaluation, history, receipt, now) ==
    [epoch |-> key.epoch, last_seq |-> key.seq, claim_digest |-> key.digest,
     receipt |-> receipt, digest |-> key.digest,
     closed_epoch |-> evaluation.closed, opened |-> evaluation.opened,
     history |-> history, last_seen |-> now]

\* Mutant: the receipt of the write before stays.
AdvancedOldReceipt(record, key, receipt, now) ==
    [record EXCEPT !.last_seq = key.seq, !.digest = key.digest, !.last_seen = now]

(* ProducerState::advance: the record after the next seq applied. *)
Advanced(record, key, receipt, now) ==
    [record EXCEPT !.last_seq = key.seq, !.receipt = receipt,
                   !.digest = key.digest, !.last_seen = now]

============================================================================

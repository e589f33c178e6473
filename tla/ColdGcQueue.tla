---------------------------- MODULE ColdGcQueue ----------------------------
(***************************************************************************)
(* The replicated queue of cold objects to reclaim (ursula-stream,         *)
(* state_machine/cold_gc.rs).  A queue is a record of the pending entries, *)
(* oldest first, and the number the next entry takes.  An entry names a    *)
(* set of object paths, or (gen # 0) every object of one removed stream    *)
(* incarnation; graced marks an entry with a not-before time, which the    *)
(* worker may find not yet due.                                            *)
(***************************************************************************)
EXTENDS Naturals, Sequences

EmptyQueue == [pending |-> <<>>, next |-> 1]

\* Mutant of Push: the counter stays.
PushUnbumped(q, gen, paths, graced) ==
  [q EXCEPT !.pending = Append(@, [seq |-> q.next, gen |-> gen,
                                   paths |-> paths, graced |-> graced])]

\* ColdGcQueue::push: stamps the entry with the next number.
Push(q, gen, paths, graced) ==
  [pending |-> Append(q.pending, [seq |-> q.next, gen |-> gen,
                                  paths |-> paths, graced |-> graced]),
   next |-> q.next + 1]

EnqueueStream(q, gen) == Push(q, gen, {}, FALSE)

EnqueueAfter(q, paths, graced) == Push(q, 0, paths, graced)

\* An entry for each path of the sequence.
EnqueueEach(q, order, graced) ==
  [pending |-> q.pending \o [i \in 1 .. Len(order) |->
                               [seq |-> q.next + i - 1, gen |-> 0,
                                paths |-> {order[i]}, graced |-> graced]],
   next |-> q.next + Len(order)]

\* ColdGcQueue::ack: pops entries from the front while their number is at
\* most upTo.
Ack(q, upTo) ==
  LET n == Len(q.pending)
      popped == {k \in 0 .. n : \A i \in 1 .. k : q.pending[i].seq <= upTo}
      k == CHOOSE m \in popped : \A j \in popped : j <= m
  IN  [q EXCEPT !.pending = SubSeq(q.pending, k + 1, n)]

\* Mutant of Defer: the deferred entry keeps its number at the tail.
DeferUnstamped(q, seq) ==
  LET at == {i \in 1 .. Len(q.pending) : q.pending[i].seq = seq}
      i == CHOOSE j \in at : TRUE
  IN  IF at = {} THEN q
      ELSE [q EXCEPT !.pending = Append(SubSeq(q.pending, 1, i - 1)
                                        \o SubSeq(q.pending, i + 1, Len(q.pending)),
                                        q.pending[i])]

\* ColdGcQueue::defer: moves the entry to the tail under a new number, with
\* a not-before time.  An unknown number changes nothing.
Defer(q, seq) ==
  LET at == {i \in 1 .. Len(q.pending) : q.pending[i].seq = seq}
      i == CHOOSE j \in at : TRUE
      e == q.pending[i]
  IN  IF at = {} THEN q
      ELSE Push([q EXCEPT !.pending = SubSeq(q.pending, 1, i - 1)
                                      \o SubSeq(q.pending, i + 1, Len(q.pending))],
                e.gen, e.paths, TRUE)

Entries(q) == {q.pending[i] : i \in 1 .. Len(q.pending)}
=============================================================================

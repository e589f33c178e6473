---------------------------- MODULE ExpiryIndex ----------------------------
(***************************************************************************)
(* Stream expiry in one group: the registry's TTL index (registry.rs,      *)
(* ttl.rs), the commands that create, renew and remove streams, and the    *)
(* leader's sweep, whose pass looks at the index of its own replica and    *)
(* proposes entries that apply later (expiry_sweep.rs, the engine's sweep  *)
(* loop).  Each command carries the clock of the node that proposed it.    *)
(***************************************************************************)
EXTENDS Integers, FiniteSets, FiniteSetsExt, Functions

CONSTANTS
  Streams,     \* stream ids, in compare_stream_ids order
  Nodes,       \* the nodes that propose, each with its own clock
  Ttls,        \* stream_ttl_seconds values
  Fixed,       \* stream_expires_at_ms values
  Limit,       \* STREAMS_PER_COMMAND
  PassEntries, \* MAX_COMMANDS_PER_GROUP
  Grace,       \* CLOCK_GRACE
  Skew,        \* how far the nodes' clocks lie apart at most
  MaxTime,     \* the largest time, where sums saturate
  MaxKeys      \* bound: slots ever inserted

ASSUME ExpiryAssumption ==
  /\ Streams \subseteq Nat /\ IsFiniteSet(Streams)
  /\ Ttls \cup {Limit, PassEntries, Grace, Skew, MaxTime, MaxKeys} \subseteq Nat
  /\ Fixed \subseteq 0..MaxTime
  /\ Limit > 0 /\ PassEntries > 0

Times == 0..MaxTime
Never == -1

VARIABLES
  slots,    \* StreamRegistry.slots by stream: [key, ttl, fixed, touch]
  heap,     \* StreamRegistry.ttl: entries [at, s, key]
  armed,    \* StreamRegistry.armed: slot key -> expiry of its armed entry
  keys,     \* slot keys given out
  clock,    \* the wall clock of each node
  pass,     \* the leader's pass: its now_ms, the entries it committed and
            \* whether one is proposed (on a pass that is over: one that
            \* failed and may yet commit); or NoPass
  removed   \* the streams the last entry swept

vars == <<slots, heap, armed, keys, clock, pass, removed>>
NoPass == [on |-> FALSE, now |-> 0, entries |-> 0, proposed |-> FALSE]

\* Mutant of Saturated: the sum of a touch and a ttl may pass the last time.
SaturatedNot(t) == t
\* saturating_add.
Saturated(t) == Min({t, MaxTime})

\* stream_expiry_at_ms.
ExpiryOf(slot) ==
  IF slot.fixed # Never THEN slot.fixed
  ELSE IF slot.ttl # Never THEN Saturated(slot.touch + slot.ttl) ELSE Never

\* Mutant of IsExpired: off by one at the deadline.
IsExpiredAfter(slot, now) == ExpiryOf(slot) # Never /\ now > ExpiryOf(slot)
\* stream_is_expired.
IsExpired(slot, now) == ExpiryOf(slot) # Never /\ now >= ExpiryOf(slot)

-----------------------------------------------------------------------------
(* The registry, as operators on r = [slots, heap, armed].                 *)

reg == [slots |-> slots, heap |-> heap, armed |-> armed]

\* The map f with x at v.
With(f, x, v) == [y \in DOMAIN f \cup {x} |-> IF y = x THEN v ELSE f[y]]
Without(f, x) == Restrict(f, DOMAIN f \ {x})
NoMap == [x \in {} |-> Never]

\* TtlEntry::cmp.
Sooner(e, f) ==
  \/ e.at < f.at
  \/ e.at = f.at /\ e.s < f.s
  \/ e.at = f.at /\ e.s = f.s /\ e.key < f.key

Front(h) == CHOOSE e \in h : \A f \in h : f = e \/ Sooner(e, f)

FrontDue(h, now) == h # {} /\ Front(h).at <= now

\* arm_ttl_entry of the live stream s.
Arm(r, s) ==
  LET slot == r.slots[s]
      at   == ExpiryOf(slot)
  IN IF \/ at = Never
        \/ slot.key \in DOMAIN r.armed /\ r.armed[slot.key] <= at
     THEN r
     ELSE [slots |-> r.slots,
           heap  |-> r.heap \cup {[at |-> at, s |-> s, key |-> slot.key]},
           armed |-> With(r.armed, slot.key, at)]

\* The entries of the armed streams.
ArmedEntries(r) ==
  {[at |-> r.armed[r.slots[s].key], s |-> s, key |-> r.slots[s].key] :
     s \in {t \in DOMAIN r.slots : r.slots[t].key \in DOMAIN r.armed}}

\* Mutant of Rebuild: never.
RebuildNever(r) == r
\* rebuild_ttl_if_bloated.
Rebuild(r) ==
  IF Cardinality(r.heap) <= 2 * Cardinality(DOMAIN r.armed) THEN r
  ELSE [r EXCEPT !.heap = ArmedEntries(r)]

Insert(r, s, slot) == Arm([r EXCEPT !.slots = With(@, s, slot)], s)

RefreshTtl(r, s) == Rebuild(Arm(r, s))

RemoveSlot(r, s) ==
  Rebuild([slots |-> Without(r.slots, s), heap |-> r.heap,
           armed |-> Without(r.armed, r.slots[s].key)])

Disarm(r, key) == [r EXCEPT !.armed = Without(@, key)]

\* Mutant of Popped: a renewed stream's entry is dropped, not re-armed.
PoppedDropped(r, e) ==
  LET q == [r EXCEPT !.heap = @ \ {e}]
  IN IF \/ e.s \notin DOMAIN r.slots \/ r.slots[e.s].key # e.key
        \/ e.key \notin DOMAIN r.armed \/ r.armed[e.key] # e.at
     THEN q
     ELSE Disarm(q, e.key)
\* What popping the front entry e leaves: a stale entry is discarded, the
\* entry of a renewed stream re-armed at its true expiry, and any other
\* disarmed.
Popped(r, e) ==
  LET q  == [r EXCEPT !.heap = @ \ {e}]
      at == ExpiryOf(r.slots[e.s])
  IN IF \/ e.s \notin DOMAIN r.slots \/ r.slots[e.s].key # e.key
        \/ e.key \notin DOMAIN r.armed \/ r.armed[e.key] # e.at
     THEN q
     ELSE IF at > e.at
     THEN [slots |-> r.slots,
           heap  |-> q.heap \cup {[at |-> at, s |-> e.s, key |-> e.key]},
           armed |-> With(r.armed, e.key, at)]
     ELSE Disarm(q, e.key)

\* The pop of e returns its stream: e was armed, at the stream's expiry.
Returns(r, e, now) ==
  /\ e.s \in DOMAIN r.slots /\ r.slots[e.s].key = e.key
  /\ e.key \in DOMAIN r.armed /\ r.armed[e.key] = e.at
  /\ ExpiryOf(r.slots[e.s]) = e.at
  /\ IsExpired(r.slots[e.s], now)

\* One turn of the loop of `sweep` over pop_expired at `now`, where l has the
\* registry r, how many streams are left to remove and those removed: the
\* front entry is popped, and the stream it returns is removed.
Turn(l, now) ==
  IF l.left = 0 \/ ~FrontDue(l.r.heap, now) THEN l
  ELSE LET e == Front(l.r.heap)
       IN IF Returns(l.r, e, now)
          THEN [r |-> RemoveSlot(Popped(l.r, e), e.s), left |-> l.left - 1,
                got |-> l.got \cup {e.s}]
          ELSE [l EXCEPT !.r = Popped(@, e)]

\* The loop after each number of turns.
Loop(r, now, n) ==
  LET loop[i \in Nat] == IF i = 0 THEN [r |-> r, left |-> n, got |-> {}]
                         ELSE Turn(loop[i - 1], now)
  IN loop

\* The loop's outcome.  An entry is popped at most twice, the second time at
\* its stream's expiry, so by then the loop has ended.
Swept(r, now, n) == Loop(r, now, n)[2 * Cardinality(r.heap)]

Become(r) == slots' = r.slots /\ heap' = r.heap /\ armed' = r.armed

-----------------------------------------------------------------------------
(* The commands, each proposed by a node n with its clock.                 *)

Init ==
  /\ slots = NoMap
  /\ heap = {}
  /\ armed = NoMap
  /\ keys = 0
  /\ clock = [n \in Nodes |-> 0]
  /\ pass = NoPass
  /\ removed = {}

Live(s) == s \in DOMAIN slots
Command == removed' = {} /\ UNCHANGED <<clock, pass>>

\* A create, over an expired stream too.  A stream has a ttl, a fixed
\* expiry, or neither (validate_retention).
CreateStream(n, s, ttl, fixed) ==
  LET r == IF Live(s) THEN RemoveSlot(reg, s) ELSE reg
  IN /\ Live(s) => IsExpired(slots[s], clock[n])
     /\ keys < MaxKeys
     /\ keys' = keys + 1
     /\ Become(Insert(r, s, [key |-> keys, ttl |-> ttl, fixed |-> fixed,
                             touch |-> clock[n]]))
     /\ Command

DeleteStream(s) ==
  /\ Live(s)
  /\ Become(RemoveSlot(reg, s))
  /\ Command
  /\ UNCHANGED keys

\* renew_stream_ttl.
Renewed(slot, now) ==
  IF slot.ttl # Never /\ slot.fixed = Never
  THEN [slot EXCEPT !.touch = Max({@, now})] ELSE slot

\* An append or an access of a live stream: an expired one is removed,
\* another renewed.
Touch(n, s) ==
  /\ Live(s)
  /\ IF IsExpired(slots[s], clock[n]) THEN Become(RemoveSlot(reg, s))
     ELSE Become(RefreshTtl([reg EXCEPT !.slots = With(@, s, Renewed(slots[s], clock[n]))], s))
  /\ Command
  /\ UNCHANGED keys

\* Mutant of SweepNow: no grace.
SweepNowAtOnce(t) == t
\* sweep_now_ms.
SweepNow(t) == Max({0, t - Grace})

SamePlace == removed' = {} /\ UNCHANGED <<slots, heap, armed, keys, clock>>

\* A pass of the leader n begins: its now_ms is fixed for the whole pass.
\* (One that finds nothing due ends at once and changes nothing.  An entry
\* of an earlier pass commits before those of this one or never.)
BeginPass(n) ==
  /\ ~pass.on /\ ~pass.proposed
  /\ FrontDue(heap, SweepNow(clock[n]))
  /\ pass' = [on |-> TRUE, now |-> SweepNow(clock[n]), entries |-> 0, proposed |-> FALSE]
  /\ SamePlace

\* The loop finds the group due and proposes a Sweep.
ProposeSweep ==
  /\ pass.on /\ ~pass.proposed
  /\ FrontDue(heap, pass.now)
  /\ pass.entries < PassEntries
  /\ pass' = [pass EXCEPT !.proposed = TRUE]
  /\ SamePlace

\* The pass's side of an entry that applies.
Committed ==
  /\ pass.proposed
  /\ pass' = [on |-> pass.on, now |-> pass.now, entries |-> pass.entries + 1,
              proposed |-> FALSE]

\* The entry applies; other commands may have applied since the loop looked.
ApplySweep ==
  /\ Committed
  /\ LET swept == Swept(reg, pass.now, Limit)
     IN Become(swept.r) /\ removed' = swept.got
  /\ UNCHANGED <<keys, clock>>

\* The pass ends: nothing is due any more, it reached its cap or its budget,
\* or its look at the index failed.
EndPass ==
  /\ pass.on /\ ~pass.proposed
  /\ pass' = NoPass
  /\ SamePlace

\* An error ends the pass: its entry is gone, or may commit later.
FailPass ==
  /\ pass.proposed
  /\ pass' \in {NoPass, [pass EXCEPT !.on = FALSE]}
  /\ SamePlace

\* A restore inserts every slot anew: the index is rebuilt from metadata.
Restore ==
  LET live == {s \in DOMAIN slots : ExpiryOf(slots[s]) # Never}
  IN /\ heap' = {[at |-> ExpiryOf(slots[s]), s |-> s, key |-> slots[s].key] : s \in live}
     /\ armed' = [k \in {slots[s].key : s \in live} |->
                    ExpiryOf(slots[CHOOSE s \in live : slots[s].key = k])]
     /\ removed' = {}
     /\ UNCHANGED <<slots, keys, clock, pass>>

\* Time passes on node n, no further than Skew ahead of any other.
Tick(n) ==
  /\ clock[n] < MaxTime
  /\ \A m \in Nodes : clock[n] + 1 - clock[m] <= Skew
  /\ clock' = [clock EXCEPT ![n] = @ + 1]
  /\ removed' = {}
  /\ UNCHANGED <<slots, heap, armed, keys, pass>>

Next ==
  \/ \E n \in Nodes, s \in Streams :
       \/ CreateStream(n, s, Never, Never)
       \/ \E t \in Ttls : CreateStream(n, s, t, Never)
       \/ \E t \in Fixed : CreateStream(n, s, Never, t)
       \/ Touch(n, s)
  \/ \E s \in Streams : DeleteStream(s)
  \/ \E n \in Nodes : BeginPass(n) \/ Tick(n)
  \/ ProposeSweep
  \/ ApplySweep
  \/ EndPass
  \/ FailPass
  \/ Restore

Spec == Init /\ [][Next]_vars

\* The tidy driver begins a pass every interval and its loop goes on; clocks
\* advance.  Every interval tries anew, so it is assumed that not every pass
\* ends before its first entry (by an elapsed budget or a failed look) and
\* not every entry proposed fails: strong fairness of ProposeSweep, which
\* EndPass disables, and of ApplySweep, which FailPass disables.  (Every step
\* that is Committed is an ApplySweep.)
FairSpec ==
  /\ Spec
  /\ WF_vars(\E n \in Nodes : Tick(n))
  /\ WF_vars((\E n \in Nodes : BeginPass(n)) \/ ProposeSweep \/ EndPass)
  /\ SF_vars(ProposeSweep)
  /\ SF_pass(Committed)

-----------------------------------------------------------------------------
(* Properties.                                                             *)

Slot == [key : 0..MaxKeys, ttl : Ttls \cup {Never}, fixed : Fixed \cup {Never},
         touch : Times]
Entry == [at : Times, s : Streams, key : 0..MaxKeys]
Maps(D, R) == UNION {[E -> R] : E \in SUBSET D}
Registry == [slots : Maps(Streams, Slot), heap : SUBSET Entry,
             armed : Maps(0..MaxKeys, Times)]

TypeOK ==
  /\ reg \in Registry
  /\ keys \in 0..MaxKeys
  /\ clock \in [Nodes -> Times]
  /\ pass \in [on : BOOLEAN, now : Times, entries : Nat, proposed : BOOLEAN]
  /\ removed \in SUBSET Streams

\* ttl_front_due answers `false` exactly: when the heap's front is not due
\* at any time, no live stream has expired at that time.  A renewal, a
\* removal, a rebuild or a restore hides no stream that is due.
FrontExact ==
  \A now \in Times :
    ~FrontDue(heap, now) => \A s \in DOMAIN slots : ~IsExpired(slots[s], now)

\* The heap holds at most two entries per stream with an expiry, however
\* often streams are renewed, removed and recreated.
HeapBounded ==
  Cardinality(heap) <=
    2 * Cardinality({s \in DOMAIN slots : ExpiryOf(slots[s]) # Never})

\* A stream the sweep removes has expired on every node's clock, whichever
\* leader's clock stamped the entry and however late it applies, while the
\* clocks lie no further apart than the grace: none still served it.
GoneForAll ==
  [][\A s \in removed' : \A n \in Nodes : IsExpired(slots[s], clock[n])]_vars

\* The index implements the plain set of expiries.
Expiries == [s \in DOMAIN slots |-> ExpiryOf(slots[s])]
Abstract == INSTANCE ExpirySet WITH expiry <- Expiries
SweepsInOrder == Abstract!Spec

\* Every stream is removed or renewed once it has expired on every node and
\* the grace has passed, while the sweep runs.
Overdue(s) ==
  /\ Live(s)
  /\ \A n \in Nodes : IsExpired(slots[s], SweepNow(clock[n]))
ExpiredLeave == \A s \in Streams : Overdue(s) ~> ~Overdue(s)

=============================================================================

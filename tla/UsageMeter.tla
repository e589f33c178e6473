----------------------------- MODULE UsageMeter -----------------------------
(***************************************************************************)
(* A metering consumer of one group's usage export, over the ledgers of    *)
(* two replicas: the newest applied state, and one that lags it.  The      *)
(* consumer is the MeteredGroup of ursula-sim's usage_meter.rs, which      *)
(* follows the export's contract (operations, "Per-stream usage", rules 1  *)
(* to 8).  A read is answered by either replica; of the pages several      *)
(* replicas answer the consumer keeps the newest, so a read that kept the  *)
(* lagging replica's page reached no newer one.  An accepted loss makes    *)
(* the lagging replica's state the group's, with a new history and term,   *)
(* and the replica that held the lost suffix goes on serving it.           *)
(***************************************************************************)
EXTENDS UsageLedger, TLC

CONSTANTS
  MaxEntries,    \* bound: entries applied, of every lineage
  MaxHistories   \* bound: history events, the genesis included

VARIABLES
  group,     \* the newest replica's ledger
  lag,       \* the lagging replica's ledger
  cursor,    \* MeteredGroup.cursor
  listing,   \* MeteredGroup.relisting: [on, rows, retired, listed]
  settled,   \* MeteredGroup.complete(): the kept page is complete
  meter,     \* the consumer's accounts, as MeteredGroup holds them
  truth      \* what happened: units ever counted, the baseline, losses,
             \* entries, and whether a record folded that the consumer missed

vars == <<group, lag, cursor, listing, settled, meter, truth>>
replicas == <<group, lag>>

NoListing == [on |-> FALSE, rows |-> {}, retired |-> <<>>, listed |-> {}]

Get(f, k) == IF k \in DOMAIN f THEN f[k] ELSE 0
Floor(a, b) == IF a >= b THEN a - b ELSE 0
BucketKeys(K, b) == {k \in K : BucketOf[k.s] = b}
Levels(f, K, b) == MapThenSumSet(LAMBDA k : Get(f, k), BucketKeys(K, b))
Keys(E) == {e.key : e \in E}
EntryOf(E, k) == CHOOSE e \in E : e.key = k
Alarm(m, kind, bad) == [m EXCEPT !.alarms = @ \cup (IF bad THEN {kind} ELSE {})]

Init ==
  /\ group = EmptyLedger
  /\ lag = EmptyLedger
  /\ cursor = Start
  /\ listing = NoListing
  /\ settled = FALSE
  /\ meter = [history |-> 0, billed |-> <<>>, ended |-> <<>>, folded |-> <<>>,
              view |-> [b \in Buckets |-> 0], accounted |-> <<>>,
              toBuckets |-> [b \in Buckets |-> 0], alarms |-> {}]
  /\ truth = [ever |-> [b \in Buckets |-> 0], versions |-> <<>>,
              start |-> [b \in Buckets |-> 0], losses |-> 0, entries |-> 0,
              missed |-> FALSE]

-----------------------------------------------------------------------------
(* The group.                                                              *)

consumer == <<cursor, listing, settled, meter>>

\* The versions a ledger still lists, live or ended.
Listed(l) == {KeyOf(s, l.live[s]) : s \in Live(l)} \cup {e.key : e \in l.ends}

\* An end record folds that the consumer has not listed: it read less often
\* than the retention (rule 10), or a purge ended more streams than the cap.
Misses(n) == ~(Listed(group) \ Listed(n) \subseteq DOMAIN meter.ended)

\* The entry that turns the newest ledger into n applied.
Commit(n) ==
  /\ truth.entries < MaxEntries
  /\ group' = Apply(n)
  /\ UNCHANGED <<lag, consumer>>

Happened(n) == [truth EXCEPT !.entries = @ + 1, !.missed = @ \/ Misses(n)]

\* A counted write of stream s of the ledger n.
Counted(n, s) ==
  LET k == KeyOf(s, n.live[s])
  IN truth' = [Happened(n) EXCEPT !.ever[BucketOf[s]] = @ + 1,
                 !.versions = (k :> Get(truth.versions, k) + 1) @@ @]
Uncounted(n) == truth' = Happened(n)

CreateStream(s) ==
  /\ s \notin Live(group)
  /\ BucketOf[s] \notin group.erased
  /\ LET n == UsageOnCreate(group, s) IN Commit(n) /\ Counted(n, s)

Append(s) ==
  /\ s \in Live(group)
  /\ LET n == UsageOnAppend(group, s) IN Commit(n) /\ Counted(n, s)

\* A snapshot publish or a retention advance.
ChangeSize(s) ==
  /\ s \in Live(group)
  /\ LET n == UsageOnSizeChange(group, s) IN Commit(n) /\ Uncounted(n)

DeleteStream(s) ==
  /\ s \in Live(group)
  /\ LET n == UsageOnEnd(group, s) IN Commit(n) /\ Uncounted(n)

PurgeBucket(b) ==
  LET n == [EndAll(group, {s \in Live(group) : BucketOf[s] = b})
              EXCEPT !.erased = @ \cup {b}]
  IN b \notin group.erased /\ Commit(n) /\ Uncounted(n)

\* The leader's sweep: which streams have expired and through which seq the
\* retirement clock folds are its choice.  A seq between two end records
\* folds what the lower one does.
Sweep(dead, through) ==
  /\ truth.entries < MaxEntries
  /\ LET n == SweepApply(group, dead, through)
     IN /\ n # group
        /\ Commit(n) /\ Uncounted(n)

\* The lagging replica applies, or installs, the newest state.
CatchUp ==
  /\ lag.applied # group.applied
  /\ lag' = group
  /\ UNCHANGED <<group, consumer, truth>>

\* Mutant of NewHistory: the new lineage keeps the term of the old one.
NewHistorySameTerm ==
  /\ group.history < MaxHistories
  /\ group' = NewHistoryApply(lag, group.history + 1, group.applied[1])
  /\ lag' = group
  /\ truth' = [truth EXCEPT !.losses = @ + 1]
  /\ UNCHANGED consumer
\* An accepted loss: the lagging replica's log is what the group keeps, and
\* a higher term starts its next history.  When nothing lags, nothing is lost.
NewHistory ==
  /\ group.history < MaxHistories
  /\ group' = NewHistoryApply(lag, group.history + 1, group.applied[1] + 1)
  /\ lag' = group
  /\ truth' = [truth EXCEPT !.losses = @ + 1]
  /\ UNCHANGED consumer

-----------------------------------------------------------------------------
(* The consumer.                                                           *)

\* `account` of every entry of E above the level the consumer holds it at.
Account(m, E, level) ==
  LET K   == Keys(E)
      fin == {k \in K : EntryOf(E, k).ended}
  IN Alarm([m EXCEPT
       !.accounted = [k \in DOMAIN @ \cup K |->
          Get(@, k) + IF k \in K THEN Floor(EntryOf(E, k).count, level[k]) ELSE 0],
       !.billed = [k \in K |-> EntryOf(E, k).count] @@ @,
       !.ended = [k \in fin |-> EntryOf(E, k).seq] @@ Restrict(@, DOMAIN @ \ K)],
     "level", \E k \in K : EntryOf(E, k).count < level[k])

\* `fold` of the held ended versions K.
FoldHeld(m, K) ==
  [m EXCEPT !.view = [b \in Buckets |-> @[b] + Levels(m.billed, K, b)],
            !.folded = [k \in K |-> m.billed[k]] @@ @,
            !.billed = Restrict(@, DOMAIN @ \ K),
            !.ended = Restrict(@, DOMAIN @ \ K)]

RetireHeld(m, through) == FoldHeld(m, {k \in DOMAIN m.ended : m.ended[k] <= through})

\* Rule 6: a page that continues the listing.
ContinueListing(m, E) ==
  Account(Alarm(m, "live_after_end",
                \E e \in E : ~e.ended /\ e.key \in DOMAIN m.ended),
          E, [k \in Keys(E) |-> Get(m.billed, k)])

Drop(m, K) == [m EXCEPT !.billed = Restrict(@, DOMAIN @ \ K),
                        !.ended = Restrict(@, DOMAIN @ \ K)]

\* The first relisting is the baseline: it accounts nothing.
ApplyFirst(m, L) ==
  LET K == Keys(L.listed)
  IN [m EXCEPT !.billed = [k \in K |-> EntryOf(L.listed, k).count],
        !.ended = [k \in {k \in K : EntryOf(L.listed, k).ended} |->
                     EntryOf(L.listed, k).seq],
        !.view = [b \in Buckets |-> IF b \in L.rows THEN L.retired[b] ELSE @[b]]]

\* A relisting of the history last applied (rule 7, `requested`, `retired`).
ApplySame(m, L) ==
  LET a      == Account(m, L.listed, [k \in Keys(L.listed) |-> Get(m.billed, k)])
      out    == DOMAIN a.billed \ Keys(L.listed)
      held   == out \cap DOMAIN a.ended
      closed == out \ held
      f      == Drop(FoldHeld(a, held), closed)
      B      == L.rows \cup {BucketOf[k.s] : k \in out}
      Retired(b) == IF b \in L.rows THEN L.retired[b] ELSE 0
      Known(b)   == f.view[b] + Levels(a.billed, closed, b)
  IN Alarm([f EXCEPT
        !.toBuckets = [b \in Buckets |->
             IF b \in B THEN @[b] + Floor(Retired(b), Known(b)) ELSE @[b]],
        !.view = [b \in Buckets |-> IF b \in B THEN Retired(b) ELSE @[b]]],
     "share", \E b \in B : Retired(b) < Known(b))

\* A folded version the relisting lists again is held again, and leaves its
\* bucket's view, unless the view is below it.
UnfoldOne(m, k) ==
  LET b == BucketOf[k.s]
  IN Alarm([m EXCEPT
        !.view[b] = IF @ >= m.folded[k] THEN @ - m.folded[k] ELSE @,
        !.billed = (k :> m.folded[k]) @@ @,
        !.folded = Restrict(@, DOMAIN @ \ {k})],
     "view", m.view[b] < m.folded[k])

Unfold(m, K) == FoldSet(LAMBDA k, acc : UnfoldOne(acc, k), m, K \cap DOMAIN m.folded)

\* Mutant of ApplyOther: a fold in the replaced suffix is not undone.
ApplyOtherFolded(m, L) ==
  LET a      == Account(m, L.listed, [k \in Keys(L.listed) |->
                  Min({Get(m.billed, k), EntryOf(L.listed, k).base})])
      closed == DOMAIN a.billed \ Keys(L.listed)
      Known(b) == a.view[b] + Levels(a.billed, closed, b)
  IN [Drop(a, closed) EXCEPT
        !.toBuckets = [b \in Buckets |->
             IF b \in L.rows THEN @[b] + Floor(L.retired[b], Known(b)) ELSE @[b]],
        !.view = [b \in Buckets |-> IF b \in L.rows THEN L.retired[b] ELSE Known(b)]]
\* A relisting of another history (rule 7, `history`).
ApplyOther(m, L) ==
  LET u      == Unfold(m, Keys(L.listed))
      a      == Account(u, L.listed, [k \in Keys(L.listed) |->
                  Min({Get(u.billed, k), EntryOf(L.listed, k).base})])
      closed == DOMAIN a.billed \ Keys(L.listed)
      Known(b) == a.view[b] + Levels(a.billed, closed, b)
  IN [Drop(a, closed) EXCEPT
        !.toBuckets = [b \in Buckets |->
             IF b \in L.rows THEN @[b] + Floor(L.retired[b], Known(b)) ELSE @[b]],
        !.view = [b \in Buckets |-> IF b \in L.rows THEN L.retired[b] ELSE Known(b)]]

\* apply_relisting.
ApplyRelisting(m, L, history) ==
  [(IF m.history = 0 THEN ApplyFirst(m, L)
    ELSE IF m.history = history THEN ApplySame(m, L)
    ELSE ApplyOther(m, L)) EXCEPT !.history = history]

\* The relisting with one more page: each version at its newest seq.
Collect(L, page) ==
  LET new == {e \in page.entries : \A o \in L.listed : o.key = e.key => o.seq < e.seq}
  IN [on |-> TRUE, rows |-> L.rows \cup page.rows,
      retired |-> [b \in page.rows |-> page.retired[b]] @@ L.retired,
      listed |-> {o \in L.listed : o.key \notin Keys(new)} \cup new]

\* Rule 8, of a relisting of one page: each row's total is the sum of its
\* parts.
CheckTotals(m, page) ==
  Alarm(m, "totals",
        \E b \in page.rows :
          page.totals[b] # page.retired[b]
            + MapThenSumSet(LAMBDA e : e.count,
                            {e \in page.entries : BucketOf[e.key.s] = b}))

\* Rule 8, of a complete page.
Check(m, page) ==
  Alarm(m, "count",
        \/ page.ends # Cardinality(DOMAIN m.ended)
        \/ page.live # Cardinality(DOMAIN m.billed \ DOMAIN m.ended))

\* MeteredGroup::keep of a page that replica l answers.
Read(l) ==
  /\ ~Behind(l, cursor)
  /\ LET page == StreamUsage(l, cursor)
         L    == Collect(IF page.relist THEN NoListing ELSE listing, page)
         on   == page.relist \/ listing.on
         done == on /\ page.complete
         r    == ApplyRelisting(meter, L, page.history)
         m    == IF done THEN IF page.relist THEN CheckTotals(r, page) ELSE r
                 ELSE IF on THEN meter ELSE ContinueListing(meter, page.entries)
         held == IF on /\ ~done THEN m ELSE RetireHeld(m, page.through)
     IN /\ cursor' = page.cursor
        /\ listing' = IF on /\ ~done THEN L ELSE NoListing
        /\ settled' = page.complete
        /\ meter' = IF page.complete THEN Check(held, page) ELSE held
        /\ truth' = IF done /\ meter.history = 0
                    THEN [truth EXCEPT !.start = [b \in Buckets |->
                            Levels(m.billed, DOMAIN m.billed, b) + m.view[b]]]
                    ELSE truth
  /\ UNCHANGED <<group, lag>>

\* request_relisting: the next read relists, to check the totals.
RequestRelisting ==
  /\ ~cursor.start
  /\ settled
  /\ cursor' = [cursor EXCEPT !.pos = "rows", !.after = 0]
  /\ UNCHANGED <<replicas, listing, settled, meter, truth>>

Next ==
  \/ \E s \in Streams : CreateStream(s) \/ Append(s) \/ ChangeSize(s) \/ DeleteStream(s)
  \/ \E b \in Buckets : PurgeBucket(b)
  \/ \E dead \in SUBSET Live(group) : \E through \in {0} \cup {e.seq : e \in group.ends} :
       Cardinality(dead) <= SweepLimit /\ Sweep(dead, through)
  \/ CatchUp
  \/ NewHistory
  \/ \E l \in {group, lag} : Read(l)
  \/ RequestRelisting

Spec == Init /\ [][Next]_vars

-----------------------------------------------------------------------------
(* Properties.                                                             *)

Billed(b) == meter.toBuckets[b] + Levels(meter.accounted, DOMAIN meter.accounted, b)
UpToDate == settled /\ ~listing.on /\ cursor.applied = group.applied

\* Within one history, a consumer that read the newest state has accounted,
\* to the versions of a bucket and to the bucket together, exactly the units
\* counted since its baseline: whatever folded before it read, and however
\* many pages and replicas its listing took.
BillsExactly ==
  truth.losses = 0 /\ UpToDate =>
    \A b \in Buckets : Billed(b) + truth.start[b] = Total(group, b)

\* Across accepted losses, when no record folded unread, no bucket is
\* accounted more than was ever counted for it in any lineage since the
\* baseline, and no version more than was ever counted for it: whether the
\* replaced suffix held writes, removals or folds the consumer had read, and
\* though a replica goes on serving it.
NeverMore ==
  ~truth.missed =>
    /\ \A b \in Buckets : Billed(b) + truth.start[b] <= truth.ever[b]
    /\ \A k \in DOMAIN meter.accounted :
         meter.accounted[k] <= Get(truth.versions, k)

\* The contract's claim for every consumer, one that missed a fold included:
\* no bucket is accounted more units than were ever counted for it.
NeverDouble == \A b \in Buckets : Billed(b) <= truth.ever[b]

\* Across accepted losses a consumer that missed no fold and read the newest
\* state has accounted at least what the ledger counts since the baseline.
NeverLess ==
  ~truth.missed /\ UpToDate =>
    \A b \in Buckets : Billed(b) + truth.start[b] >= Total(group, b)

\* Nothing the contract tells a consumer to alarm on happens in one history.
NoAlarm == truth.losses = 0 => meter.alarms = {}

=============================================================================

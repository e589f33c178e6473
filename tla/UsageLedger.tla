---------------------------- MODULE UsageLedger ----------------------------
(***************************************************************************)
(* The usage ledger of one group and one page of its export: the hooks of  *)
(* state_machine/usage_ledger.rs, the history baseline of history.rs and   *)
(* the read of usage_export.rs, as operators on the ledger of one applied  *)
(* state.  The three committed counters and the payload sizes behind them  *)
(* are one number, one unit per counted write: every place of the code     *)
(* adds, folds and compares the three alike.  Appends (F9), write times    *)
(* and gauges are left out.                                                *)
(***************************************************************************)
EXTENDS Naturals, FiniteSets, FiniteSetsExt, Functions

CONSTANTS
  Streams,       \* stream ids, in compare_stream_ids order
  BucketOf,      \* the bucket of each stream
  EndCap,        \* MAX_END_RECORDS
  SweepLimit,    \* STREAMS_PER_COMMAND, of removals and of folds
  PageLimit      \* items, rows and entries together, of one page

ASSUME LedgerAssumption ==
  /\ Streams \subseteq Nat /\ IsFiniteSet(Streams)
  /\ BucketOf \in [Streams -> Nat \ {0}]
  /\ {EndCap, SweepLimit, PageLimit} \subseteq Nat \ {0}

Buckets == Range(BucketOf)
None == [seq |-> 0]   \* no live version

\* The n smallest of a set of numbers.
Lowest(n, S) == {x \in S : Cardinality({y \in S : y < x}) < n}

\* Log ids are ordered by term, then index (UsageLogId).
Above(a, b) == a[1] > b[1] \/ (a[1] = b[1] /\ a[2] > b[2])

\* A group whose genesis just applied.
EmptyLedger ==
  [live |-> [s \in Streams |-> None], ends |-> {}, rows |-> {},
   retired |-> [b \in Buckets |-> 0], seq |-> 0, through |-> 0, history |-> 1,
   created |-> 0, erased |-> {}, applied |-> <<1, 1>>]

Live(l) == {s \in Streams : l.live[s] # None}
KeyOf(s, v) == [s |-> s, created |-> v.created, since |-> v.since]

-----------------------------------------------------------------------------
(* The hooks.  Each returns the ledger after it.                           *)

\* The entry that applied is the next of the log.
Apply(l) == [l EXCEPT !.applied[2] = @ + 1]

UsageOnCreate(l, s) ==
  [l EXCEPT !.rows = @ \cup {BucketOf[s]}, !.seq = @ + 1, !.created = @ + 1,
            !.live[s] = [created |-> l.created + 1, since |-> l.history,
                         seq |-> l.seq + 1, count |-> 1, base |-> 0,
                         history |-> l.history]]

\* StreamSlot::inherit_history: the first write after an event records the
\* counters the history began with.
InheritHistory(l, v) ==
  IF v.history = l.history THEN v
  ELSE [v EXCEPT !.base = v.count, !.history = l.history]

BaselineIn(l, v) == IF v.history = l.history THEN v.base ELSE v.count

UsageOnAppend(l, s) ==
  [l EXCEPT !.seq = @ + 1,
            !.live[s] = [InheritHistory(l, @) EXCEPT !.count = @ + 1, !.seq = l.seq + 1]]

UsageOnSizeChange(l, s) == [l EXCEPT !.seq = @ + 1, !.live[s].seq = l.seq + 1]

\* Folds the end records F, the lowest held, into their buckets.
Fold(l, F) ==
  IF F = {} THEN l
  ELSE [l EXCEPT !.ends = @ \ F,
          !.through = Max({e.seq : e \in F}),
          !.retired = [b \in Buckets |->
             @[b] + MapThenSumSet(LAMBDA e : e.count,
                                  {e \in F : BucketOf[e.key.s] = b})]]

LowestEnds(l, n) == {e \in l.ends : e.seq \in Lowest(n, {f.seq : f \in l.ends})}

\* Mutant of FoldAtCap: the folded record does not raise the watermark.
FoldAtCapQuiet(l) ==
  IF Cardinality(l.ends) >= EndCap
  THEN [Fold(l, LowestEnds(l, 1)) EXCEPT !.through = l.through] ELSE l
FoldAtCap(l) ==
  IF Cardinality(l.ends) >= EndCap THEN Fold(l, LowestEnds(l, 1)) ELSE l

\* remove_stream_state of a live stream: its end record takes the next seq.
UsageOnEnd(l, s) ==
  LET v == l.live[s]
      f == FoldAtCap(l)
  IN [f EXCEPT !.live[s] = None, !.seq = @ + 1,
               !.ends = @ \cup {[seq |-> f.seq + 1, key |-> KeyOf(s, v),
                                 endedIn |-> l.history, count |-> v.count,
                                 base |-> BaselineIn(l, v)]}]

\* Removes the streams S one by one, in the order of their ids.
EndAll(l, S) == FoldSet(LAMBDA s, acc : UsageOnEnd(acc, s), l, S)

RetireEndRecords(l, through) ==
  Fold(l, {e \in LowestEnds(l, SweepLimit) : e.seq <= through})

\* The Sweep entry: removes `dead`, then folds through `through`, but none
\* of the records of its own removals.
SweepApply(l, dead, through) ==
  RetireEndRecords(EndAll(l, dead), Min({through, l.seq}))

\* A history event with the next term (NewHistory).
NewHistoryApply(l, history, term) ==
  [l EXCEPT !.history = history, !.applied = <<term, l.applied[2] + 1>>]

\* bucket_usage_report, one bucket's committed total.
Total(l, b) ==
  l.retired[b]
  + MapThenSumSet(LAMBDA s : l.live[s].count, {s \in Live(l) : BucketOf[s] = b})
  + MapThenSumSet(LAMBDA e : e.count, {e \in l.ends : BucketOf[e.key.s] = b})

-----------------------------------------------------------------------------
(* The export.                                                             *)

\* A live version, and an end record, as a page lists them.
LiveEntry(l, s) ==
  LET v == l.live[s]
  IN [key |-> KeyOf(s, v), seq |-> v.seq, count |-> v.count,
      base |-> BaselineIn(l, v), ended |-> FALSE]

EndedEntry(l, e) ==
  [key |-> e.key, seq |-> e.seq, count |-> e.count, ended |-> TRUE,
   base |-> IF e.endedIn = l.history THEN e.base ELSE e.count]

Entries(l, after) ==
  {x \in {LiveEntry(l, s) : s \in Live(l)} \cup {EndedEntry(l, e) : e \in l.ends} :
     x.seq > after}

\* The cursor of a consumer that holds nothing.
Start == [start |-> TRUE, history |-> 0, applied |-> <<0, 0>>, through |-> 0,
          pos |-> "rows", after |-> 0]

\* Rule 4 of stream_usage: the replica has not applied the cursor's entry.
Behind(l, cursor) == ~cursor.start /\ Above(cursor.applied, l.applied)

AfterSeq(cursor) == IF cursor.pos = "rows" THEN 0 ELSE cursor.after

\* Mutant of Relists: a fold the caller had not listed is not noticed.
RelistsUnread(l, cursor) ==
  \/ cursor.start
  \/ cursor.history # l.history
  \/ cursor.pos = "rows" /\ cursor.after = 0
\* Rules 2, 5, 6 and 7: the page starts a relisting.
Relists(l, cursor) ==
  \/ cursor.start
  \/ cursor.history # l.history
  \/ l.through > Max({AfterSeq(cursor), cursor.through})
  \/ cursor.pos = "rows" /\ cursor.after = 0

\* One page of a replica that is not behind (stream_usage, usage_rows,
\* usage_entries).  Buckets are numbered in id order.
StreamUsage(l, cursor) ==
  LET relist  == Relists(l, cursor)
      inRows  == relist \/ cursor.pos = "rows"
      rowsDue == IF ~inRows THEN {}
                 ELSE {b \in l.rows : relist \/ b > cursor.after}
      rows    == Lowest(PageLimit, rowsDue)
      after   == IF inRows THEN 0 ELSE cursor.after
      due     == IF rows = rowsDue THEN Entries(l, after) ELSE {}
      seqs    == Lowest(PageLimit - Cardinality(rows), {x.seq : x \in due})
      entries == {x \in due : x.seq \in seqs}
      next    == IF rows # rowsDue THEN [pos |-> "rows", after |-> Max(rows)]
                 ELSE IF entries # due
                      THEN [pos |-> "entries",
                            after |-> IF seqs = {} THEN after ELSE Max(seqs)]
                      ELSE [pos |-> "entries", after |-> l.seq]
  IN [relist |-> relist, rows |-> rows, retired |-> l.retired, entries |-> entries,
      totals |-> [b \in Buckets |-> Total(l, b)],
      complete |-> rows = rowsDue /\ entries = due,
      history |-> l.history, through |-> l.through,
      live |-> Cardinality(Live(l)), ends |-> Cardinality(l.ends),
      cursor |-> [start |-> FALSE, history |-> l.history, applied |-> l.applied,
                  through |-> l.through, pos |-> next.pos, after |-> next.after]]
=============================================================================

# Ursula in TLA+

Ursula is a distributed server for Durable Streams: append-only byte streams
addressed by URL, replicated by many small Raft groups per core, with the cold
part of every stream in object storage. This directory holds TLA+ models of the
parts whose correctness depends on the order of events, the TLC configurations
that check them on small instances, and proofs, checked by TLAPS, of the
properties that matter most. `PROJECT.json` lists for every definition the
source lines it models, for every property a plausible bug of the code that
breaks it, and every place found where the code and its documentation disagree.

Paths below are relative to `src/`; `crates/ursula-` is written `u-`.

## 1. The system

| Part | Where | State it keeps | Operations |
|---|---|---|---|
| Stream state machine | `u-stream` | per group: streams (metadata, hot bytes, cold references, producers), the history, cold GC queue, shared object counts, usage ledger, TTL index | every committed `StreamCommand` |
| Shard runtime | `u-runtime` | per core: group actors, hot waiters, cold store and index clients, upload and node fences, key holds | cold flush, cold GC, retention GC, compaction, expiry sweep, tidying, orphan sweep |
| Raft | `u-raft` | log (WAL, segments, journal), run identity and run state, votes, snapshots, membership, history fence, recovery gates | append, vote, snapshot, install, rejoin, hosting and teardown, a run's start and end |
| Control plane | `u-control` | placement state: nodes, groups, hosting, decommissions | placement commands, the reconciler |
| HTTP server | `crates/ursula` | request parsing, rendering, staged parts, admission | the protocol |
| Gateway | `u-gateway` | backends, ejection, admission, upload sessions, usage | proxying |
| Clients | `clients/` | SQLite VFS replication: driver, replicator, snapshotter; TypeScript and Python bindings | commits, drains, reconciliation |

How they interact: an HTTP write reaches the owning core's group actor, which
proposes a command; Raft commits it; every replica applies it to the stream
state machine in log order, with the clock the proposer stamped. Leader-side
workers (flush, GC, compaction, sweep, tidy) read the state machine, do I/O
against the object store, and propose the result as another command, so what
they read may be stale when the result applies. An operator may accept the loss
of a group's unreplicated suffix; the group then starts a new history. A node's
process runs on a WAL root; the volume may be attached elsewhere while the old
process still runs, and only time and what is on the volume keep the two apart.

Hard behaviours: retried and reordered client writes against producer records
that are discarded at any time; workers' results applied to a state that moved
on; object deletion against references added later; recreated streams and lost
suffixes; a process that outlives its disk; a crash between two durable writes;
elections and rejoins; bills taken from replicas that lag or lost their suffix;
an index repaired lazily under clocks that differ.

### What makes each part correct

- **Producer protocol** (`u-stream/src/state_machine/{producer_record,producers,append}.rs`):
  a retried write applies once, a reported refusal stays true, a refused
  producer can always go on, and memory of producers is bounded.
- **Incarnations and histories** (`lifecycle.rs`, `history.rs`): a token names
  one incarnation in one history; what is reported as inherited was served.
- **Cold tier** (`cold.rs`, `cold_gc.rs`, `cold_state.rs`, the runtime's
  workers and index pages): every retained byte can be read at any moment,
  nothing referenced is deleted, nothing unreferenced stays for ever.
- **Runs of a WAL root** (`node_fence.rs`, `run_state.rs`, `identity.rs`,
  `predecessor_wait.rs`): once a run takes part, no process of an earlier run
  of the root speaks for the node.
- **Journals and recovery gate** (`log_store/*`, `rejoin.rs`): no acknowledged
  entry is silently missing from a replica that votes.
- **Placement** (`u-control`): every membership step keeps a live majority.
- **Usage ledger, TTL index, snapshots** (`usage_ledger.rs`, `registry.rs`,
  `persist.rs`): usage is conserved, a due stream is found, a restored state
  is the saved one.
- **Gateway and clients**: a failed backend is skipped and comes back; an
  unanswered commit is neither lost nor doubled.

## 2. Modules

| Module | Models | Kind |
|---|---|---|
| `ProducerRecord` | one producer's record and the decision table `evaluate` | pure operators |
| `KeyedWrites` | one stream URL of a group: writes, creates, deletes, expiry, retirement, losses | state machine |
| `ColdGcQueue` | the replicated GC queue | pure operators |
| `ColdTier` | the cold tier of a group: replicated refs, object store, index pages, four workers | state machine |
| `DiskLease` | the lease decision over times | pure operators |
| `WalRuns` | the runs of a WAL root on a volume that moves | state machine |
| `RecoveryGate` | the replicas of one Raft group whose disks lose records, the vote gate, the recovery plan | state machine |
| `UsageLedger` | a group's usage ledger and one page of its export | pure operators |
| `UsageMeter` | a consumer that bills from the export, over two replicas and accepted losses | state machine |
| `ExpirySet` | what the registry promises of expiry: a set of streams with expiries, swept in order | abstract specification |
| `ExpiryIndex` | the registry's lazily repaired TTL heap and the leader's sweep; implements `ExpirySet` | state machine |
| `KeyedWritesProofs`, `KeyedAnswersProofs`, `KeyedHistoryProofs` | proofs about `KeyedWrites`, each extending the one before | proofs |
| `ColdTierProofs`, `WalRunsProofs`, `ExpiryIndexProofs`, `RecoveryGateProofs` | proofs about the module each is named after | proofs |
| `ColdSafetyProofs` | what the cold tier never loses and never forgets; extends `ColdTierProofs` | proofs |
| `MCKeyedWrites`, `MCColdTier`, `MCWalRuns`, `MCRecoveryGate`, `MCUsageMeter`, `MCExpiryIndex` | what TLC needs besides: payload sets, budgets, symmetry | model checking |

A command's application is one action, whole: the producer gate, the checks,
the write, the record, the eviction after it, the receipt. A worker's pass is
one action per stretch between two awaits, because the state may change at each
await. Bytes, names and payloads are model values or small numbers. Operators
under a comment that says "Mutant" are plausible bugs of the code, which no action
uses: `PROJECT.json` says which property each one breaks.

### 2.1 ProducerRecord and KeyedWrites

`Evaluate` is `producer_record.rs:97`, row by row; `EvaluateNew`,
`EvaluateOlder`, `EvaluateLater` and `EvaluateCurrent` are its groups of rows.
`slot` is `StreamSlot`: created_at, tail, closed, Stream-Seq, producers, the
floor (`retired_epoch_watermark`), the inherited prefix, and `log`, the writes
that applied, which the properties are about. `history` and `last_created` are
the group's. `kept` is the state of the replica that survives a loss; `CatchUp`
brings it up to date at any time, and `AcceptLoss` puts it in place of the
group's state and draws a history. `minted`, `served` and `reports` remember
what clients saw: tokens, bytes under a token, and closed epochs.

| Action | Code |
|---|---|
| `WriteLive` (through `Gate`, `Applies`, `Applied`) | `append.rs`, `append_borrowed` |
| `Create`, `Delete`, `ExpireStream`, `Touch` | `lifecycle.rs` |
| `Tidy` | `producers.rs`, `tidy_stream` |
| `Genesis`, `AcceptLoss` | `history.rs`, `new_history` |
| `CatchUp` | external: the surviving replica's Raft log |

Every command carries any clock of `Clock`: proposers' clocks need not agree.
The order in which commands commit stands for all concurrency between clients;
delays, duplicates and reordering of requests are any request at any time.

### 2.2 ColdGcQueue and ColdTier

`slot`, `refs`, `gc` and `lastGen` are replicated; `store` and `pages` are the
object store; `flusher`, `compactor`, `offloader` and `collector` are the
leader's workers, each `Idle` or between two of its awaits; `limbo` is a
proposal whose answer was lost: it commits later or is discarded. A byte is
`<<generation, offset>>`, so a read that returns another incarnation's bytes is
seen. A flush is: plan from the hot buffer, upload, check and index (the page is
written before the proposal), propose; then it applies, is refused (page rolled
back, object discarded), is lost (page and object stay), or is abandoned between
two of these steps, by the end of the process or by a page write or rollback that
failed. Discarding is best effort (`Discard`): the delete may fail and the object
stay. An external append stores its payload before the command; one that does not
apply may leave it there (`StrandExternal`). Packs hold slices of
several streams, one command each. A compaction of shared slices or of exclusive
chunks has the same steps. The collector takes a batch, deletes objects or a
whole incarnation, defers what failed and acknowledges a prefix.

`Duties` says which workers and operations a run has, `Lossy` the duties that may
fail: a proposal refused or without an answer, a failed page write, an owner that
ended. `PackWidth` says how many streams share
a pack, `MaxRun` how long a compacted run gets (`max_run_bytes`). `Overtaking` says whether a page
may be written while a lost proposal is still undecided. The runs take FALSE;
section 3 says what that excludes. `orphans` are the objects left to the orphan
sweep, which is not modelled, so `NoLeak` exempts them: those that a command whose
answer was lost names, those whose owner failed before it published or deleted
them, and those whose delete failed ("a failed delete leaves an orphan for the
sweep", `runtime.rs`). What `NoLeak` says is that there are no others. Snapshot
bodies in the object store are left out of `PublishSnapshot`, and `ReclaimObjects`
reads the live generation when it runs, where the code uses the answer of its
plan: a generation that is dead stays dead. Packs that one command releases
are queued one entry each (`EnqueueEach`), in some fixed order of their paths.

### 2.3 DiskLease and WalRuns

`disk` is what the volume holds (identity file and run state), `mount` its
current attachment, `proc[r]` the process of the r-th run: its lease, its probe,
its fence, the wait it owes, the identity it holds, and `out`, the time of the
fence check of an output that has not left yet. A detach revokes the attachment
and the process runs on. `Open`, `Advance` and `RecordRunning` are
`NodeWal::start` cut at its two durable writes, and a crash (`Die`) may come
between any two steps. Probes start, reach the disk, and report separately: a
report may come long after. `Promise` is what the wait holds back: a vote, a
gate, a snapshot object.

Assumptions, each a named constant or a guard: the storage revokes the old
attachment when it makes a new one; a lease's length plus `Margin` is at most
`Wait` (`RunConstants`, the arithmetic of `predecessor_wait.rs:54-66`, clock
rates folded into the length); an output leaves within `Margin` of its check; a
move takes longer than `Margin` (`MoveTime`): after a clean end nothing waits,
so the last output of an ended process is bounded by the lock while the volume
stays and by the move when it does not; the device number tells attachments
apart on a boot; a path names one attachment, so a process whose volume moved
away writes nothing; a process that ended has no output. An answer of the meta
group before Bootstrap, after which the wait is over at once, is left out: there
is no data to protect yet. So are the votes of the meta replica, which an awaited
binding does not hold back (`fence_holds`): the groups of the model are data groups.

The path assumption matters: `finish_wait` and `record_bound` ask the fence before
they write by path, `on_journal_poisoned` (`log_store/writer.rs:2925`) does not,
so a volume that came back at the same path on the same host is outside what is
shown here, as it is outside what the simulated disk does.

### 2.4 RecoveryGate

Each replica has its log and commit marker (`log`, `commit`), what a host crash
may leave of them (`synced`, `tails`), the metadata file (`vote`, `state`,
`plan`), its gate, catch-up target and role. `tool` is the operator's tool
between making a plan and the last replica that took it. `acked` remembers what
clients were told.

| Action | Code |
|---|---|
| `Propose`, `AppendEntries`, `Commit`, `Campaign`, `GrantVote`, `BecomeLeader` | external: OpenRaft as `replica.rs` and `rejoin.rs` use it, with the gate's screens in it |
| `Barrier`, `TryOpen`, `Stall` | `rejoin/barrier.rs`, `rejoin.rs` |
| `Stop`, `Kill`, `HostCrash`, `Wipe` (through `Starts`) | `log_store/file.rs`, `rejoin.rs` at a start |
| `MakePlan` | `u-ctl`, `recovery.rs` |
| `TakeLead`, `TakeFollow`, `ProposeHistory`, `RetirePlan` | `rejoin.rs`, `history.rs` |

A crash and the start after it are one step, and a replica that is down or out
of reach takes none. Under `fsync = never` a host crash leaves some prefix that
was on disk since the last sync, or a tail that a later record truncated. The
live-leader and lease checks may say either. The tool observes the replicas it
reaches at once, and makes a plan only when one of them is gated or planned. The
cut of a log is atomic with taking the plan. A stalled gate behaves as a closed
one and is folded into it. A killed replica that does not lead keeps all it wrote
to its log; what such a one may lose is what a host crash takes. The voter set is fixed; with three replicas a
barrier's one confirming replica makes the quorum. Snapshots, purges and
bootstrap are left out.

### 2.5 UsageLedger and UsageMeter

`UsageLedger` has the ledger's hooks (create, append, size change, end, fold at
the cap, retirement, history baseline) and the export's page for a cursor. The
three counters are one, a unit for each counted write: the code adds, folds and
compares the three alike. `UsageMeter` composes two ledgers, the newest state and a
lagging replica, with the consumer that `u-sim`'s `usage_meter.rs` implements
from the export's contract (`operations.mdx`, rules 1 to 8). `Read` is one page
answered by either replica and kept: continue the listing, apply a relisting of
the same or of another history, retire, check the totals of the rows of a
relisting that was one page (`CheckTotals`). `NewHistory` puts the
lagging state in place of the group's; the other replica goes on serving the lost
suffix. `truth` remembers what was really counted, and whether a record folded
that the consumer never listed (`missed`: it read less often than the retention,
or a purge ended more streams than the cap). Left out: append counts and gauges,
close-only writes, the import of a backup, other clusters, forgetting folded
entries.

### 2.6 ExpirySet and ExpiryIndex

`ExpirySet` is the promise: live streams with their expiries, from which a sweep
takes the first `Limit` expired ones in (expiry, stream) order. `ExpiryIndex` is
the registry: `slots`, the `heap` whose entries may be stale or early, `armed`,
and the pass of the leader's sweep, whose `now` is fixed when it begins and whose
entries apply after other commands may have. A pass may end at any point, and the
entry of one that failed may be gone or commit later. `Turn` is one turn of the loop
of `sweep` over `pop_expired`; `Loop` is the loop after each number of turns, a
recursive function, and `Swept` its outcome. The heap is a set: two equal entries
cannot be pushed, since an entry is pushed only at an expiry later than the armed
one or for a new key. `Restore` rebuilds the index from metadata as a snapshot
install does; keys are kept, which no other operation distinguishes. Each node's
clock is its own, at most `Skew` ahead of another.

## 3. Runs

Every run is a breadth-first search of the whole state space of its bounds. All
say `CHECK_DEADLOCK FALSE`: the bounds on writes, paths, runs and time make every
behaviour end. State counts are of one machine's run and indicate size.

### The producer protocol

| Run | Bounds | Shows |
|---|---|---|
| `keyed_retire` | 2 producers, cap 1, clocks {0, 2}, 2 epochs x 2 seqs, 4 writes, tokened and not | `TypeOK`, `ExactlyOnce`, `RefusalEscapable`, `CapHeld`, `ClosedReportFinal` through idle expiry, eviction, tidying and reopening |
| `keyed_lifecycle` | 1 producer and unkeyed writers, 2 identities per key, 2 histories, 1 removal, 2 writes, clocks {0, 1}, created_at up to 2; closes, Stream-Seq, refused content, TTL 1; recovery clocks that keep up | `IInv`, `HistoryFence`, `InheritedTruth`, `RepeatTruth`, `TokenNeverReused`, `GenerationFresh` through a loss to any kept state, deletes, expiry and recreation within a millisecond |

Why these bounds: a producer is confused by at most two epochs (the one it knows
and one above), two seqs (applied and next), a floor raised once, and one loss in
between; a cap of one makes every second producer an eviction; two clock values
are enough for "idle" and "not idle". In `keyed_lifecycle`
created_at may exceed every clock, so that a stream is created again after a loss
that took one, and its created_at could be the lost one's. Inherited prefixes nest
from the second loss on, which is left to the proof.
More histories, producers and writes are what the proofs cover.

`ClocksKeepUp` is an assumption about the operator: `new_history` raises the
created_at counter to the recovering leader's clock (`history.rs:87`), so a lost
create can be followed by one with the same created_at, and the same cold paths,
if that clock is behind the one that stamped it. With `ClocksKeepUp = FALSE` TLC
finds `GenerationFresh` violated; tokens are unique either way, which is proved.

### The cold tier

| Run | Bounds | Shows |
|---|---|---|
| `cold_reclaim` | 1 stream, 1 byte, 2 incarnations, chunks, packs, external payloads, deletes, retention, GC; every proposal refused or its answer lost, workers that fail half way, failed deletes; 2.3 million states | `TypeOK`, `NoLeak`, `RetainedReadable`, `QueuedUnreferenced`, `IncarnationPages`, `AckedReclaimed` |
| `cold_compact` | 1 stream, 3 bytes, shared and exclusive compaction of runs of 2 with GC; packs, chunk compactions and GC that fail or lose their answer; 2.2 million states | `RetainedReadable`, `NoLeak` |
| `cold_packs` | 2 streams in packs of 2, 2 bytes, 3 incarnations, deletes and retention, packs that fail or lose their answer; 0.8 million states | `RefsCounted`, with counts that go up to 2 and down slice by slice |
| `cold_slice_after_release`, `cold_trimmed_run` | the smallest instance of each | violations, see section 6 |

Why these bounds: two or three bytes make a hot suffix, a chunk below it and a
trimmed prefix; two generations make a stale plan; three to five object paths let
every worker upload and retry once. The runs are split by worker because their
product is large; each keeps the pairs of workers that touch the same object.
The passing runs stay inside five limits, each the border of a case in which TLC
finds a violation:

- packs hold slices of one stream where objects are released and collected
  (`cold_slice_after_release`); `cold_packs`, which only counts, is beyond this one;
- shared runs are compacted without retention (`cold_trimmed_run`), failures and
  lost answers: two slices whose replacement's answer was lost fail the
  same way when a second attempt meets half of what the first removed;
- exclusive chunks are compacted where flushes and shared compactions neither fail
  nor lose their answer: the page entry of one that did not commit would be merged into a
  committed replacement (`u-runtime/src/cold_index.rs:1102`);
- compaction runs without deletes: one planned from a deleted incarnation writes
  its page entry into the recreated stream's generation, since
  `RaftGroupEngine::compact_cold` (`u-raft/src/engine/mod.rs:2681`) makes no
  generation check;
- `Overtaking` is FALSE: with TRUE, a second flush of a range clips the page entry
  of a first one whose answer was lost, and `RetainedReadable` fails when the
  first one commits.

`TypeOK` and `AckedReclaimed` hold beyond all five: they are proved for every
value of the constants. The other properties of these runs are proved within the
limits, for any number of streams, bytes, incarnations and objects (section 4.4).

### The runs of a WAL root

| Run | Bounds | Shows |
|---|---|---|
| `wal_runs` | 3 runs, 1 move between 2 hosts, time 4, lease 2, margin 1, wait 3, a move takes 2; the first run probes, the second ends or is superseded, the third is poisoned | `NoLateAnswer`, `LeaseEnds`, `IInv`, `WaitRecorded`, `NewerRunCountsHigher` |

Why these bounds: the lease (2) plus the margin (1) is the wait (3), the least
values that keep all the strict inequalities; two runs and a move are a process
and its successor, the third is a restart while the wait is owed; an initial state with
a clean, bound root stands for any earlier run that ended. All five properties
are also proved, for any number of runs, moves and hosts.

### The recovery gate

| Run | Bounds | Shows |
|---|---|---|
| `gate` | 3 replicas, 1 client write, logs up to 4; either a crash of any kind and a lost disk with one election of any replica, or a host crash that costs a follower its log and a plan that does not reach the leader, between two elections; 0.6 million states | `TypeOK`, `AckedKept`, `LogIdsUnique`, `CommittedAgree`, `KeptTrue` |

Why these bounds: an acknowledged entry is in danger when the replica that lost
it and the one that never had it make a majority, which takes three replicas, one
write, one loss and one election. A plan is in danger from a leader it did not
reach, which takes an election before it and one after. `Budgets` are alternative
scenarios in one run rather than one product of them. A start that leaves
the gate open, a killed leader that resumes, a plan that trusts the longest log, and
one without its fence are mutants that these bounds catch.

### The usage export

| Run | Bounds | Shows |
|---|---|---|
| `usage_export` | 1 stream, 4 entries, pages of 1 item, cap 1, 2 histories | `BillsExactly` and `NoAlarm` within one history, `NeverMore` and `NeverLess` across an accepted loss |
| `usage_missed` | 2 streams, 4 entries, cap 2 | a violation, see section 6 |

Why these bounds: pages of one item put a change between any two pages of a
listing; four entries are a create, an append, an end and a recreation, or a fold
in a suffix that is then lost.

### The expiry index

| Run | Bounds | Shows |
|---|---|---|
| `expiry` | 2 streams, 2 nodes, a TTL of 2, a fixed expiry, 1 stream per entry, 2 entries per pass, grace and skew 1, time 4, 3 slots | `TypeOK`, `FrontExact`, `HeapBounded`, `GoneForAll`, the refinement `SweepsInOrder`, and `ExpiredLeave` |

Why these bounds: a limit of one makes a second due stream wait for the next
entry; the third slot is a recreation under an old heap entry; time 4 lets a
renewed stream come due again and saturates a sum. 0.4 million states.

### Liveness and fairness

`ExpiredLeave`: a stream that has expired for every node, the grace included, is
in the end removed or renewed. `FairSpec` assumes

- that clocks advance (`WF` of some `Tick`), that the tidy driver begins a pass
  each interval and that its loop goes on (`WF` of `BeginPass`, `ProposeSweep` or
  `EndPass`): the timer loop of the code;
- that not every pass ends before its first entry (`SF` of `ProposeSweep`, which
  `EndPass` disables and the next interval enables again). The code may end any
  one pass so, by a failed look at the index or an elapsed budget
  (`u-raft/src/engine/mod.rs:1354`, `1363`). It is an assumption about the node:
  before its first entry a pass has done one read of memory, against a
  budget of 250 ms for the group, or 50 ms when a capped pass runs again;
- that not every proposed entry fails for ever (`SF` of `Committed`, which a
  failing pass disables and the next interval enables again): what a group with a
  quorum gives.

Nothing is assumed of clients. Without the second assumption TLC finds passes that
all end at once.

The other models state no fairness. The producer protocol's progress is a safety
property: `RefusalEscapable` says in every state that the way out a refusal names
is open. That every due object is in the end deleted is approached by `NoLeak`:
what is unreferenced is within the collector's reach. The predecessor wait ends
only while the lease holds, which the environment decides, and a gate opens only
with a reachable quorum.

## 4. Proofs

Eight modules hold proofs, checked by TLAPS to the last leaf. Each theorem holds
for every value of the constants that the component's named `ASSUME` allows; some
have a hypothesis besides, which the table gives.

| Module | Theorem | States |
|---|---|---|
| `KeyedWritesProofs` | `TypeCorrect`, `RemembersAlways`, `ExactlyOnceAlways`, `HistoryFenceAlways` | `[]TypeOK`, `[]IInv`, `[]ExactlyOnce`, `[]HistoryFence` |
| | `TokensUnique` | `TokenNeverReused` |
| `KeyedAnswersProofs` | `RefusalEscapableAlways`, `RepeatTruthAlways`, `ClosedReportFinalAlways` | the invariants of these names |
| `KeyedHistoryProofs` | `GenerationsFresh` (assuming `ClocksKeepUp`) | `GenerationFresh` |
| | `InheritedTruthAlways` | `[]InheritedTruth` |
| | `CapHeldAlways` | `[]CapHeld` |
| `WalRunsProofs` | `RunsInvariant`, `LeaseEndsHolds`, `NoLateAnswerHolds`, `NewerRunCountsHigherHolds`, `WaitRecordedHolds` | `[]IInv` and the four invariants of these names |
| `ExpiryIndexProofs` | `IndexInvariant`, `IndexTyped`, `FrontExactAlways`, `HeapBoundedAlways` | `[]IInv`, `[]TypeOK`, `[]FrontExact`, `[]HeapBounded` |
| | `GoneForAllHolds` (assuming `Skew <= Grace`) | `GoneForAll` |
| | `IndexRefinesSet` | `SweepsInOrder`, that is `Abstract!Spec` |
| `ColdTierProofs` | `Inductive`, `TypeCorrect`, `ReclaimedBeforeAcked` | `[]IInv`, `[]TypeOK`, `AckedReclaimed` |
| `ColdSafetyProofs` | `RefsAlwaysCounted` (assuming `SliceLimits`) | `[]RefsCounted` |
| | `RetainedAlwaysReadable`, `QueuedNeverReferenced`, `PagesOfIncarnation`, `NothingLeaks` (assuming `Limits`) | `[]RetainedReadable`, `[]QueuedUnreferenced`, `[]IncarnationPages`, `[]NoLeak` |
| `RecoveryGateProofs` | `GateTypeCorrect`, `LogIdsUniqueAlways` (assuming `Keeps`) | `[]TypeOK`, `[]LogIdsUnique` |

### 4.1 KeyedWrites

`ExactlyOnce` alone is not inductive: whether a key may be applied again depends
on what the stream remembers of its producer, and that memory is discarded. `IInv`
adds `RemembersProducer`: what is remembered bounds all that was applied. With a
record opened above the floor, every write of the producer is at or below the
record's epoch, and in that epoch at or below its seq and of its history;
otherwise every write is at or below the floor, and so is the record's epoch.
Retirement keeps it because the floor rises to the retired epoch
(`RetirementsInv`); a tokened write that passes the gate is above what is
remembered (`GatePassed`), so it is new and of the record's history
(`AppliedInv`). The invariant is stated of `kept` too, so a loss preserves it. An
untokened write may claim an epoch at or below the floor: the record is then
marked as opened below it, which is why the second case of `RemembersProducer`
speaks of records as well.

Each further result has an invariant of its own on top:

- `TokenInv`: history ids are drawn once, and within one history `last_created`
  bounds the created_at of every token ever rendered, so a token that was not the
  current one is new.
- `AttestInv` is the converse of `RemembersProducer`: every seq up to the one a
  record names is in the stream's log, and the newest with the identity and the
  range of the record's receipt; the same of `kept`. `RepeatTruth` follows.
- `ReportInv`: every closure reported under the current token is still enforced
  (`Blocked`: by a record above that epoch, by the fence of another history, or by the
  floor the record left behind), and no later write of the log broke it.
- `CreatedInv` (`ClocksKeepUp` only): the counter bounds every created_at ever
  assigned, lost ones included.
- `HistoryInv`: what was served under the token of the current history is exactly
  the log. Under the history a slot was last written in it is the log but for bytes
  beyond the tail that a loss took, and below the inherited offset the log is what
  the history it inherited from served (`Continues`). `kept` is said to continue
  too, and to be no longer than the stream of the same incarnation.
- `CapInv`: the set of known producers is finite and at most the cap, also in
  `kept`. An applied write adds at most one producer after the eviction made room.

### 4.2 WalRuns

`IInv` is checked by `wal_runs` and proved. Its parts and what needs them:
`LeaseInv` (a lease ends within its length of the last moment the attachment was
good, and an output leaves within `Margin` of its check), `MountInv` (at most one
process is on the current attachment, the latest; earlier ones were revoked at
least `MoveTime` before), `DiskInv` (the files are those of the process on the
attachment), `OwedInv` (while a process whose volume moved may still speak, the
volume and every later process say that a wait is owed, and no wait ends before
it) and `SilentInv` (what came before a run that took part is silent for good).
`NoLateAnswer` alone says nothing about the restart in between: that the wait is
owed has to survive on disk, which is `OwedInv`. The arithmetic is
`length + Margin <= Wait`.

### 4.3 ExpiryIndex

`Indexed`: each key names one slot, every stream with an expiry is armed at or
before it with the armed entry in the heap, and nothing else is armed. `Bounded`:
the heap has at most two entries per armed stream; it needs the cardinality lemmas
of finite sets and is what `rebuild_ttl_if_bloated` restores. The sweep is a
loop, so its proof is one: `LoopInv` says that what was removed are the first
expired streams in order and that what is left is indexed, and `Weight` (entries,
plus those still to be re-armed) decreases at each turn, so `2 * |heap|` turns end it.
The loop is a recursive function on the naturals; its defining equation and the
induction over its turns are proved by a least counterexample (`WFMin` with
`NatLessThanWellFounded`), since induction theorems with an operator parameter
cannot be instantiated here. From this `IndexRefinesSet`: every step of the index
is a step of `ExpirySet` or leaves it alone, whatever stale entries the heap has.
`ClockInv` says that a pass's `now`, the leader's clock less the grace, is at or
behind every clock, which is where `Skew <= Grace` is used.

### 4.4 ColdTier

`AckedReclaimed` spans three awaits and a lost message: the collector takes a
batch, deletes, counts an entry as done, and its acknowledgement may commit long
after. `IInv` is what makes the count mean something later: `CountersOK`
and `ObjectsOK` (a path is handed out once, nothing is stored at or named by a path
not handed out), `SlotOK` (no two live streams have one generation), `QueueOK`
(numbers increase; a queued incarnation was handed out and is not live), the
workers' `FlusherOK`, `CompactorOK`, `OffloaderOK`, and `CollectorOK` and `LimboOK`:
what a pass or an unanswered acknowledgement counts as reclaimed is gone, and up
to the entries the pass took the queue holds nothing else.

The argument is about what every step keeps (`Aging`): counters grow, a dead
incarnation is never live again, a deleted object at a path that was handed out
stays deleted, and a dead incarnation's empty page stays empty. With that, an
entry that was gone when it was counted is gone when the acknowledgement
commits, and an entry queued since has a higher number. One lemma per action shows
`Aging` and which of the worker's parts it changes; the rest follow from
`IdleParts`. The plan of a flush pass is a recursive function over a sequence and
is treated as the sweep's loop.

`ColdSafetyProofs` adds three inductions on top of `IInv`.

`RInv` is for `RefsCounted`. The count of a pack equals the number of streams with
a slice of it only if no stream has two slices of one pack (`OneSlice`), no slice
still to be published is there already (`PackOpen` for the flusher, `SliceOpen`
for a lost proposal), and a compaction finds its whole run (`RunThere`), since a
run of which a part is gone is removed without a release. The last needs
`SliceLimits`: where slices are compacted, no deletes, no retention, and no
compaction of slices that fails or loses its answer. Packs may be of any width.

`CInv` is for `RetainedReadable`, `QueuedUnreferenced` and `IncarnationPages`. What state, pages, workers and a lost proposal say
an object is for is a `Claim`: a kind (slice, chunk or external payload), a
generation, a range and a path. Its parts:

- `Core`: one path has one purpose (`OnePurpose`); no chunk or slice overlaps an
  external payload (`ExternalApart`); claims are of paths and generations handed
  out (`HandedOut`) and within the tail (`InPlace`); a chunk is in its
  incarnation's directory (`Housed`), or the reclaim of an incarnation would miss
  it or take another's; what a live stream claims at or above its retention is in
  the store and not about to be deleted, neither from the queue, nor by the
  running pass, nor by a lost compaction that commits later (`WantedHeld`); and
  what a pass took is of dead incarnations (`TodoDead`).
- `Laid`: slices and hot bytes are disjoint. `Own`: a worker's upload is named by
  nothing but the page entry it wrote, so that a refusal may delete it.
- `Modes`: at which step each worker can be, and that one at a time is between its
  page write and the answer. `Indexed`: the entry a page write left stays until
  the answer, also while the proposal is lost.
- `Served`: every retained byte is hot, in a slice or external locator, or in a
  page entry that no later page write clips (`Robust`), both in the page and in
  each copy a worker would roll back to. `Clear`: any other entry of a chunk is a
  worker's own or of a flush that left its object to the sweep.

`RetainedReadable` alone is not inductive because of the rollback: whether the
page that a refusal restores serves every byte depends on what was published in
between, which is why `Served` speaks of the saved copies (`Views`) and `Clear`
of what may be clipped. `QueuedUnreferenced` needs `WantedHeld` of lost
compactions too, because these enqueue long after they were planned.

`KInv` is for `NoLeak`, the converse: what a step stops naming it deletes, queues
or leaves to the sweep for a failure's sake. `NoLeak` itself is not inductive, for three reasons, one per
part of `KInv`:

- `AllKept` says by what each object is held, finer than `NoLeak` does. An object
  counts as kept by the queued entry of an incarnation only while that
  incarnation's pages name it, and the run of a compaction of chunks counts only
  between the page write and the answer: before that the pages still name it, and
  a refusal must be shown to give it back to them.
- `RollsBack`: a rollback takes out of the page nothing but the worker's own
  entry, whose object is discarded with it, and brings no external entry back.
- `Emptied`: once a pass turns to the pages of a removed incarnation its objects
  are gone, so dropping the pages forgets none. This is where `Housed` and the
  order of the reclaim (objects first, pages last) are used.

Released slices need the counts to be right: a pack is queued when its count says
that its last slice leaves, so `RInv` is a hypothesis of this induction
(`LastSlice`). A page entry that a write clips is of a flush whose object is among
the `orphans` (`Clear`), which `NoLeak` exempts.

`Limits` are the five of section 3: `PackWidth <= 1` and `~Overtaking`; where runs
are compacted, no deletes, no retention and no compaction of slices that fails or
loses its answer; and where chunks are compacted, no flush that does. `cold_reclaim`
and `cold_compact` are within them. In one place they ask more than TLC finds necessary:
retention together with the compaction of chunks alone has no counterexample on the
bounds of `cold_compact`, but the claim of a merged chunk reaches below the
retention, where `WantedHeld` says nothing.

### 4.5 RecoveryGate

`LogIdsUnique` is Raft's election safety carried over to disks that forget: two
leaders of one term would write different entries under one id, and a leader that
forgot an entry it sent would write another in its place. The types rest on it:
an append that replaces a replica's tail compares ids only, so that the commit
marker stays within the log holds because equal ids are equal entries. The two
theorems therefore share one induction. The parts of `IInv`:

- `DiskOK`, `VoteOK`, `GateOK` of each replica: the commit marker and what is synced
  are within the log, and what is synced within every tail that may come back; a leader holds a committed vote for
  itself; whoever may campaign has a log.
- `Unique` is `LogIdsUnique` of every log that is or may come back (`Held`), since
  a host crash may put a truncated tail back in place.
- `EntriesOK`: of every entry anywhere, its leader's vote is not below the entry's
  term; while it leads in that term it has the entry at that index; it never campaigns
  in that term again; and a majority voted at or above it (`Backed`). The second
  says why a killed or crashed leader must not resume its own term:
  `prevent_crashed_leader_resume` is what keeps it.
- `LeadersOK`, `CandidatesOK`: who leads is backed by a majority, and a vote that was
  granted is still held, or a higher one.

A replica whose disk was lost has no vote and counts in `Backed` as if it had
voted: it answers no candidate, no leader and takes no plan until a barrier gives
it a vote again. That vote is the leader's, and what has to be proved is that it is
not below any vote that still counts on the lost one (`BarrierClaims`). The leader and
one other replica hold it, and in a group of three every majority contains one of the two;
`Barrier` is modelled with one confirming replica, so this is as far as the model
goes. Hence the hypothesis `Keeps`: at most three replicas, or no lost disks
(`NoWipes`). In the second case every replica keeps a vote, and the group may be of
any size.

`IInv` holds on the instance of the run `gate` (TLC).

### 4.6 What is only model-checked

- Of `RecoveryGate`: `AckedKept`, `CommittedAgree` and `KeptTrue`. They need
  leader completeness on top of `IInv`, that whoever is elected holds what was
  committed, for logs of which an unsynced part may vanish and plans that cut them.
- Of `UsageMeter`: everything. The properties equate sums over sets of versions,
  and the sums are folds: an equation about one for every set is an induction over data.
- `ExpiredLeave`, and fairness in general: temporal reasoning with `ENABLED` is
  outside what the installed provers do.

## 5. Hazards

`PROJECT.json` lists what a test of this code would hardly reach, at the line
where it bites, with the properties that would notice. Ten have no property
yet; each says why.

## 6. Where the code and its documentation disagree

Each is a run that TLC ends with a counterexample; the finding quotes the line.

- `cold_slice_after_release`: the slices of a pack are published one command
  each. When the first stream is deleted between two of them the pack's count
  reaches zero and it is queued for deletion; the second slice then counts a
  reference and leaves the entry in the queue, so a live slice names an object
  the collector may delete.
- `cold_trimmed_run`: a shared compaction that is refused at apply has already
  removed the slices that matched; its refusal is taken to mean that nothing
  applied, the page is rolled back and the replacement deleted, and the bytes of
  the removed slices are named by nothing.
- `usage_missed`: `operations.mdx:622` says that when a loss coincides with a read
  missed past the retention a bucket is accounted "less than it holds, never
  more". A consumer that missed a fold accounts the unit to the bucket; a loss
  that takes the fold back lists the version as live again, and the rules account
  the same unit to the version.

Seen on the way, without a run of its own: `NoAlarm` is stated of one history
only. Rule 7's "never negative: alarm if it is" can alarm after an accepted loss
that took a bucket's first create, though nothing is wrong.

## 7. Plan

Done: the modules of section 2 and the proofs of section 4. Next, in this order:

1. The proofs of `RecoveryGate!AckedKept`, `CommittedAgree` and `KeptTrue`.
2. `WalOpening`: how journals open after any sequence of ends (`run_state.rs`,
   `PreviousRun`, `replay_mode`, `RecoveryState`, epochs, fsync policies) over a
   journal whose unsynced records may have holes; its promise is what
   `RecoveryGate` assumes of a start.
3. `SnapshotHolds`, `OrphanSweep` (list first, check later) and a second leader's
   pages in the cold tier.
4. `Placement`: `plan_membership_step` against an abstract "a live majority of
   every configuration", decommission and catch-up.
5. Gateway ejection; the SQLite VFS's reconciliation as a client of `Evaluate`.

## 8. Not modelled

OpenRaft and its transport are external: `RecoveryGate` models votes, logs and
elections from how `u-raft` uses them, and the other models take one committed log
per group whose only failure is the accepted loss of a suffix. Not modelled at
all: how journals open (replay mode, recovery epoch), snapshot holds and installs,
orphan sweep, retention GC and key holds, group actors and the read index, hosting
and teardown, placement, the gateway, the SQLite VFS and its bindings; encodings,
headers, rendering, configuration and metrics (data without control); benchmarks
and the simulator (they drive the system); pacing and pressure of the workers (the
models let a pass run at any time). `PROJECT.json` names every part with the
reason.

------------------------------ MODULE ColdTier ------------------------------
(***************************************************************************)
(* The cold tier of one Raft group: how a stream's bytes move from the hot *)
(* buffer in replicated state to objects in the object store, and how the  *)
(* objects are reclaimed.                                                  *)
(*                                                                         *)
(* slot, refs, gc and lastGen are the group's replicated state (one value: *)
(* apply is deterministic).  store and pages are the object store: objects *)
(* by path, and the cold-index pages of each stream generation.  flusher,  *)
(* compactor, offloader and collector are the leader's background workers, *)
(* each between two of its awaits.  limbo is a command that was appended   *)
(* and whose answer its proposer lost: it commits or is discarded, and no  *)
(* later command applies before that is settled.  orphans are the objects  *)
(* left to the orphan sweep: those such commands named, and those whose    *)
(* owner failed before it published or deleted them.                       *)
(*                                                                         *)
(* A byte is named by its incarnation and offset, <<gen, off>>; generations *)
(* are unique in the group, so a generation also names its stream.  Bytes  *)
(* of one incarnation never change, so a payload digest equals the         *)
(* generation check and is left out.  One page stands for a generation's   *)
(* pages.  Not-before times are reduced to "may not be due yet".           *)
(***************************************************************************)
EXTENDS Integers, Sequences, FiniteSets, FiniteSetsExt, SequencesExt, ColdGcQueue

CONSTANTS Streams,     \* stream names of one bucket
          MaxTail,     \* bound on a stream's length
          MaxGen,      \* bound on the number of creates
          MaxPath,     \* bound on the number of objects written
          MaxSeq,      \* bound on the GC queue's numbers (stops deferrals)
          MaxFlush,    \* most bytes of one flush pass (flush_max_size)
          MaxRetain,   \* bound on checkpoint and retention offsets
          MaxRun,      \* most bytes of a run of slices (max_run_bytes)
          PackWidth,   \* most streams one pack holds slices of
          GcBatch,     \* entries of one GC pass
          Duties,      \* the background workers that run
          Lossy,       \* those that may fail: a proposal refused or its answer lost,
                       \* a page write failed, the process ended between two steps
          Overtaking   \* whether a page may be written while a lost command is
                       \* undecided: a leader whose lease lapsed gives the
                       \* answer up, and may lead on in the same term

ASSUME ColdConstants ==
  /\ {MaxTail, MaxGen, MaxPath, MaxSeq, MaxFlush, MaxRetain, MaxRun, PackWidth, GcBatch}
       \subseteq Nat
  /\ Duties \subseteq {"flush", "pack", "external", "shared", "raw", "delete", "gc"}
  /\ Lossy \subseteq Duties /\ Overtaking \in BOOLEAN

VARIABLES slot, refs, gc, lastGen,                  \* replicated state
          store, pages, lastPath,                   \* object store
          flusher, compactor, offloader, collector, \* the leader's workers
          limbo,                                    \* command of unknown outcome
          orphans                                   \* objects left to the sweep

replicated == <<slot, refs, gc, lastGen>>
workers == <<flusher, compactor, offloader, collector>>
outcome == <<limbo, orphans>>
vars == <<replicated, store, pages, lastPath, workers, outcome>>

Paths == 1 .. MaxPath
Ranges == {r \in (0 .. MaxTail) \X (0 .. MaxTail) : r[1] < r[2]}
Ref == {[start |-> r[1], end |-> r[2], path |-> p] : r \in Ranges, p \in Paths}
Span(r) == r.start .. r.end - 1
Overlap(a, b) == a.start < b.end /\ b.start < a.end

\* No stream under the name.
Vacant == [live |-> FALSE, gen |-> 0, tail |-> 0, retained |-> 0, snapshot |-> 0,
           hot |-> {}, chunks |-> {}, external |-> {}]

Idle == [stage |-> "idle"]
NoObject == [dir |-> 0, bytes |-> {}]
NoCommand == [kind |-> "none"]

Live == {s \in Streams : slot[s].live}
BytesOf(gen, r) == {<<gen, o>> : o \in Span(r)}
Stored(path) == store[path] # NoObject
HotStart(s) == IF slot[s].hot = {} THEN slot[s].tail ELSE Min(slot[s].hot)

Init ==
  /\ slot = [s \in Streams |-> Vacant]
  /\ refs = [p \in Paths |-> 0]
  /\ gc = EmptyQueue
  /\ lastGen = 0
  /\ store = [p \in Paths |-> NoObject]
  /\ pages = [g \in 0 .. MaxGen |-> {}]
  /\ lastPath = 0
  /\ flusher = Idle /\ compactor = Idle /\ offloader = Idle /\ collector = Idle
  /\ limbo = NoCommand /\ orphans = {}

-----------------------------------------------------------------------------
(* Applying commands to the group's state. *)

\* Mutant of Released: the first release forgets the pack's count.
ReleasedAtOnce(paths) == [p \in Paths |-> IF p \in paths THEN 0 ELSE refs[p]]

\* release_shared_cold_objects: one reference fewer to each pack in paths,
\* and a pack left with none is queued for the GC.
Released(paths) ==
  [p \in Paths |-> IF p \in paths /\ refs[p] > 0 THEN refs[p] - 1 ELSE refs[p]]

\* Mutant of QueueReleased: an object released by its last slice is not
\* queued.
QueueReleasedNever(q, paths, graced) == q

QueueReleased(q, paths, graced) ==
  EnqueueEach(q, SetToSeq({p \in paths : refs[p] = 1}), graced)

PathsOf(rs) == {r.path : r \in rs}

QueueUnless(q, paths, graced) ==
  IF paths = {} THEN q ELSE EnqueueAfter(q, paths, graced)

\* A command applies only when no earlier one is in limbo.
Settled == limbo = NoCommand

\* Mutant of Create: a recreated stream takes the generation of the last
\* incarnation.
CreateSameGeneration(s) ==
  /\ Settled /\ ~slot[s].live /\ lastGen < MaxGen
  /\ lastGen' = lastGen + 1
  /\ slot' = [slot EXCEPT ![s] = [Vacant EXCEPT !.live = TRUE, !.gen = Max({lastGen, 1})]]
  /\ UNCHANGED <<refs, gc, store, pages, lastPath, workers, outcome>>

\* create_stream: a new incarnation, its cold objects scoped to its
\* generation.
Create(s) ==
  /\ Settled /\ ~slot[s].live /\ lastGen < MaxGen
  /\ lastGen' = lastGen + 1
  /\ slot' = [slot EXCEPT ![s] = [Vacant EXCEPT !.live = TRUE, !.gen = lastGen + 1]]
  /\ UNCHANGED <<refs, gc, store, pages, lastPath, workers, outcome>>

\* An inline append: the bytes enter the hot buffer.
AppendInline(s) ==
  /\ Settled /\ slot[s].live /\ slot[s].tail < MaxTail
  /\ slot' = [slot EXCEPT ![s].hot = @ \cup {slot[s].tail}, ![s].tail = @ + 1]
  /\ UNCHANGED <<refs, gc, lastGen, store, pages, lastPath, workers, outcome>>

\* append_external: the front door has staged the payload as an object of
\* the stream, which nothing names before the append applies; the append
\* keeps its locator in state.
AppendExternal(s) ==
  /\ Settled /\ "external" \in Duties
  /\ slot[s].live /\ slot[s].tail < MaxTail /\ lastPath < MaxPath
  /\ lastPath' = lastPath + 1
  /\ LET r == [start |-> slot[s].tail, end |-> slot[s].tail + 1, path |-> lastPath'] IN
     /\ store' = [store EXCEPT ![lastPath'] = [dir |-> 0, bytes |-> BytesOf(slot[s].gen, r)]]
     /\ slot' = [slot EXCEPT ![s].external = @ \cup {r}, ![s].tail = @ + 1]
  /\ UNCHANGED <<refs, gc, lastGen, pages, workers, outcome>>

\* The staged payload of an append that did not apply, kept because the
\* answer was ambiguous (cleanup_external_payload) or its deletion failed.
StrandExternal(s) ==
  /\ "external" \in Lossy
  /\ slot[s].live /\ slot[s].tail < MaxTail /\ lastPath < MaxPath
  /\ lastPath' = lastPath + 1
  /\ LET r == [start |-> slot[s].tail, end |-> slot[s].tail + 1, path |-> lastPath'] IN
     store' = [store EXCEPT ![lastPath'] = [dir |-> 0, bytes |-> BytesOf(slot[s].gen, r)]]
  /\ orphans' = orphans \cup {lastPath'}
  /\ UNCHANGED <<replicated, pages, workers, limbo>>

\* publish_snapshot, with an inline body: checkpoints only move forward.
PublishSnapshot(s, o) ==
  /\ Settled /\ slot[s].live
  /\ slot[s].retained <= o /\ o <= slot[s].tail /\ slot[s].snapshot < o
  /\ slot' = [slot EXCEPT ![s].snapshot = o]
  /\ UNCHANGED <<refs, gc, lastGen, store, pages, lastPath, workers, outcome>>

\* advance_retention and compact_retained_prefix: refs wholly below the
\* offset leave state, their objects queued with the retention grace, and
\* hot bytes below it are dropped.
AdvanceRetention(s, o) ==
  /\ Settled /\ slot[s].live
  /\ slot[s].retained < o /\ o <= slot[s].snapshot
  /\ LET below(rs) == {r \in rs : r.end <= o}
         chunks == below(slot[s].chunks)
         external == below(slot[s].external)
     IN  /\ slot' = [slot EXCEPT ![s].retained = o, ![s].chunks = @ \ chunks,
                                 ![s].external = @ \ external,
                                 ![s].hot = {b \in @ : b >= o}]
         /\ refs' = Released(PathsOf(chunks))
         /\ gc' = QueueUnless(QueueReleased(gc, PathsOf(chunks), TRUE),
                              PathsOf(external), TRUE)
  /\ UNCHANGED <<lastGen, store, pages, lastPath, workers, outcome>>

\* remove_stream_state: the incarnation is queued if it may have cold
\* objects, then its external payloads, and its pack slices are released.
Delete(s) ==
  /\ Settled /\ "delete" \in Duties /\ slot[s].live
  /\ LET hasColdObjects == \/ Cardinality(slot[s].hot) < slot[s].tail
                           \/ slot[s].chunks # {} \/ slot[s].external # {}
         queued == IF hasColdObjects
                   THEN QueueUnless(EnqueueStream(gc, slot[s].gen),
                                    PathsOf(slot[s].external), FALSE)
                   ELSE gc
     IN  gc' = QueueReleased(queued, PathsOf(slot[s].chunks), FALSE)
  /\ refs' = Released(PathsOf(slot[s].chunks))
  /\ slot' = [slot EXCEPT ![s] = Vacant]
  /\ UNCHANGED <<lastGen, store, pages, lastPath, workers, outcome>>

\* Mutant of FlushFits: the candidate's incarnation is not checked.
FlushFitsAnyGeneration(c) ==
  /\ slot[c.stream].live
  /\ c.end <= slot[c.stream].tail /\ c.start = HotStart(c.stream)
  /\ Span(c) \subseteq slot[c.stream].hot

\* check_cold_flush and check_cold_flush_generation: the candidate is still
\* the hot prefix of the incarnation it was planned from.
FlushFits(c) ==
  /\ slot[c.stream].live /\ slot[c.stream].gen = c.gen
  /\ c.end <= slot[c.stream].tail /\ c.start = HotStart(c.stream)
  /\ Span(c) \subseteq slot[c.stream].hot

\* flush_cold: a slice of a pack stays in state and counts a reference; an
\* exclusive chunk is named by a page only.
FlushCold(c, path, shared) ==
  /\ slot' = [slot EXCEPT
       ![c.stream].hot = {b \in @ : b >= c.end},
       ![c.stream].chunks =
         @ \cup (IF shared THEN {[start |-> c.start, end |-> c.end, path |-> path]} ELSE {})]
  /\ refs' = IF shared THEN [refs EXCEPT ![path] = @ + 1] ELSE refs
  /\ UNCHANGED <<gc, lastGen>>

\* compact_cold on slices of packs: remove_shared_chunks takes the listed
\* slices that state still holds, and the command is refused unless it took
\* them all.
SharedRunMatches(s, run) == slot[s].live /\ run \subseteq slot[s].chunks

CompactShared(s, run) ==
  /\ slot' = [slot EXCEPT ![s].chunks = @ \ run]
  /\ IF SharedRunMatches(s, run)
     THEN refs' = Released(PathsOf(run)) /\ gc' = QueueReleased(gc, PathsOf(run), TRUE)
     ELSE UNCHANGED <<refs, gc>>
  /\ UNCHANGED lastGen

\* Mutant of CompactRaw: the replaced objects are not queued.
CompactRawUnqueued(s, run) == UNCHANGED <<gc, slot, refs, lastGen>>

\* compact_cold on exclusive chunks: only pages name them, so apply checks
\* that the stream exists and queues the replaced objects.
CompactRaw(s, run) ==
  /\ gc' = IF slot[s].live THEN EnqueueAfter(gc, PathsOf(run), TRUE) ELSE gc
  /\ UNCHANGED <<slot, refs, lastGen>>

CompactAccepted(job) ==
  IF job.shared THEN SharedRunMatches(job.stream, job.run) ELSE slot[job.stream].live

CompactCold(job) ==
  IF job.shared THEN CompactShared(job.stream, job.run) ELSE CompactRaw(job.stream, job.run)
-----------------------------------------------------------------------------
(* Cold-index pages and the object store. *)

Entry(r, external) ==
  [start |-> r.start, end |-> r.end, path |-> r.path, external |-> external]

\* The clip rule: a page write for a range whose bytes state proves removes
\* every other entry overlapping it.
Clipped(page, e) == {f \in page : f = e \/ ~Overlap(e, f)} \cup {e}

\* rollback_cold_index_pages: restores the page as it was before the write,
\* unless the written entry is gone.
RolledBack(gen, e, saved) ==
  IF e \in pages[gen] THEN [pages EXCEPT ![gen] = saved] ELSE pages

\* The group actor runs a page write and its proposal as one operation, so
\* no two page writers are between the two at once.  A new leader checks
\* nothing before it applied its own term's first entry, and with it every
\* earlier command that will commit.
MayIndex ==
  /\ "indexed" \notin {flusher.stage, compactor.stage, offloader.stage}
  /\ Settled \/ Overtaking

\* The deletion of an upload that was refused is best effort: one that
\* fails leaves the object to the orphan sweep (delete_rejected_pack).
Discard(path) ==
  \/ store' = [store EXCEPT ![path] = NoObject] /\ UNCHANGED orphans
  \/ orphans' = orphans \cup {path} /\ UNCHANGED store

-----------------------------------------------------------------------------
(* The flush worker. *)

\* plan_cold_flush_from: the contiguous hot prefix of the stream, up to cap.
Prefix(s, cap) ==
  LET start == HotStart(s)
      ends == {n \in start + 1 .. Min({slot[s].tail, start + cap}) :
                 start .. n - 1 \subseteq slot[s].hot}
  IN  [stream |-> s, gen |-> slot[s].gen, start |-> start,
       end |-> IF ends = {} THEN start ELSE Max(ends)]

Payload(todo) == UNION {BytesOf(todo[i].gen, todo[i]) : i \in DOMAIN todo}

\* plan_cold_flush_pass_from: candidates of distinct streams, each capped by
\* what those before it left of the pass's budget.
Planned(order) ==
  LET plan[i \in Nat] ==
        IF i = 0 THEN <<>>
        ELSE Append(plan[i - 1],
                    Prefix(order[i], MaxFlush - Cardinality(Payload(plan[i - 1]))))
  IN  plan[Len(order)]

\* plan_cold_flush and the PUT of the object: one exclusive chunk of one
\* stream, or a pack with a slice of each of up to PackWidth streams.
PlanFlush(todo, shared) ==
  /\ flusher = Idle /\ lastPath < MaxPath
  /\ \A i \in DOMAIN todo : todo[i].start < todo[i].end
  /\ lastPath' = lastPath + 1
  /\ store' = [store EXCEPT ![lastPath'] =
       [dir |-> IF shared THEN 0 ELSE todo[1].gen,
        bytes |-> Payload(todo)]]
  /\ flusher' = [stage |-> "uploaded", path |-> lastPath', shared |-> shared,
                 todo |-> todo, published |-> FALSE, gen |-> 0, saved |-> {}]
  /\ UNCHANGED <<replicated, pages, compactor, offloader, collector, outcome>>

PlanExclusive ==
  "flush" \in Duties /\ \E s \in Live : PlanFlush(Planned(<<s>>), FALSE)

PlanPack ==
  /\ "pack" \in Duties
  /\ \E T \in SUBSET Live : /\ Cardinality(T) \in 1 .. PackWidth
                           /\ \E order \in SetToSeqs(T) : PlanFlush(Planned(order), TRUE)

FlushEntry ==
  Entry([start |-> flusher.todo[1].start, end |-> flusher.todo[1].end,
         path |-> flusher.path], FALSE)

\* The rest of a flush that was refused: its page entry is rolled back, and
\* its object discarded if nothing of it was published.
FlushRefused ==
  /\ pages' = IF flusher.stage = "indexed"
              THEN RolledBack(flusher.gen, FlushEntry, flusher.saved) ELSE pages
  /\ IF flusher.published THEN UNCHANGED <<store, orphans>> ELSE Discard(flusher.path)
  /\ flusher' = Idle

\* engine flush_cold before the proposal, for an exclusive chunk: a stale
\* candidate is refused, any other writes its page entry in the live
\* generation.
IndexFlush ==
  /\ flusher.stage = "uploaded" /\ ~flusher.shared /\ MayIndex
  /\ IF FlushFits(flusher.todo[1])
     THEN LET g == slot[flusher.todo[1].stream].gen IN
          /\ pages' = [pages EXCEPT ![g] = Clipped(@, FlushEntry)]
          /\ flusher' = [flusher EXCEPT !.stage = "indexed", !.gen = g, !.saved = pages[g]]
          /\ UNCHANGED <<store, orphans>>
     ELSE FlushRefused
  /\ UNCHANGED <<replicated, lastPath, compactor, offloader, collector, limbo>>

FlushDuty == IF flusher.shared THEN "pack" ELSE "flush"
FlushProposing == flusher.stage = IF flusher.shared THEN "uploaded" ELSE "indexed"

\* The next slice of the pack, or the end of the flush, after a slice's
\* answer.
NextSlice(published) ==
  IF Len(flusher.todo) > 1
  THEN /\ flusher' = [flusher EXCEPT !.todo = Tail(@), !.published = published]
       /\ UNCHANGED <<store, orphans>>
  ELSE /\ flusher' = Idle
       /\ IF published THEN UNCHANGED <<store, orphans>> ELSE Discard(flusher.path)

\* FlushCold commits, applies and is answered.  A stale slice of a pack is
\* skipped, a stale exclusive chunk discarded.
PublishFlush ==
  /\ flusher # Idle /\ FlushProposing /\ Settled
  /\ LET c == flusher.todo[1] IN
     \/ /\ FlushFits(c)
        /\ FlushCold(c, flusher.path, flusher.shared)
        /\ NextSlice(TRUE)
        /\ UNCHANGED pages
     \/ /\ ~FlushFits(c) /\ flusher.shared
        /\ NextSlice(flusher.published)
        /\ UNCHANGED <<replicated, pages>>
     \/ /\ ~FlushFits(c) /\ ~flusher.shared
        /\ FlushRefused
        /\ UNCHANGED replicated
  /\ UNCHANGED <<lastPath, compactor, offloader, collector, limbo>>

\* The proposal is refused before it reaches the log (the leadership fence).
RefuseFlush ==
  /\ flusher # Idle /\ FlushDuty \in Lossy /\ FlushProposing
  /\ FlushRefused
  /\ UNCHANGED <<replicated, lastPath, compactor, offloader, collector, limbo>>

\* The proposal is appended and its answer lost: the object and the page
\* entry stay.
LoseFlush ==
  /\ flusher # Idle /\ FlushDuty \in Lossy /\ FlushProposing /\ Settled
  /\ limbo' = [kind |-> "flush", candidate |-> flusher.todo[1],
               path |-> flusher.path, shared |-> flusher.shared]
  /\ orphans' = orphans \cup {flusher.path}
  /\ flusher' = Idle
  /\ UNCHANGED <<replicated, store, pages, lastPath, compactor, offloader, collector>>

\* The process ends before or after the page write, or the page write or its
\* rollback fails: nothing was proposed or applied, and what there is stays.
AbandonFlush ==
  /\ flusher # Idle /\ FlushDuty \in Lossy
  /\ orphans' = IF flusher.published THEN orphans ELSE orphans \cup {flusher.path}
  /\ flusher' = Idle
  /\ UNCHANGED <<replicated, store, pages, lastPath, compactor, offloader, collector, limbo>>

-----------------------------------------------------------------------------
(* The compaction workers: pack slices to one exclusive chunk, and small    *)
(* exclusive chunks to one.                                                *)

Covered(run) == UNION {Span(r) : r \in run}
First(run) == Min({r.start : r \in run})
Beyond(run) == Max({r.end : r \in run})

\* Mutant of Contiguous: a run may have gaps.
ContiguousUnchecked(run) == run # {}

Contiguous(run) == run # {} /\ Covered(run) = First(run) .. Beyond(run) - 1

\* plan_shared_ref_run: the longest run of adjacent slices from the oldest
\* one on within MaxRun bytes; the oldest is always taken.
SharedRun(s) ==
  UNION {run \in SUBSET slot[s].chunks :
           /\ Contiguous(run) /\ First(run) = First(slot[s].chunks)
           /\ Cardinality(run) = 1 \/ Cardinality(Covered(run)) <= MaxRun}

\* select_cold_chunk_compaction: two or more adjacent chunks of the pages,
\* as many as the configured sizes ask for.
RawRuns(s) ==
  {run \in SUBSET {e \in pages[slot[s].gen] : ~e.external} :
     Cardinality(run) >= 2 /\ Contiguous(run)}

\* Reads the run's bytes and PUTs them as one chunk named by the planned
\* generation.  A missing object or, for slices, other bytes than their
\* digest's fail the read.
PlanCompaction(s, run, shared) ==
  /\ compactor = Idle /\ lastPath < MaxPath
  /\ \A r \in run : IF shared THEN BytesOf(slot[s].gen, r) \subseteq store[r.path].bytes
                              ELSE Stored(r.path)
  /\ lastPath' = lastPath + 1
  /\ store' = [store EXCEPT ![lastPath'] =
       [dir |-> slot[s].gen,
        bytes |-> IF shared THEN UNION {BytesOf(slot[s].gen, r) : r \in run}
                            ELSE UNION {store[r.path].bytes : r \in run}]]
  /\ compactor' = [stage |-> "uploaded", stream |-> s, run |-> run, path |-> lastPath',
                   shared |-> shared, gen |-> 0, saved |-> {}]
  /\ UNCHANGED <<replicated, pages, flusher, offloader, collector, outcome>>

PlanShared ==
  "shared" \in Duties /\ \E s \in Live : slot[s].chunks # {} /\ PlanCompaction(s, SharedRun(s), TRUE)

PlanRaw ==
  "raw" \in Duties /\ \E s \in Live : \E run \in RawRuns(s) : PlanCompaction(s, run, FALSE)

CompactDuty == IF compactor.shared THEN "shared" ELSE "raw"

Replacement ==
  Entry([start |-> First(compactor.run), end |-> Beyond(compactor.run),
         path |-> compactor.path], FALSE)

\* A compaction that was refused: its page write is rolled back and its
\* replacement discarded.
CompactionRefused ==
  /\ pages' = IF compactor.stage = "indexed"
              THEN RolledBack(compactor.gen, Replacement, compactor.saved) ELSE pages
  /\ Discard(compactor.path)
  /\ compactor' = Idle

\* engine compact_cold before the proposal: the page write goes to the
\* generation the name has now.  Slices are in no page, so the replacement
\* is a fresh entry; chunks are replaced only if the pages still hold them.
IndexCompaction ==
  /\ compactor.stage = "uploaded" /\ MayIndex
  /\ LET g == slot[compactor.stream].gen IN
     IF ~compactor.shared /\ ~(compactor.run \subseteq pages[g])
     THEN CompactionRefused
     ELSE /\ pages' = [pages EXCEPT ![g] = IF compactor.shared THEN Clipped(@, Replacement)
                                           ELSE (@ \ compactor.run) \cup {Replacement}]
          /\ compactor' = [compactor EXCEPT !.stage = "indexed", !.gen = g, !.saved = pages[g]]
          /\ UNCHANGED <<store, orphans>>
  /\ UNCHANGED <<replicated, lastPath, flusher, offloader, collector, limbo>>

\* CompactCold commits, applies and is answered.
PublishCompaction ==
  /\ compactor.stage = "indexed" /\ Settled
  /\ CompactCold(compactor)
  /\ IF CompactAccepted(compactor)
     THEN compactor' = Idle /\ UNCHANGED <<store, pages, orphans>>
     ELSE CompactionRefused
  /\ UNCHANGED <<lastPath, flusher, offloader, collector, limbo>>

RefuseCompaction ==
  /\ compactor.stage = "indexed" /\ CompactDuty \in Lossy
  /\ CompactionRefused
  /\ UNCHANGED <<replicated, lastPath, flusher, offloader, collector, limbo>>

LoseCompaction ==
  /\ compactor.stage = "indexed" /\ CompactDuty \in Lossy /\ Settled
  /\ limbo' = [kind |-> "compact", job |-> compactor]
  /\ orphans' = orphans \cup {compactor.path} \cup PathsOf(compactor.run)
  /\ compactor' = Idle
  /\ UNCHANGED <<replicated, store, pages, lastPath, flusher, offloader, collector>>

\* The process ends before or after the page write, or the page write or its
\* rollback fails: after the page write no page names the inputs.
AbandonCompaction ==
  /\ compactor # Idle /\ CompactDuty \in Lossy
  /\ orphans' = orphans \cup {compactor.path}
                  \cup (IF compactor.stage = "indexed" THEN PathsOf(compactor.run) ELSE {})
  /\ compactor' = Idle
  /\ UNCHANGED <<replicated, store, pages, lastPath, flusher, offloader, collector, limbo>>

-----------------------------------------------------------------------------
(* The offload worker: external locators move from state to pages. *)

\* Writes the page entries of every locator the stream holds.
IndexOffload(s) ==
  /\ "external" \in Duties /\ offloader = Idle /\ MayIndex
  /\ slot[s].live /\ slot[s].external # {}
  /\ offloader' = [stage |-> "indexed", stream |-> s, refs |-> slot[s].external]
  /\ LET new == {Entry(r, TRUE) : r \in slot[s].external} IN
     pages' = [pages EXCEPT ![slot[s].gen] =
                 {f \in @ : \A e \in new : f = e \/ ~Overlap(e, f)} \cup new]
  /\ UNCHANGED <<replicated, store, lastPath, flusher, compactor, collector, outcome>>

\* offload_cold_refs: exactly the listed locators leave state.
PublishOffload ==
  /\ offloader # Idle /\ Settled
  /\ slot' = [slot EXCEPT ![offloader.stream].external = @ \ offloader.refs]
  /\ offloader' = Idle
  /\ UNCHANGED <<refs, gc, lastGen, store, pages, lastPath, flusher, compactor, collector, outcome>>

\* The proposal is refused or lost: the pages stay, a later pass retries.
RefuseOffload ==
  /\ "external" \in Lossy /\ offloader # Idle
  /\ offloader' = Idle
  /\ UNCHANGED <<replicated, store, pages, lastPath, flusher, compactor, collector, outcome>>

LoseOffload ==
  /\ "external" \in Lossy /\ offloader # Idle /\ Settled
  /\ limbo' = [kind |-> "offload", stream |-> offloader.stream, refs |-> offloader.refs]
  /\ offloader' = Idle
  /\ UNCHANGED <<orphans, replicated, store, pages, lastPath, flusher, compactor, collector>>
-----------------------------------------------------------------------------
(* The GC worker: reclaims a prefix of the queue, then acknowledges it. *)

Without(objects) == [p \in Paths |-> IF p \in objects THEN NoObject ELSE store[p]]

\* Mutant of IncarnationObjects: the chunks of every incarnation.
IncarnationObjectsUnscoped(gen) ==
  PathsOf({e \in pages[gen] : e.external}) \cup {p \in Paths : store[p].dir # 0}

\* Objects of a removed incarnation: the external payloads its pages name,
\* and every chunk in its directory.
IncarnationObjects(gen) ==
  PathsOf({e \in pages[gen] : e.external}) \cup {p \in Paths : store[p].dir = gen}

LiveGen(gen) == \E s \in Live : slot[s].gen = gen

PlanGc ==
  /\ "gc" \in Duties /\ collector = Idle /\ gc.pending # <<>>
  /\ collector' = [stage |-> "working", acked |-> 0,
                   todo |-> SubSeq(gc.pending, 1, Min({GcBatch, Len(gc.pending)}))]
  /\ UNCHANGED <<replicated, store, pages, lastPath, flusher, compactor, offloader, outcome>>

Reclaimed == [collector EXCEPT !.stage = "working", !.acked = collector.todo[1].seq,
                               !.todo = Tail(@)]

Collecting(stage) == collector.stage = stage /\ collector.todo # <<>>

\* run_cold_gc_group_once on a Paths entry: every path is one object.
ReclaimPaths ==
  /\ Collecting("working") /\ collector.todo[1].gen = 0
  /\ store' = Without(collector.todo[1].paths)
  /\ collector' = Reclaimed
  /\ UNCHANGED <<replicated, pages, lastPath, flusher, compactor, offloader, outcome>>

\* reclaim_stream_incarnation: objects first, and the pages, which name
\* them, last.  A live generation is never touched.
ReclaimObjects ==
  /\ Collecting("working") /\ collector.todo[1].gen # 0
  /\ LET g == collector.todo[1].gen IN
     IF LiveGen(g) THEN collector' = Reclaimed /\ UNCHANGED store
     ELSE /\ store' = Without(IncarnationObjects(g))
          /\ collector' = [collector EXCEPT !.stage = "pages"]
  /\ UNCHANGED <<replicated, pages, lastPath, flusher, compactor, offloader, outcome>>

ReclaimPages ==
  /\ Collecting("pages")
  /\ LET g == collector.todo[1].gen IN
     pages' = IF LiveGen(g) THEN pages ELSE [pages EXCEPT ![g] = {}]
  /\ collector' = Reclaimed
  /\ UNCHANGED <<replicated, store, lastPath, flusher, compactor, offloader, outcome>>

\* Reclaiming the entry fails after some of its objects: it is deferred and
\* the pass goes on; or the deferral fails, applied later or never, and the
\* pass ends.
FailEntry ==
  /\ "gc" \in Lossy /\ Collecting("working") /\ Settled /\ gc.next < MaxSeq
  /\ LET e == collector.todo[1] IN
     /\ \E some \in SUBSET (IF e.gen = 0 THEN e.paths ELSE IncarnationObjects(e.gen)) :
          store' = Without(some)
     /\ \/ /\ gc' = Defer(gc, e.seq)
           /\ collector' = [collector EXCEPT !.todo = Tail(@)]
           /\ UNCHANGED outcome
        \/ /\ limbo' = [kind |-> "defer", seq |-> e.seq]
           /\ collector' = [collector EXCEPT !.todo = <<>>]
           /\ UNCHANGED <<gc, orphans>>
  /\ UNCHANGED <<slot, refs, lastGen, pages, lastPath, flusher, compactor, offloader>>

PassEnds ==
  /\ collector.stage = "working"
  /\ collector.todo # <<>> => collector.todo[1].graced

\* ack_cold_gc, if the pass reclaimed anything.
AckGc ==
  /\ PassEnds /\ Settled
  /\ gc' = IF collector.acked = 0 THEN gc ELSE Ack(gc, collector.acked)
  /\ collector' = Idle
  /\ UNCHANGED <<slot, refs, lastGen, store, pages, lastPath, flusher, compactor, offloader, outcome>>

LoseAck ==
  /\ "gc" \in Lossy /\ PassEnds /\ Settled /\ collector.acked # 0
  /\ limbo' = [kind |-> "ack", upTo |-> collector.acked]
  /\ collector' = Idle
  /\ UNCHANGED <<orphans, replicated, store, pages, lastPath, flusher, compactor, offloader>>

\* The leader fails, or the ack is refused: the next pass starts over.
AbandonGc ==
  /\ "gc" \in Lossy /\ collector # Idle
  /\ collector' = Idle
  /\ UNCHANGED <<replicated, store, pages, lastPath, flusher, compactor, offloader, outcome>>

-----------------------------------------------------------------------------
(* The command whose answer was lost. *)

ApplyLimbo ==
  CASE limbo.kind = "flush" ->
         IF FlushFits(limbo.candidate)
         THEN FlushCold(limbo.candidate, limbo.path, limbo.shared)
         ELSE UNCHANGED replicated
    [] limbo.kind = "compact" -> CompactCold(limbo.job)
    [] limbo.kind = "offload" ->
         /\ slot' = [slot EXCEPT ![limbo.stream].external = @ \ limbo.refs]
         /\ UNCHANGED <<refs, gc, lastGen>>
    [] limbo.kind = "ack" -> gc' = Ack(gc, limbo.upTo) /\ UNCHANGED <<slot, refs, lastGen>>
    [] limbo.kind = "defer" -> gc' = Defer(gc, limbo.seq) /\ UNCHANGED <<slot, refs, lastGen>>

CommitLimbo ==
  /\ limbo # NoCommand
  /\ ApplyLimbo
  /\ limbo' = NoCommand
  /\ UNCHANGED <<orphans, store, pages, lastPath, workers>>

DiscardLimbo ==
  /\ limbo # NoCommand
  /\ limbo' = NoCommand
  /\ UNCHANGED <<orphans, replicated, store, pages, lastPath, workers>>

-----------------------------------------------------------------------------

Next ==
  \/ \E s \in Streams : \/ Create(s) \/ AppendInline(s) \/ AppendExternal(s)
                        \/ StrandExternal(s) \/ Delete(s) \/ IndexOffload(s)
                        \/ \E o \in 1 .. MaxRetain : \/ PublishSnapshot(s, o)
                                                     \/ AdvanceRetention(s, o)
  \/ PlanExclusive \/ PlanPack \/ IndexFlush \/ PublishFlush \/ RefuseFlush \/ LoseFlush
  \/ AbandonFlush
  \/ PlanShared \/ PlanRaw \/ IndexCompaction \/ PublishCompaction
  \/ RefuseCompaction \/ LoseCompaction \/ AbandonCompaction
  \/ PublishOffload \/ RefuseOffload \/ LoseOffload
  \/ PlanGc \/ ReclaimPaths \/ ReclaimObjects \/ ReclaimPages \/ FailEntry
  \/ AckGc \/ LoseAck \/ AbandonGc
  \/ CommitLimbo \/ DiscardLimbo

Spec == Init /\ [][Next]_vars
-----------------------------------------------------------------------------
(* Properties. *)

Slot == [live : BOOLEAN, gen : 0 .. MaxGen, tail : 0 .. MaxTail, retained : 0 .. MaxTail,
         snapshot : 0 .. MaxTail, hot : SUBSET (0 .. MaxTail), chunks : SUBSET Ref,
         external : SUBSET Ref]
Object == [dir : 0 .. MaxGen, bytes : SUBSET ((0 .. MaxGen) \X (0 .. MaxTail))]
PageEntry == {Entry(r, x) : r \in Ref, x \in BOOLEAN}
GcEntry == {e \in [seq : Nat \ {0}, gen : 0 .. MaxGen, paths : SUBSET Paths, graced : BOOLEAN] :
              e.gen # 0 => e.paths = {}}
Plan == [stream : Streams, gen : 0 .. MaxGen, start : 0 .. MaxTail, end : 0 .. MaxTail]
Candidate == {c \in Plan : c.start < c.end}
Flush == [stage : {"uploaded", "indexed"}, path : Paths, shared : BOOLEAN,
          todo : Seq(Candidate), published : BOOLEAN, gen : 0 .. MaxGen,
          saved : SUBSET PageEntry]
Compaction == [stage : {"uploaded", "indexed"}, stream : Streams,
               run : (SUBSET Ref) \cup (SUBSET PageEntry), path : Paths, shared : BOOLEAN,
               gen : 0 .. MaxGen, saved : SUBSET PageEntry]
Offload == [stage : {"indexed"}, stream : Streams, refs : SUBSET Ref]
Collection == [stage : {"working", "pages"}, acked : Nat, todo : Seq(GcEntry)]
LostCommand ==
  [kind : {"flush"}, candidate : Candidate, path : Paths, shared : BOOLEAN]
    \cup [kind : {"compact"}, job : Compaction]
    \cup [kind : {"offload"}, stream : Streams, refs : SUBSET Ref]
    \cup [kind : {"ack"}, upTo : Nat] \cup [kind : {"defer"}, seq : Nat]

\* Every variable has its type, and a stream's offsets are ordered:
\* retention never passes the checkpoint, nor the checkpoint the tail.
TypeOK ==
  /\ slot \in [Streams -> Slot]
  /\ \A s \in Streams :
       /\ slot[s].retained <= slot[s].snapshot /\ slot[s].snapshot <= slot[s].tail
       /\ slot[s].hot \subseteq 0 .. slot[s].tail - 1
  /\ refs \in [Paths -> Nat]
  /\ gc \in [pending : Seq(GcEntry), next : Nat \ {0}]
  /\ \A e \in Entries(gc) : e.seq < gc.next
  /\ lastGen \in 0 .. MaxGen /\ lastPath \in 0 .. MaxPath
  /\ store \in [Paths -> Object]
  /\ pages \in [0 .. MaxGen -> SUBSET PageEntry]
  /\ flusher \in {Idle} \cup Flush /\ (flusher # Idle => flusher.todo # <<>>)
  /\ compactor \in {Idle} \cup Compaction /\ (compactor # Idle => compactor.run # {})
  /\ offloader \in {Idle} \cup Offload
  /\ collector \in {Idle} \cup Collection
  /\ limbo \in {NoCommand} \cup LostCommand
  /\ orphans \subseteq Paths

\* The objects a read of the stream's offset takes bytes from
\* (read_plan_at and objects_for_read): a state ref, else a page entry, an
\* external one only if no chunk entry overlaps it.
DirectRefs(s, o) == {r \in slot[s].chunks \cup slot[s].external : o \in Span(r)}
PageRefs(s, o) ==
  {e \in pages[slot[s].gen] :
     o \in Span(e) /\ (e.external => \A f \in pages[slot[s].gen] :
                                       ~f.external => ~Overlap(e, f))}
ReadRefs(s, o) == IF DirectRefs(s, o) # {} THEN DirectRefs(s, o) ELSE PageRefs(s, o)

\* Every retained byte of a live stream is in the hot buffer or is read
\* from an object that exists and holds that byte of that incarnation,
\* whatever step each worker is at and whatever became of lost proposals
\* (bounded-stream-state F18: "every byte of [retained, tail) that no hot
\* block holds is cold, served by state refs where they exist and by
\* cold-index pages otherwise").
RetainedReadable ==
  \A s \in Live : \A o \in slot[s].retained .. slot[s].tail - 1 :
    \/ o \in slot[s].hot
    \/ /\ ReadRefs(s, o) # {}
       /\ \A r \in ReadRefs(s, o) : <<slot[s].gen, o>> \in store[r.path].bytes

\* What a live stream still names: state refs, and page entries not wholly
\* below retention.
Named(s) == PathsOf(slot[s].chunks \cup slot[s].external
                    \cup {e \in pages[slot[s].gen] : e.end > slot[s].retained})

\* The GC queue holds only what nothing names: no queued path is named by a
\* live stream, and no queued incarnation is live, so the worker may delete
\* an entry's objects at any later time (cold_gc.rs: "When a stream's cold
\* objects become unreferenced ... their reclamation is deferred").
QueuedUnreferenced ==
  \A e \in Entries(gc) :
    /\ \A s \in Live : e.paths \cap Named(s) = {}
    /\ e.gen # 0 => ~LiveGen(e.gen)

\* The reference count of a pack is the number of live slices of it, so the
\* count a replica keeps equals the one a restore derives from the streams'
\* refs (state_machine.rs: "derived from per-stream cold refs when snapshots
\* are restored").
RefsCounted ==
  \A p \in Paths :
    refs[p] = Cardinality({s \in Live : p \in PathsOf(slot[s].chunks)})

\* Every page entry at or above a live stream's retention names an object
\* that holds those bytes of that very incarnation (F14g: pages live under
\* the incarnation's generation).
IncarnationPages ==
  \A s \in Live : \A e \in pages[slot[s].gen] :
    \A o \in Span(e) : o >= slot[s].retained => <<slot[s].gen, o>> \in store[e.path].bytes

\* A worker's upload, and the objects a compaction is about to replace.
WorkersHold(p) ==
  \/ flusher # Idle /\ flusher.path = p
  \/ compactor # Idle /\ p \in {compactor.path} \cup PathsOf(compactor.run)

\* Every object in the store is held by a worker, named by a live stream or
\* covered by a queued entry, unless the proposal that named it was never
\* answered, its owner failed, or the deletion of the refused upload did:
\* flushes, compactions, offloads, retention, deletes and GC passes that fail
\* and start over put nothing else out of the queue's reach, and leave only
\* those to the orphan sweep (runtime.rs: "a failed delete leaves an orphan
\* for the sweep (F14h)").
NoLeak ==
  \A p \in Paths : Stored(p) =>
    \/ WorkersHold(p) \/ p \in orphans
    \/ \E s \in Live : p \in PathsOf(slot[s].chunks \cup slot[s].external \cup pages[slot[s].gen])
    \/ \E e \in Entries(gc) : p \in e.paths \/ (e.gen # 0 /\ p \in IncarnationObjects(e.gen))

SameTarget(e, f) == e.gen = f.gen /\ e.paths = f.paths

\* An entry leaves the queue only once the objects it names are gone, or the
\* pages of the incarnation it names, across failures, deferrals, lost acks
\* and passes that start over (run_cold_gc_group_once: "the ack pops a prefix, so it
\* never skips past an object that is still present in cold storage").
AckedReclaimed ==
  [][\A e \in Entries(gc) :
       (\A f \in Entries(gc') : ~SameTarget(e, f)) =>
         /\ \A p \in e.paths : store'[p] = NoObject
         /\ e.gen # 0 => pages'[e.gen] = {}]_vars

=============================================================================

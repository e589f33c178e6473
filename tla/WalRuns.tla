------------------------------ MODULE WalRuns ------------------------------
(***************************************************************************)
(* The runs of one WAL root on a volume that may move while a process of   *)
(* it still runs: the node fence, the disk lease, the run's start and end, *)
(* and the predecessor wait (ursula-runtime, node_fence.rs; ursula-raft,   *)
(* log_store/run_state.rs, identity.rs, lease.rs and predecessor_wait.rs). *)
(*                                                                         *)
(* Runs are numbered in the order they open the root.  disk is what the    *)
(* volume holds: the identity file and the run state.  mount is the        *)
(* volume's current attachment, whose number stands for the device; a move *)
(* revokes the old attachment at once, and the processes on it run on.     *)
(* Time is counted in ticks of one clock: a lease's length is how long it  *)
(* lasts on that clock, the rate of the process's own included.            *)
(*                                                                         *)
(* out is the time of the fence check of an output under way: an answer, a *)
(* PUT or a DELETE, which leaves within Margin of its check.  A run that   *)
(* granted a vote, opened a gate or wrote a snapshot object, what the wait *)
(* holds, is in promised.                                                  *)
(***************************************************************************)
EXTENDS DiskLease

CONSTANTS MaxRun,     \* bound on the runs that open the root
          MaxTime,    \* bound on the clock
          MaxMove,    \* bound on the moves of the volume
          Boots,      \* hosts, by boot id
          Lengths,    \* lengths a lease may have
          Margin,     \* CHECK_MARGIN
          Wait,       \* PREDECESSOR_WAIT
          MoveTime,   \* least time between a detach and the next attach
          Duties      \* what each run does besides taking part

ASSUME RunConstants ==
  /\ {MaxRun, MaxTime, MaxMove, Margin, Wait, MoveTime} \subseteq Nat
  /\ Lengths \subseteq Nat \ {0}
  /\ \A length \in Lengths : length + Margin <= Wait
  /\ Margin < MoveTime
  /\ Duties \in [1 .. MaxRun -> SUBSET {"probe", "close", "poison", "supersede"}]

VARIABLES now, mount, disk, proc, promised
vars == <<now, mount, disk, proc, promised>>

Run == 1 .. MaxRun

NewIdentity == [run |-> 0, wait |-> TRUE, standing |-> "Unbound"]
NoRunState == [status |-> "None", boot |-> None, device |-> 0]

\* A process that did not start yet, or no longer runs.
NoProcess(phase) ==
  [phase |-> phase, att |-> 0, boot |-> None, revoked |-> None,
   lease |-> NewLease(1), opened |-> None, probe |-> None, synced |-> FALSE,
   closed |-> FALSE, superseded |-> FALSE, owes |-> FALSE, awaits |-> FALSE,
   over |-> None, id |-> NewIdentity, predecessor |-> "MayLive", out |-> None]

\* A new root, or one whose last run ended cleanly.
Init ==
  /\ now = 0
  /\ \E b \in Boots : mount = [att |-> 1, boot |-> b, up |-> TRUE, since |-> 0]
  /\ disk \in {[identity |-> NewIdentity, run |-> NoRunState],
               [identity |-> [run |-> 1, wait |-> FALSE, standing |-> "Bound"],
                run |-> [status |-> "Clean", boot |-> mount.boot, device |-> 0]]}
  /\ proc = [r \in Run |-> NoProcess("unborn")]
  /\ promised = {}

-----------------------------------------------------------------------------
(* The fence. *)

Alive(r) == proc[r].phase \notin {"unborn", "gone"}
Attached(r) == proc[r].att = mount.att /\ mount.up
Revoked(r) == proc[r].revoked # None

\* NodeFence::status is Admits, of a process that runs.
Admits(r) ==
  /\ proc[r].phase = "running"
  /\ ~proc[r].superseded /\ ~proc[r].closed
  /\ Holds(proc[r].lease, now)

HoldsData(r) == proc[r].owes \/ proc[r].awaits

-----------------------------------------------------------------------------
(* The environment. *)

\* Time passes: an output leaves within the margin of its check, and a
\* poisoned process has aborted.
Tick ==
  /\ now < MaxTime
  /\ \A r \in Run : proc[r].out # None => now < proc[r].out + Margin
  /\ \A r \in Run : proc[r].phase # "aborting"
  /\ now' = now + 1
  /\ UNCHANGED <<mount, disk, proc, promised>>

\* The volume leaves its host; the storage revokes the attachment.
Detach ==
  /\ mount.up /\ mount.att <= MaxMove
  /\ mount' = [mount EXCEPT !.att = @ + 1, !.up = FALSE, !.since = now]
  /\ proc' = [r \in Run |-> IF Alive(r) /\ proc[r].att = mount.att
                            THEN [proc[r] EXCEPT !.revoked = now] ELSE proc[r]]
  /\ UNCHANGED <<now, disk, promised>>

Attach(b) ==
  /\ ~mount.up /\ now >= mount.since + MoveTime
  /\ mount' = [mount EXCEPT !.up = TRUE, !.boot = b]
  /\ UNCHANGED <<now, disk, proc, promised>>

\* The process crashes, is killed or exits.
Die(r) ==
  /\ Alive(r)
  /\ proc' = [proc EXCEPT ![r] = NoProcess("gone")]
  /\ UNCHANGED <<now, mount, disk, promised>>

-----------------------------------------------------------------------------
(* A run's start: NodeWal::start. *)

\* PreviousRun::interpret.
PreviousRun ==
  CASE disk.run.status = "None" -> "Absent"
    [] disk.run.status = "Clean" -> "Clean"
    [] disk.run.status = "Poisoned" -> "Poisoned"
    [] disk.run.status = "Running" ->
         IF disk.run.boot # mount.boot THEN "HostCrash"
         ELSE IF disk.run.device # mount.att THEN "Remounted" ELSE "ProcessCrash"

\* Mutant of Predecessor: the wait an earlier run owed is not read.
PredecessorForgetsWait ==
  IF \/ disk.identity.standing = "Unbound"
     \/ PreviousRun \in {"Remounted", "HostCrash", "Absent"}
  THEN "MayLive" ELSE "Gone"

\* Predecessor::of.
Predecessor ==
  IF \/ disk.identity.standing = "Unbound" \/ disk.identity.wait
     \/ PreviousRun \in {"Remounted", "HostCrash", "Absent"}
  THEN "MayLive" ELSE "Gone"

\* The start takes the root's lock, which a process of this attachment holds
\* until it exits, reads the files and decides.
Open(r, length) ==
  /\ proc[r].phase = "unborn" /\ \A q \in 1 .. r - 1 : proc[q].phase # "unborn"
  /\ mount.up
  /\ \A q \in Run : Alive(q) => proc[q].att # mount.att
  /\ proc' = [proc EXCEPT ![r] =
       [NoProcess("opening") EXCEPT
          !.att = mount.att, !.boot = mount.boot, !.lease = NewLease(length),
          !.opened = now, !.id = disk.identity, !.predecessor = Predecessor]]
  /\ UNCHANGED <<now, mount, disk, promised>>

\* A step of the start whose write fails ends the process.
StartFails(r) ==
  /\ proc[r].phase \in {"opening", "counted"} /\ ~Attached(r)
  /\ proc' = [proc EXCEPT ![r] = NoProcess("gone")]
  /\ UNCHANGED <<now, mount, disk, promised>>

\* Mutant of Counted: a run after the first keeps its number.
CountedOnce(r) ==
  [proc[r].id EXCEPT !.run = IF @ = 0 THEN 1 ELSE @, !.wait = (proc[r].predecessor = "MayLive")]

Counted(r) ==
  [proc[r].id EXCEPT !.run = @ + 1, !.wait = (proc[r].predecessor = "MayLive")]

\* identity::advance: the run is counted, durably, with the wait it owes.
\* The write is the lease's first success.  A bound root owes the wait from
\* its open, an unbound one awaits its binding.
Advance(r) ==
  /\ proc[r].phase = "opening" /\ Attached(r)
  /\ disk' = [disk EXCEPT !.identity = Counted(r)]
  /\ LET owed == proc[r].predecessor = "MayLive"
         bound == proc[r].id.standing = "Bound"
     IN  proc' = [proc EXCEPT ![r] =
           [proc[r] EXCEPT !.phase = "counted", !.id = Counted(r),
                     !.lease = Succeeded(proc[r].lease, proc[r].opened, now),
                     !.owes = owed /\ bound, !.awaits = owed /\ ~bound,
                     !.over = IF owed /\ bound THEN proc[r].opened + Wait ELSE None]]
  /\ UNCHANGED <<now, mount, promised>>

RunState(r, status) == [status |-> status, boot |-> proc[r].boot, device |-> proc[r].att]

\* The run records itself running, and its probe starts.
RecordRunning(r) ==
  /\ proc[r].phase = "counted" /\ Attached(r)
  /\ disk' = [disk EXCEPT !.run = RunState(r, "Running")]
  /\ proc' = [proc EXCEPT ![r].phase = "running"]
  /\ UNCHANGED <<now, mount, promised>>

-----------------------------------------------------------------------------
(* The probe, which writes through the file the start opened. *)

StartProbe(r) ==
  /\ "probe" \in Duties[r]
  /\ proc[r].phase = "running" /\ ~proc[r].closed /\ proc[r].probe = None
  /\ proc' = [proc EXCEPT ![r].probe = now, ![r].synced = FALSE]
  /\ UNCHANGED <<now, mount, disk, promised>>

\* The write reaches the disk; the probe may learn of it much later.
SyncProbe(r) ==
  /\ proc[r].probe # None /\ ~proc[r].synced /\ Attached(r)
  /\ proc' = [proc EXCEPT ![r].synced = TRUE]
  /\ UNCHANGED <<now, mount, disk, promised>>

ProbeSucceeds(r) ==
  /\ proc[r].probe # None /\ proc[r].synced
  /\ proc' = [proc EXCEPT ![r].lease = Succeeded(@, proc[r].probe, now), ![r].probe = None,
                          ![r].synced = FALSE]
  /\ UNCHANGED <<now, mount, disk, promised>>

ProbeFails(r) ==
  /\ proc[r].probe # None
  /\ proc' = [proc EXCEPT ![r].lease = Failed(@, now), ![r].probe = None, ![r].synced = FALSE]
  /\ UNCHANGED <<now, mount, disk, promised>>

-----------------------------------------------------------------------------
(* Taking part. *)

\* An answer, a PUT or a DELETE passes the fence's check.
Check(r) ==
  /\ Admits(r) /\ proc[r].out = None
  /\ proc' = [proc EXCEPT ![r].out = now]
  /\ UNCHANGED <<now, mount, disk, promised>>

\* It leaves the process.
Leave(r) ==
  /\ proc[r].out # None
  /\ proc' = [proc EXCEPT ![r].out = None]
  /\ UNCHANGED <<now, mount, disk, promised>>

\* Mutant of MayPromise: the fence alone decides.
MayPromiseWhileHeld(r) == Admits(r)

\* fence_holds and fence_holds_barrier let a data replica take part.  The
\* meta replica's votes, which an awaited binding does not hold back so that
\* a forming cluster can elect, are left out.
MayPromise(r) == Admits(r) /\ ~HoldsData(r)

\* The run grants a vote, opens a gate or writes a snapshot object.
Promise(r) ==
  /\ MayPromise(r)
  /\ promised' = promised \cup {r}
  /\ UNCHANGED <<now, mount, disk, proc>>

-----------------------------------------------------------------------------
(* The binding and the wait. *)

\* admits_writes, of a write by path that reaches the volume.
MayWrite(r) == Admits(r) /\ Attached(r)

\* record_bound: the meta group answered the registration of an unbound root.
RecordBound(r) ==
  /\ MayWrite(r) /\ proc[r].id.standing = "Unbound"
  /\ LET file == [proc[r].id EXCEPT !.standing = "Bound"] IN
     /\ disk' = [disk EXCEPT !.identity = file]
     /\ proc' = [proc EXCEPT ![r].id = file]
  /\ UNCHANGED <<now, mount, promised>>

\* hold_out: the meta group refused the unbound root.
HoldOut(r) ==
  /\ proc[r].phase = "running" /\ proc[r].awaits /\ proc[r].id.standing = "Unbound"
  /\ ~proc[r].owes
  /\ proc' = [proc EXCEPT ![r].owes = TRUE]
  /\ UNCHANGED <<now, mount, disk, promised>>

\* run_predecessor_wait at the published answer of a bootstrapped cluster:
\* the wait runs from now.
Bind(r) ==
  /\ proc[r].phase = "running" /\ proc[r].awaits /\ proc[r].id.standing = "Bound"
  /\ proc' = [proc EXCEPT ![r].awaits = FALSE, ![r].owes = TRUE, ![r].over = now + Wait]
  /\ UNCHANGED <<now, mount, disk, promised>>

\* Mutant of WaitedOut: the end of the wait is set and not awaited.
WaitedOutAtOnce(r) == proc[r].over # None

WaitedOut(r) == proc[r].over # None /\ now >= proc[r].over

\* finish_wait.
FinishWait(r) ==
  /\ WaitedOut(r) /\ MayWrite(r) /\ proc[r].id.wait
  /\ LET file == [proc[r].id EXCEPT !.wait = FALSE] IN
     /\ disk' = [disk EXCEPT !.identity = file]
     /\ proc' = [proc EXCEPT ![r].id = file, ![r].owes = FALSE]
  /\ UNCHANGED <<now, mount, promised>>

-----------------------------------------------------------------------------
(* A run's end. *)

\* A peer or the meta group shows that another process may answer as this
\* node.
Supersede(r) ==
  /\ "supersede" \in Duties[r]
  /\ proc[r].phase = "running" /\ ~proc[r].superseded
  /\ \E s \in Run : s > r /\ proc[s].phase \in {"counted", "running", "ended"}
  /\ proc' = [proc EXCEPT ![r].superseded = TRUE, ![r].closed = TRUE]
  /\ UNCHANGED <<now, mount, disk, promised>>

\* record_clean closes the fence for good ...
Close(r) ==
  /\ "close" \in Duties[r]
  /\ proc[r].phase = "running" /\ ~proc[r].closed
  /\ proc' = [proc EXCEPT ![r].closed = TRUE]
  /\ UNCHANGED <<now, mount, disk, promised>>

\* ... and then records the end; the process keeps the lock until it exits.
RecordClean(r) ==
  /\ proc[r].phase = "running" /\ proc[r].closed /\ ~proc[r].superseded /\ Attached(r)
  /\ disk' = [disk EXCEPT !.run = RunState(r, "Clean")]
  /\ proc' = [proc EXCEPT ![r].phase = "ended"]
  /\ UNCHANGED <<now, mount, promised>>

\* on_journal_poisoned: a failed journal write is recorded, if it can be,
\* whatever the fence says, and the process aborts: one on the attachment
\* holds the lock until it is gone.
Poison(r) ==
  /\ "poison" \in Duties[r]
  /\ proc[r].phase = "running"
  /\ IF Attached(r)
     THEN /\ disk' = [disk EXCEPT !.run = RunState(r, "Poisoned")]
          /\ proc' = [proc EXCEPT ![r].phase = "aborting"]
     ELSE /\ proc' = [proc EXCEPT ![r] = NoProcess("gone")]
          /\ UNCHANGED disk
  /\ UNCHANGED <<now, mount, promised>>

-----------------------------------------------------------------------------

Next ==
  \/ Tick \/ Detach \/ \E b \in Boots : Attach(b)
  \/ \E r \in Run :
       \/ Die(r) \/ \E length \in Lengths : Open(r, length)
       \/ StartFails(r) \/ Advance(r) \/ RecordRunning(r)
       \/ StartProbe(r) \/ SyncProbe(r) \/ ProbeSucceeds(r) \/ ProbeFails(r)
       \/ Check(r) \/ Leave(r) \/ Promise(r)
       \/ RecordBound(r) \/ HoldOut(r) \/ Bind(r) \/ FinishWait(r)
       \/ Supersede(r) \/ Close(r) \/ RecordClean(r) \/ Poison(r)

Spec == Init /\ [][Next]_vars

-----------------------------------------------------------------------------
(* Properties. *)

Time == Nat \cup {None}
IdentityFile == [run : Nat, wait : BOOLEAN, standing : {"Unbound", "Bound"}]
Lease == [length : Lengths \cup {1}, until : Time, failed : Time]
Phase == {"unborn", "opening", "counted", "running", "ended", "aborting", "gone"}
Process ==
  [phase : Phase, att : Nat, boot : Boots \cup {None}, revoked : Time,
   lease : Lease, opened : Time, probe : Time, synced : BOOLEAN,
   closed : BOOLEAN, superseded : BOOLEAN, owes : BOOLEAN, awaits : BOOLEAN,
   over : Time, id : IdentityFile, predecessor : {"MayLive", "Gone"}, out : Time]

\* Every variable has its type.
TypeOK ==
  /\ now \in Nat
  /\ mount \in [att : Nat, boot : Boots, up : BOOLEAN, since : Nat]
  /\ disk \in [identity : IdentityFile,
               run : [status : {"None", "Running", "Clean", "Poisoned"},
                      boot : Boots \cup {None}, device : Nat]]
  /\ proc \in [Run -> Process]
  /\ promised \subseteq Run

\* Once a run took part, no process of an earlier run of the root passes the
\* fence or has an output under way: whatever it was told when it opened,
\* however often the runs between crashed, restarted or ended
\* (predecessor_wait.rs: "a predecessor's last write happened before a
\* successor that waited it out takes part").
NoLateAnswer ==
  \A s \in promised : \A r \in Run : r < s => ~Admits(r) /\ proc[r].out = None

\* A process admits nothing once its volume has been away for the length of
\* its lease, whatever its probes reported and when (node_fence.rs: "a late
\* success never extends the lease, and a hung probe does not hold it").
LeaseEnds ==
  \A r \in Run :
    Admits(r) /\ proc[r].revoked # None => now < proc[r].revoked + proc[r].lease.length

\* The process has counted itself in the identity file.
Named(r) == Alive(r) /\ proc[r].phase # "opening"

\* A later run has a higher number, so peers tell the newer of two
\* processes of a root, across starts that crash between their two writes
\* (identity.rs: "no process names this run before it is durable").
NewerRunCountsHigher ==
  \A r, s \in Run : r < s /\ Named(r) /\ Named(s) => proc[r].id.run < proc[s].id.run

\* While a process whose volume moved away may still speak, the volume says
\* so to whoever opens it next, across crashes, restarts and clean ends of
\* the runs between (run_state.rs: "a restart never shortens one").
WaitRecorded ==
  mount.up => \A r \in Run : (Admits(r) \/ proc[r].out # None) /\ proc[r].revoked # None
                             /\ proc[r].phase = "running"
                             => Predecessor = "MayLive"

-----------------------------------------------------------------------------
(* The inductive invariant.                                                *)

\* When the attachment of a process was last known to be good.
LastHeld(r) == IF Revoked(r) THEN proc[r].revoked ELSE now

\* A process whose attachment was revoked keeps what it had then.
LeaseKept(r) ==
  LET p == proc[r]
  IN  /\ p.lease.length \in Lengths
      /\ p.lease.until <= LastHeld(r) + p.lease.length
      /\ p.probe <= now /\ (p.synced => p.probe <= LastHeld(r))
      /\ p.out # None => p.out <= now /\ now <= p.out + Margin
      /\ p.out < LastHeld(r) + p.lease.length
      /\ p.phase = "ended" => p.out <= LastHeld(r)
      /\ p.phase = "aborting" => LastHeld(r) = now
      /\ p.phase \in {"opening", "counted"} => p.out = None

\* One that does not run has nothing.
LeaseInv ==
  \A r \in Run : IF Alive(r) THEN LeaseKept(r) ELSE proc[r] = NoProcess(proc[r].phase)

\* At most one process is on the current attachment, the latest.
MountInv ==
  /\ mount.since <= now
  /\ \A r \in Run : Alive(r) =>
       /\ proc[r].att <= mount.att /\ 0 <= proc[r].opened /\ proc[r].opened <= now
       /\ Revoked(r) <=> proc[r].att < mount.att
       /\ Revoked(r) => /\ proc[r].revoked <= mount.since
                        /\ mount.up => mount.since + MoveTime <= now
       /\ ~Revoked(r) => mount.up
  /\ \A r, s \in Run : r < s =>
       /\ proc[r].phase = "unborn" => proc[s].phase = "unborn" /\ s \notin promised
       /\ Alive(r) /\ Alive(s) => /\ proc[r].att < proc[s].att
                                  /\ proc[r].revoked + MoveTime <= proc[s].opened
  /\ \A r \in promised : proc[r].phase # "unborn"

\* The files are those of the process on the attachment.
DiskInv ==
  \A r \in Run : Alive(r) =>
    /\ ~Revoked(r) => proc[r].id = disk.identity
    /\ ~Revoked(r) /\ proc[r].phase = "running" => disk.run = RunState(r, "Running")
    /\ Named(r) => proc[r].id.run <= disk.identity.run

\* A process whose volume moved away and whose lease may still hold.
Lingers(r) ==
  proc[r].phase = "running" /\ Revoked(r) /\ now < proc[r].revoked + Wait

\* The volume and every later process know of it.
OwedInv ==
  \A r \in Run : Lingers(r) =>
    /\ \/ disk.identity.standing = "Unbound" \/ disk.identity.wait
       \/ disk.run = RunState(r, "Running")
    /\ \A s \in Run : s > r =>
         /\ proc[s].phase = "opening" => proc[s].predecessor = "MayLive"
         /\ proc[s].phase \in {"counted", "running"} =>
              /\ proc[s].id.wait /\ HoldsData(s)
              /\ proc[s].over # None => proc[s].over >= proc[r].revoked + Wait

\* Every process before one that took part is silent for good.
SilentInv ==
  \A s \in promised : \A r \in Run : r < s /\ Alive(r) =>
    /\ Revoked(r) /\ proc[r].out = None
    /\ proc[r].phase = "running" => now >= proc[r].revoked + proc[r].lease.length

\* The inductive invariant: leases end in time, the attachment and the
\* files belong to the latest process, the wait a lingering process causes
\* is on the volume and in every later process, and what came before a run
\* that took part is silent.
IInv ==
  TypeOK /\ LeaseInv /\ MountInv /\ DiskInv /\ OwedInv /\ SilentInv /\ NewerRunCountsHigher
=============================================================================

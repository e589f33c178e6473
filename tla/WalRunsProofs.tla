--------------------------- MODULE WalRunsProofs ---------------------------
(* Proofs about WalRuns, for any number of runs, moves, hosts and leases.  *)
EXTENDS WalRuns, TLAPS

-----------------------------------------------------------------------------
(* Types.                                                                  *)

LEMMA Constants ==
  /\ {Margin, Wait, MoveTime, MaxRun} \subseteq Int /\ 0 <= Margin /\ Margin < MoveTime
  /\ \A length \in Lengths : length \in Int /\ 0 < length /\ length + Margin <= Wait
  BY RunConstants

\* The fields of a process that a proof computes with.
Typed(p) ==
  /\ {p.att, p.revoked, p.lease.until, p.lease.length, p.opened, p.probe, p.over,
      p.out, p.id.run} \subseteq Int
  /\ p.att >= 0 /\ p.revoked >= -1 /\ p.id \in IdentityFile /\ p.lease \in Lease

LEMMA ProcessTyped == ASSUME NEW p \in Process PROVE Typed(p)
<1>1. p.lease \in Lease /\ p.id \in IdentityFile /\ p.att \in Nat
      /\ {p.revoked, p.opened, p.probe, p.over, p.out} \subseteq Time
  BY DEF Process
<1>2. p.lease.until \in Time /\ p.lease.length \in Lengths \cup {1}
  BY <1>1 DEF Lease
<1>3. p.lease.length \in Int
  BY <1>2, Constants
<1>4. p.id.run \in Nat
  BY <1>1 DEF IdentityFile
<1> QED BY <1>1, <1>2, <1>3, <1>4 DEF Typed, Time, None

LEMMA Types ==
  ASSUME TypeOK
  PROVE  /\ {now, mount.att, mount.since, disk.identity.run} \subseteq Int /\ now >= 0
         /\ \A r \in Run : proc[r] \in Process /\ Typed(proc[r])
         /\ Run \subseteq Int
         /\ promised \subseteq Run
  BY ProcessTyped, RunConstants DEF TypeOK, Run, IdentityFile

\* A process that is replaced by a typed one keeps the others.
LEMMA Replaced ==
  ASSUME TypeOK, NEW r \in Run, NEW p \in Process, proc' = [proc EXCEPT ![r] = p]
  PROVE  /\ proc' \in [Run -> Process] /\ proc'[r] = p /\ Typed(p)
         /\ \A q \in Run \ {r} : proc'[q] = proc[q]
  BY ProcessTyped DEF TypeOK

LEMMA NoProcessTyped == ASSUME NEW phase \in Phase PROVE NoProcess(phase) \in Process
  BY DEF NoProcess, Process, NewLease, Lease, Time, NewIdentity, IdentityFile

-----------------------------------------------------------------------------
LEMMA InitInv == Init => IInv
<1> SUFFICES ASSUME Init PROVE IInv
  OBVIOUS
<1>0. \A r \in Run : ~Alive(r) /\ proc[r] = NoProcess("unborn") /\ proc[r].phase = "unborn"
  BY DEF Init, Alive, NoProcess
<1>1. TypeOK
  <2>1. proc \in [Run -> Process]
    BY NoProcessTyped DEF Init, Phase
  <2>2. mount \in [att : Nat, boot : Boots, up : BOOLEAN, since : Nat]
    BY DEF Init
  <2>3. disk \in [identity : IdentityFile,
                  run : [status : {"None", "Running", "Clean", "Poisoned"},
                         boot : Boots \cup {None}, device : Nat]]
    <3>1. NewIdentity \in IdentityFile
          /\ [run |-> 1, wait |-> FALSE, standing |-> "Bound"] \in IdentityFile
      BY DEF NewIdentity, IdentityFile
    <3>2. mount.boot \in Boots
      BY <2>2
    <3> DEFINE RunStates == [status : {"None", "Running", "Clean", "Poisoned"},
                             boot : Boots \cup {None}, device : Nat]
    <3>3. NoRunState \in RunStates
          /\ [status |-> "Clean", boot |-> mount.boot, device |-> 0] \in RunStates
      BY <3>2 DEF NoRunState
    <3>4. \/ disk = [identity |-> NewIdentity, run |-> NoRunState]
          \/ disk = [identity |-> [run |-> 1, wait |-> FALSE, standing |-> "Bound"],
                     run |-> [status |-> "Clean", boot |-> mount.boot, device |-> 0]]
      BY DEF Init
    <3> HIDE DEF RunStates
    <3>5. \A i \in IdentityFile, x \in RunStates :
            [identity |-> i, run |-> x] \in [identity : IdentityFile, run : RunStates]
      OBVIOUS
    <3>6. disk \in [identity : IdentityFile, run : RunStates]
      BY <3>1, <3>3, <3>4, <3>5, Zenon
    <3> QED BY <3>6 DEF RunStates
  <2> QED BY <2>1, <2>2, <2>3 DEF Init, TypeOK
<1>2. LeaseInv
  BY <1>0 DEF LeaseInv
<1>3. MountInv
  BY <1>0 DEF MountInv, Init
<1>4. DiskInv /\ OwedInv /\ NewerRunCountsHigher
  BY <1>0 DEF DiskInv, OwedInv, NewerRunCountsHigher, Named, Lingers
<1>5. SilentInv
  BY DEF SilentInv, Init
<1> QED BY <1>1, <1>2, <1>3, <1>4, <1>5 DEF IInv

LEMMA TickInv == IInv /\ Tick => IInv'
<1> SUFFICES ASSUME IInv, Tick PROVE IInv'
  OBVIOUS
<1> USE DEF IInv, Tick, Alive, Revoked
<1>t. TypeOK' BY DEF TypeOK
<1> USE Types, Constants DEF Typed
<1>2. LeaseInv' BY DEF LeaseInv, LeaseKept, LastHeld, None
<1>3. MountInv' BY DEF MountInv, None
<1>4. DiskInv' /\ NewerRunCountsHigher' BY DEF DiskInv, NewerRunCountsHigher, Named, RunState
<1>5. OwedInv' BY DEF OwedInv, Lingers, None, HoldsData, RunState
<1>6. SilentInv' BY DEF SilentInv, None
<1> QED BY <1>t, <1>2, <1>3, <1>4, <1>5, <1>6 DEF IInv
\* A step that changes only process r, which stays where it is in its run.
LEMMA QuietStep ==
  ASSUME IInv, NEW r \in Run, NEW p \in Process,
         proc' = [proc EXCEPT ![r] = p], UNCHANGED <<now, mount, disk, promised>>,
         Alive(r), p.phase = proc[r].phase, p.att = proc[r].att, p.boot = proc[r].boot,
         p.revoked = proc[r].revoked, p.opened = proc[r].opened, p.id = proc[r].id,
         p.predecessor = proc[r].predecessor, p.lease.length = proc[r].lease.length,
         p.lease.until <= LastHeld(r) + p.lease.length,
         p.probe <= now, p.synced => p.probe <= LastHeld(r),
         p.out \in {None, proc[r].out} \/ (Admits(r) /\ p.out = now),
         proc[r].owes \/ proc[r].awaits => p.owes \/ p.awaits,
         p.over = proc[r].over \/ p.over = now + Wait
  PROVE  IInv'
<1>a. /\ proc' \in [Run -> Process] /\ proc'[r] = p /\ Typed(p)
      /\ \A q \in Run \ {r} : proc'[q] = proc[q]
  BY Replaced DEF IInv
<1>t. TypeOK' BY <1>a DEF IInv, TypeOK
<1> USE Types, Constants DEF IInv, Typed, Alive, Revoked, None
<1>b. \A q \in Run : /\ LastHeld(q)' = LastHeld(q) /\ (Alive(q)' <=> Alive(q))
                      /\ (Revoked(q)' <=> Revoked(q))
                      /\ LastHeld(q) \in Int /\ LastHeld(q) >= 0
  BY <1>a DEF LastHeld
<1>c. LeaseKept(r)
  BY DEF LeaseInv
<1>d. ASSUME Admits(r)
      PROVE  now < LastHeld(r) + proc[r].lease.length /\ proc[r].phase = "running"
  BY <1>b, <1>c, <1>d DEF Admits, Holds, LeaseKept
<1>2. LeaseInv'
  <2> SUFFICES ASSUME NEW q \in Run
               PROVE  IF Alive(q)' THEN LeaseKept(q)'
                      ELSE proc'[q] = NoProcess(proc'[q].phase)
    BY DEF LeaseInv
  <2>1. CASE q # r
    BY <2>1, <1>a, <1>b DEF LeaseInv, LeaseKept
  <2>2. CASE q = r
    BY <2>2, <1>a, <1>b, <1>c, <1>d DEF LeaseKept
  <2> QED BY <2>1, <2>2
<1>3. MountInv' BY <1>a, <1>b DEF MountInv
<1>4. DiskInv' /\ NewerRunCountsHigher'
  BY <1>a, <1>b DEF DiskInv, NewerRunCountsHigher, Named, RunState
<1>5. OwedInv'
  <2>1. \A q \in Run : (Lingers(q)' <=> Lingers(q)) /\ (Lingers(q) => proc[q].revoked <= now)
    BY <1>a, <1>b DEF Lingers, MountInv
  <2>2. \A q \in Run : RunState(q, "Running")' = RunState(q, "Running")
    BY <1>a DEF RunState
  <2> QED BY <1>a, <2>1, <2>2 DEF OwedInv, HoldsData
<1>6. SilentInv'
  BY <1>a, <1>b, <1>d DEF SilentInv, LastHeld
<1> QED BY <1>t, <1>2, <1>3, <1>4, <1>5, <1>6 DEF IInv

\* A process is gone.
LEMMA GoneStep ==
  ASSUME IInv, NEW r \in Run, Alive(r),
         proc' = [proc EXCEPT ![r] = NoProcess("gone")],
         UNCHANGED <<now, mount, disk, promised>>
  PROVE  IInv'
<1>0. NoProcess("gone") \in Process /\ NoProcess("gone").phase = "gone"
  BY NoProcessTyped DEF Phase, NoProcess
<1>a. /\ proc' \in [Run -> Process] /\ proc'[r] = NoProcess("gone")
      /\ \A q \in Run \ {r} : proc'[q] = proc[q]
  BY <1>0, Replaced DEF IInv
<1>t. TypeOK' BY <1>a DEF IInv, TypeOK
<1> USE Types, Constants DEF IInv, Typed, Alive, Revoked, None
<1>b. ~Alive(r)' /\ \A q \in Run \ {r} :
                      /\ LastHeld(q)' = LastHeld(q) /\ (Alive(q)' <=> Alive(q))
                      /\ (Revoked(q)' <=> Revoked(q))
  BY <1>0, <1>a DEF LastHeld
<1>2. LeaseInv' BY <1>0, <1>a, <1>b DEF LeaseInv, LeaseKept
<1>3. MountInv' BY <1>0, <1>a, <1>b DEF MountInv
<1>4. DiskInv' /\ NewerRunCountsHigher'
  BY <1>0, <1>a, <1>b DEF DiskInv, NewerRunCountsHigher, Named, RunState
<1>5. OwedInv' BY <1>0, <1>a, <1>b DEF OwedInv, HoldsData, Lingers, RunState
<1>6. SilentInv' BY <1>0, <1>a, <1>b DEF SilentInv
<1> QED BY <1>t, <1>2, <1>3, <1>4, <1>5, <1>6 DEF IInv
-----------------------------------------------------------------------------
(* The environment's steps.                                                *)

LEMMA DetachInv == IInv /\ Detach => IInv'
<1> SUFFICES ASSUME IInv, Detach PROVE IInv'
  OBVIOUS
<1>p. \A q \in Run : /\ proc[q] \in Process
                      /\ [proc[q] EXCEPT !.revoked = now] \in Process
  BY Types DEF IInv, TypeOK, Process, Time
<1>t. TypeOK'
  <2>1. proc' \in [Run -> Process]
    BY <1>p DEF Detach
  <2>2. mount' \in [att : Nat, boot : Boots, up : BOOLEAN, since : Nat]
    <3>1. mount.att + 1 \in Nat /\ mount.boot \in Boots /\ now \in Nat
      BY DEF IInv, TypeOK
    <3>2. mount' = [att |-> mount.att + 1, boot |-> mount.boot, up |-> FALSE, since |-> now]
      BY DEF Detach, IInv, TypeOK
    <3> QED BY <3>1, <3>2
  <2> QED BY <2>1, <2>2 DEF Detach, IInv, TypeOK
<1>m. mount'.att = mount.att + 1 /\ ~mount'.up /\ mount'.since = now
  BY DEF Detach, IInv, TypeOK
<1>a. \A q \in Run :
        /\ proc'[q].phase = proc[q].phase /\ proc'[q].att = proc[q].att
        /\ proc'[q].boot = proc[q].boot /\ proc'[q].lease = proc[q].lease
        /\ proc'[q].opened = proc[q].opened /\ proc'[q].probe = proc[q].probe
        /\ proc'[q].synced = proc[q].synced /\ proc'[q].owes = proc[q].owes
        /\ proc'[q].awaits = proc[q].awaits /\ proc'[q].over = proc[q].over
        /\ proc'[q].id = proc[q].id /\ proc'[q].predecessor = proc[q].predecessor
        /\ proc'[q].out = proc[q].out
        /\ ~Alive(q) => proc'[q] = proc[q]
        /\ proc'[q].revoked = IF Alive(q) /\ proc[q].att = mount.att THEN now
                              ELSE proc[q].revoked
  BY <1>p DEF Detach, Process
<1> USE Types, Constants DEF IInv, Typed, Alive, Revoked, None
<1>u. UNCHANGED <<now, disk, promised>>
  BY DEF Detach
<1>b. \A q \in Run : Alive(q) =>
        /\ LastHeld(q)' = LastHeld(q) /\ Revoked(q)'
        /\ (Revoked(q) => proc[q].revoked <= now /\ proc'[q].revoked = proc[q].revoked)
        /\ (~Revoked(q) => proc'[q].revoked = now /\ proc[q].att = mount.att)
  BY <1>a, <1>u DEF LastHeld, MountInv
<1>2. LeaseInv'
  <2> SUFFICES ASSUME NEW q \in Run
               PROVE  IF Alive(q)' THEN LeaseKept(q)'
                      ELSE proc'[q] = NoProcess(proc'[q].phase)
    BY DEF LeaseInv
  <2>1. CASE Alive(q)
    BY <2>1, <1>a, <1>b, <1>u DEF LeaseInv, LeaseKept
  <2>2. CASE ~Alive(q)
    BY <2>2, <1>a DEF LeaseInv
  <2> QED BY <2>1, <2>2
<1>3. MountInv'
  BY <1>a, <1>b, <1>m, <1>u DEF MountInv
<1>4. DiskInv' /\ NewerRunCountsHigher'
  BY <1>a, <1>b, <1>u DEF DiskInv, NewerRunCountsHigher, Named
<1>5. OwedInv'
  <2>1. \A q \in Run : RunState(q, "Running")' = RunState(q, "Running")
    BY <1>a DEF RunState
  <2> SUFFICES ASSUME NEW q \in Run, Lingers(q)'
               PROVE  /\ \/ disk'.identity.standing = "Unbound" \/ disk'.identity.wait
                         \/ disk'.run = RunState(q, "Running")'
                      /\ \A s \in Run : s > q =>
                           /\ proc'[s].phase = "opening" => proc'[s].predecessor = "MayLive"
                           /\ proc'[s].phase \in {"counted", "running"} =>
                                /\ proc'[s].id.wait /\ HoldsData(s)'
                                /\ proc'[s].over # None => proc'[s].over >= proc'[q].revoked + Wait
    BY DEF OwedInv
  <2>2. CASE Revoked(q)
    <3>1. Lingers(q) /\ proc'[q].revoked = proc[q].revoked
      BY <2>2, <1>a, <1>b, <1>u DEF Lingers
    <3> QED BY <3>1, <2>1, <1>a, <1>u DEF OwedInv, HoldsData
  <2>3. CASE ~Revoked(q)
    <3>1. proc[q].phase = "running" /\ Alive(q) /\ proc[q].att = mount.att
      BY <2>3, <1>a, <1>b DEF Lingers
    <3>2. \A s \in Run : s > q => ~Alive(s)
      BY <3>1 DEF MountInv
    <3> QED BY <2>1, <2>3, <3>1, <3>2, <1>a, <1>u DEF DiskInv
  <2> QED BY <2>2, <2>3
<1>6. SilentInv'
  BY <1>a, <1>b, <1>u DEF SilentInv
<1> QED BY <1>t, <1>2, <1>3, <1>4, <1>5, <1>6 DEF IInv

LEMMA AttachInv == ASSUME NEW b \in Boots PROVE IInv /\ Attach(b) => IInv'
<1> SUFFICES ASSUME IInv, Attach(b) PROVE IInv'
  OBVIOUS
<1>t. TypeOK' /\ mount'.att = mount.att /\ mount'.up /\ mount'.since = mount.since
  BY DEF IInv, TypeOK, Attach
<1> USE Types, Constants DEF IInv, Alive, Revoked, None, Attach
<1>2. LeaseInv' BY DEF LeaseInv, LeaseKept, LastHeld
<1>3. MountInv' BY <1>t DEF MountInv
<1>4. DiskInv' /\ NewerRunCountsHigher'
  BY DEF DiskInv, NewerRunCountsHigher, Named, RunState
<1>5. OwedInv' BY DEF OwedInv, Lingers, HoldsData, RunState
<1>6. SilentInv' BY DEF SilentInv
<1> QED BY <1>t, <1>2, <1>3, <1>4, <1>5, <1>6

-----------------------------------------------------------------------------
(* The steps of one process that leave the volume alone.                   *)

LEMMA SucceededLease ==
  ASSUME NEW lease \in Lease, NEW started \in Nat, NEW t \in Nat
  PROVE  LET n == Succeeded(lease, started, t)
         IN  /\ n \in Lease /\ n.length = lease.length
             /\ n.until \in {lease.until, started + lease.length}
<1>1. /\ lease.length \in Int /\ lease.length >= 0 /\ lease.until \in Time /\ lease.failed \in Time
      /\ lease.length \in Lengths \cup {1}
  BY Constants DEF Lease
<1>2. started + lease.length \in Time /\ None \in Time
  BY <1>1 DEF Time
<1>3. \A u \in Time : [lease EXCEPT !.until = u, !.failed = None] \in Lease
  BY <1>2 DEF Lease
<1>4. Later(lease.until, started + lease.length) \in {lease.until, started + lease.length}
  BY DEF Later
<1> QED BY <1>1, <1>2, <1>3, <1>4 DEF Succeeded, Lease

\* Whoever has a probe or an output under way runs.
LEMMA UnderWay ==
  ASSUME IInv, NEW r \in Run, proc[r].probe # None \/ proc[r].out # None \/ proc[r].awaits
  PROVE  Alive(r)
<1> SUFFICES ASSUME ~Alive(r) PROVE FALSE
  OBVIOUS
<1>1. proc[r] = NoProcess(proc[r].phase)
  BY DEF IInv, LeaseInv
<1>2. proc[r].probe = None /\ proc[r].out = None /\ proc[r].awaits = FALSE
  BY <1>1 DEF NoProcess
<1> QED BY <1>2

LEMMA StartProbeInv == ASSUME NEW r \in Run PROVE IInv /\ StartProbe(r) => IInv'
<1> SUFFICES ASSUME IInv, StartProbe(r) PROVE IInv'
  OBVIOUS
<1> DEFINE p == [proc[r] EXCEPT !.probe = now, !.synced = FALSE]
<1>1. proc[r] \in Process /\ now \in Time /\ now \in Int
  BY DEF IInv, TypeOK, Time
<1>2. p \in Process /\ p.probe = now /\ ~p.synced
  BY <1>1 DEF Process
<1>3. proc' = [proc EXCEPT ![r] = p]
  BY DEF StartProbe
<1>4. Alive(r) /\ LeaseKept(r)
  BY DEF StartProbe, Alive, IInv, LeaseInv
<1>5. p.probe <= now
  BY <1>1, <1>2
<1> QED BY <1>1, <1>2, <1>3, <1>4, <1>5, QuietStep DEF StartProbe, LeaseKept, Process

LEMMA SyncProbeInv == ASSUME NEW r \in Run PROVE IInv /\ SyncProbe(r) => IInv'
<1> SUFFICES ASSUME IInv, SyncProbe(r) PROVE IInv'
  OBVIOUS
<1> DEFINE p == [proc[r] EXCEPT !.synced = TRUE]
<1>1. proc[r] \in Process
  BY DEF IInv, TypeOK
<1>2. p \in Process /\ p.synced
  BY <1>1 DEF Process
<1>3. proc' = [proc EXCEPT ![r] = p]
  BY DEF SyncProbe
<1>4. Alive(r) /\ LeaseKept(r)
  BY UnderWay DEF SyncProbe, IInv, LeaseInv
<1>5. LastHeld(r) = now
  BY <1>4, Types DEF SyncProbe, IInv, MountInv, LastHeld, Attached
<1> QED BY <1>1, <1>2, <1>3, <1>4, <1>5, QuietStep DEF SyncProbe, LeaseKept, Process

LEMMA ProbeSucceedsInv == ASSUME NEW r \in Run PROVE IInv /\ ProbeSucceeds(r) => IInv'
<1> SUFFICES ASSUME IInv, ProbeSucceeds(r) PROVE IInv'
  OBVIOUS
<1> DEFINE lease == Succeeded(proc[r].lease, proc[r].probe, now)
           p == [proc[r] EXCEPT !.lease = lease, !.probe = None, !.synced = FALSE]
<1>1. proc[r] \in Process /\ Typed(proc[r]) /\ proc[r].probe \in Nat /\ now \in Nat
  BY Types DEF ProbeSucceeds, IInv, TypeOK, Process, Time
<1>l. /\ lease \in Lease /\ lease.length = proc[r].lease.length
      /\ lease.until \in {proc[r].lease.until, proc[r].probe + proc[r].lease.length}
  BY <1>1, SucceededLease DEF Typed
<1> HIDE DEF lease
<1>2. p \in Process /\ p.probe = None /\ ~p.synced /\ p.lease = lease
  BY <1>1, <1>l DEF Process, Time
<1>3. proc' = [proc EXCEPT ![r] = p]
  BY DEF ProbeSucceeds, lease
<1>4. Alive(r) /\ LeaseKept(r)
  BY UnderWay DEF ProbeSucceeds, IInv, LeaseInv
<1>5. p.lease.until <= LastHeld(r) + p.lease.length
  BY <1>1, <1>2, <1>4, <1>l DEF LeaseKept, Typed, ProbeSucceeds, LastHeld
<1>6. p.probe <= now
  BY <1>1, <1>2 DEF None
<1> QED BY <1>1, <1>2, <1>3, <1>4, <1>5, <1>6, <1>l, QuietStep DEF ProbeSucceeds, LeaseKept, Process

LEMMA ProbeFailsInv == ASSUME NEW r \in Run PROVE IInv /\ ProbeFails(r) => IInv'
<1> SUFFICES ASSUME IInv, ProbeFails(r) PROVE IInv'
  OBVIOUS
<1> DEFINE lease == Failed(proc[r].lease, now)
           p == [proc[r] EXCEPT !.lease = lease, !.probe = None, !.synced = FALSE]
<1>1. proc[r] \in Process /\ Typed(proc[r]) /\ now \in Nat
  BY Types DEF ProbeFails, IInv, TypeOK
<1>l. /\ lease \in Lease /\ lease.length = proc[r].lease.length
      /\ lease.until = proc[r].lease.until
  BY <1>1 DEF Typed, Failed, Lease, Time
<1> HIDE DEF lease
<1>2. p \in Process /\ p.probe = None /\ ~p.synced /\ p.lease = lease
  BY <1>1, <1>l DEF Process, Time
<1>3. proc' = [proc EXCEPT ![r] = p]
  BY DEF ProbeFails, lease
<1>4. Alive(r) /\ LeaseKept(r)
  BY UnderWay DEF ProbeFails, IInv, LeaseInv
<1>5. p.probe <= now
  BY <1>1, <1>2 DEF None
<1> QED BY <1>1, <1>2, <1>3, <1>4, <1>5, <1>l, QuietStep DEF ProbeFails, LeaseKept, Process

LEMMA OutputInv == ASSUME NEW r \in Run PROVE IInv /\ (Check(r) \/ Leave(r)) => IInv'
<1> SUFFICES ASSUME IInv, Check(r) \/ Leave(r) PROVE IInv'
  OBVIOUS
<1>1. proc[r] \in Process /\ now \in Time /\ None \in Time
  BY DEF IInv, TypeOK, Time
<1>4. Alive(r) /\ LeaseKept(r)
  BY UnderWay DEF Check, Leave, Admits, Alive, IInv, LeaseInv
<1>5. CASE Check(r)
  <2> DEFINE p == [proc[r] EXCEPT !.out = now]
  <2>1. proc' = [proc EXCEPT ![r] = p] /\ p \in Process /\ p.out = now
    BY <1>1, <1>5 DEF Check, Process
  <2> QED BY <1>1, <1>4, <1>5, <2>1, QuietStep DEF Check, LeaseKept, Process
<1>6. CASE Leave(r)
  <2> DEFINE p == [proc[r] EXCEPT !.out = None]
  <2>1. proc' = [proc EXCEPT ![r] = p] /\ p \in Process /\ p.out = None
    BY <1>1, <1>6 DEF Leave, Process
  <2> QED BY <1>1, <1>4, <1>6, <2>1, QuietStep DEF Leave, LeaseKept, Process
<1> QED BY <1>5, <1>6

LEMMA HoldInv == ASSUME NEW r \in Run PROVE IInv /\ (HoldOut(r) \/ Bind(r)) => IInv'
<1> SUFFICES ASSUME IInv, HoldOut(r) \/ Bind(r) PROVE IInv'
  OBVIOUS
<1>1. proc[r] \in Process /\ now + Wait \in Time
  BY RunConstants DEF IInv, TypeOK, Time
<1>4. Alive(r) /\ LeaseKept(r)
  BY DEF HoldOut, Bind, Alive, IInv, LeaseInv
<1>5. CASE HoldOut(r)
  <2> DEFINE p == [proc[r] EXCEPT !.owes = TRUE]
  <2>1. proc' = [proc EXCEPT ![r] = p] /\ p \in Process /\ p.owes
    BY <1>1, <1>5 DEF HoldOut, Process
  <2> QED BY <1>1, <1>4, <1>5, <2>1, QuietStep DEF HoldOut, LeaseKept, Process
<1>6. CASE Bind(r)
  <2> DEFINE p == [proc[r] EXCEPT !.awaits = FALSE, !.owes = TRUE, !.over = now + Wait]
  <2>1. proc' = [proc EXCEPT ![r] = p] /\ p \in Process /\ p.owes /\ p.over = now + Wait
    BY <1>1, <1>6 DEF Bind, Process
  <2> QED BY <1>1, <1>4, <1>6, <2>1, QuietStep DEF Bind, LeaseKept, Process
<1> QED BY <1>5, <1>6

LEMMA CloseInv == ASSUME NEW r \in Run PROVE IInv /\ (Supersede(r) \/ Close(r)) => IInv'
<1> SUFFICES ASSUME IInv, Supersede(r) \/ Close(r) PROVE IInv'
  OBVIOUS
<1>1. proc[r] \in Process
  BY DEF IInv, TypeOK
<1>4. Alive(r) /\ LeaseKept(r)
  BY DEF Supersede, Close, Alive, IInv, LeaseInv
<1>5. CASE Supersede(r)
  <2> DEFINE p == [proc[r] EXCEPT !.superseded = TRUE, !.closed = TRUE]
  <2>1. proc' = [proc EXCEPT ![r] = p] /\ p \in Process
    BY <1>1, <1>5 DEF Supersede, Process
  <2> QED BY <1>1, <1>4, <1>5, <2>1, QuietStep DEF Supersede, LeaseKept, Process
<1>6. CASE Close(r)
  <2> DEFINE p == [proc[r] EXCEPT !.closed = TRUE]
  <2>1. proc' = [proc EXCEPT ![r] = p] /\ p \in Process
    BY <1>1, <1>6 DEF Close, Process
  <2> QED BY <1>1, <1>4, <1>6, <2>1, QuietStep DEF Close, LeaseKept, Process
<1> QED BY <1>5, <1>6

LEMMA GoneInv ==
  ASSUME NEW r \in Run
  PROVE  IInv /\ (Die(r) \/ StartFails(r) \/ (Poison(r) /\ ~Attached(r))) => IInv'
  BY GoneStep DEF Die, StartFails, Poison, Alive

-----------------------------------------------------------------------------
(* The steps that write the volume.                                        *)

\* The process on the attachment is the latest one, and the files are its.
LEMMA OnVolume ==
  ASSUME IInv, NEW r \in Run, Alive(r), Attached(r)
  PROVE  /\ ~Revoked(r) /\ LastHeld(r) = now /\ proc[r].id = disk.identity
         /\ \A q \in Run \ {r} : Alive(q) =>
              /\ q < r /\ Revoked(q) /\ proc[q].revoked + MoveTime <= proc[r].opened
         /\ \A s \in promised : ~(r < s)
<1> USE Types, Constants DEF IInv, Typed
<1>1. ~Revoked(r)
  BY DEF MountInv, Attached
<1>2. ASSUME NEW q \in Run \ {r}, Alive(q)
      PROVE  q < r /\ Revoked(q) /\ proc[q].revoked + MoveTime <= proc[r].opened
  <2>1. ~(r < q)
    BY <1>2 DEF MountInv, Attached
  <2>2. q < r
    BY <2>1
  <2> QED BY <1>2, <2>2 DEF MountInv, Attached
<1>3. \A s \in promised : ~(r < s)
  BY <1>1 DEF SilentInv
<1>4. proc[r].id = disk.identity /\ LastHeld(r) = now
  BY <1>1 DEF DiskInv, LastHeld
<1> QED BY <1>1, <1>2, <1>3, <1>4

Disk == [identity : IdentityFile,
         run : [status : {"None", "Running", "Clean", "Poisoned"},
                boot : Boots \cup {None}, device : Nat]]

\* Process r becomes p and the files of its volume become d.
LEMMA WriteStep ==
  ASSUME IInv, NEW r \in Run, NEW p \in Process, NEW d \in Disk, Alive(r), Attached(r),
         proc' = [proc EXCEPT ![r] = p], disk' = d, UNCHANGED <<now, mount, promised>>,
         p.phase \in {"counted", "running", "ended", "aborting"},
         p.att = proc[r].att, p.boot = proc[r].boot, p.revoked = proc[r].revoked,
         p.opened = proc[r].opened, p.probe = proc[r].probe, p.synced = proc[r].synced,
         p.out = proc[r].out, p.phase = "counted" => p.out = None,
         p.lease.length = proc[r].lease.length,
         p.lease.until <= now + p.lease.length,
         p.id = d.identity,
         (p.id.run = proc[r].id.run /\ Named(r)) \/ p.id.run = disk.identity.run + 1,
         p.phase = "running" => d.run = [status |-> "Running", boot |-> p.boot, device |-> p.att],
         \A q \in Run \ {r} : Lingers(q) =>
           /\ p.id.wait
           /\ p.phase \in {"counted", "running"} =>
                /\ p.owes \/ p.awaits
                /\ p.over # None => p.over >= proc[q].revoked + Wait
  PROVE  IInv'
<1>a. /\ proc' \in [Run -> Process] /\ proc'[r] = p /\ Typed(p)
      /\ \A q \in Run \ {r} : proc'[q] = proc[q]
  BY Replaced DEF IInv
<1>t. TypeOK' BY <1>a DEF IInv, TypeOK, Disk
<1>o. /\ ~Revoked(r) /\ LastHeld(r) = now /\ proc[r].id = disk.identity
      /\ \A q \in Run \ {r} : Alive(q) =>
           /\ q < r /\ Revoked(q) /\ proc[q].revoked + MoveTime <= proc[r].opened
      /\ \A s \in promised : ~(r < s)
  BY OnVolume
<1>d. d.identity.run \in Int /\ d.identity.run >= disk.identity.run
  BY <1>a, <1>o, Types DEF Typed, IInv
<1> USE Types, Constants DEF IInv, Typed, Alive, Revoked, None
<1>b. \A q \in Run : /\ LastHeld(q)' = LastHeld(q) /\ (Alive(q)' <=> Alive(q))
                      /\ (Revoked(q)' <=> Revoked(q))
                      /\ LastHeld(q) \in Int /\ LastHeld(q) >= 0
  BY <1>a DEF LastHeld
<1>2. LeaseInv'
  <2> SUFFICES ASSUME NEW q \in Run
               PROVE  IF Alive(q)' THEN LeaseKept(q)'
                      ELSE proc'[q] = NoProcess(proc'[q].phase)
    BY DEF LeaseInv
  <2>1. CASE q # r
    BY <2>1, <1>a, <1>b DEF LeaseInv, LeaseKept
  <2>2. CASE q = r
    <3>1. LeaseKept(r)
      BY DEF LeaseInv
    <3> QED BY <2>2, <3>1, <1>a, <1>b, <1>o DEF LeaseKept
  <2> QED BY <2>1, <2>2
<1>3. MountInv' BY <1>a, <1>b DEF MountInv
<1>4. DiskInv'
  BY <1>a, <1>b, <1>d, <1>o DEF DiskInv, Named, RunState
<1>7. NewerRunCountsHigher'
  <2> SUFFICES ASSUME NEW q \in Run, NEW s \in Run, q < s, Named(q)', Named(s)'
               PROVE  proc'[q].id.run < proc'[s].id.run
    BY DEF NewerRunCountsHigher
  <2>1. CASE q # r /\ s # r
    BY <2>1, <1>a DEF NewerRunCountsHigher, Named
  <2>2. CASE s = r
    <3>1. q # r /\ Named(q) /\ proc'[q] = proc[q] /\ proc[q].id.run <= disk.identity.run
      BY <2>2, <1>a DEF Named, DiskInv
    <3> QED BY <2>2, <3>1, <1>a, <1>o DEF NewerRunCountsHigher
  <2>3. CASE q = r
    BY <2>3, <1>a, <1>b, <1>o DEF Named
  <2> QED BY <2>1, <2>2, <2>3
<1>5. OwedInv'
  <2>1. \A q \in Run : Lingers(q)' => Lingers(q) /\ q # r
    BY <1>a, <1>o DEF Lingers
  <2> QED BY <1>a, <2>1 DEF OwedInv, HoldsData
<1>6. SilentInv'
  BY <1>a, <1>b, <1>o DEF SilentInv, LastHeld
<1> QED BY <1>t, <1>2, <1>3, <1>4, <1>5, <1>6, <1>7 DEF IInv

LEMMA DiskTyped ==
  ASSUME IInv, NEW r \in Run, Alive(r)
  PROVE  /\ disk \in Disk
         /\ \A file \in IdentityFile : [disk EXCEPT !.identity = file] \in Disk
         /\ \A status \in {"Running", "Clean", "Poisoned"} :
              [disk EXCEPT !.run = RunState(r, status)] \in Disk
<1>1. disk \in Disk
  BY DEF IInv, TypeOK, Disk
<1>2. proc[r].boot \in Boots \cup {None} /\ proc[r].att \in Nat
  BY Types DEF IInv, Process
<1> QED BY <1>1, <1>2 DEF Disk, RunState

LEMMA AdvanceInv == ASSUME NEW r \in Run PROVE IInv /\ Advance(r) => IInv'
<1> SUFFICES ASSUME IInv, Advance(r) PROVE IInv'
  OBVIOUS
<1> DEFINE owed == proc[r].predecessor = "MayLive"
           bound == proc[r].id.standing = "Bound"
           file == Counted(r)
           lease == Succeeded(proc[r].lease, proc[r].opened, now)
           over == IF owed /\ bound THEN proc[r].opened + Wait ELSE None
           p == [proc[r] EXCEPT !.phase = "counted", !.id = file, !.lease = lease,
                                !.owes = owed /\ bound, !.awaits = owed /\ ~bound,
                                !.over = over]
           d == [disk EXCEPT !.identity = file]
<1>1. /\ Alive(r) /\ LeaseKept(r) /\ proc[r] \in Process /\ Typed(proc[r])
      /\ proc[r].out = None /\ now \in Nat /\ ~Named(r)
  BY Types DEF Advance, Alive, Named, IInv, LeaseInv, LeaseKept, TypeOK
<1>2. proc[r].opened \in Nat /\ proc[r].opened <= now
  BY <1>1 DEF IInv, MountInv, Typed
<1>3. file \in IdentityFile /\ file.run = proc[r].id.run + 1 /\ file.wait = owed
  <2>1. proc[r].id \in IdentityFile /\ proc[r].id.run + 1 \in Nat
    BY <1>1 DEF Typed, IdentityFile
  <2>2. owed \in BOOLEAN
    OBVIOUS
  <2>3. \A w \in BOOLEAN :
          LET f == [proc[r].id EXCEPT !.run = proc[r].id.run + 1, !.wait = w]
          IN  f \in IdentityFile /\ f.run = proc[r].id.run + 1 /\ f.wait = w
    BY <2>1 DEF IdentityFile
  <2>4. file = [proc[r].id EXCEPT !.run = proc[r].id.run + 1, !.wait = owed]
    BY DEF Counted
  <2> QED BY <2>2, <2>3, <2>4, Zenon
<1>4. /\ lease \in Lease /\ lease.length = proc[r].lease.length
      /\ lease.until \in {proc[r].lease.until, proc[r].opened + proc[r].lease.length}
  BY <1>1, <1>2, SucceededLease DEF Typed
<1>5. over \in Time /\ owed \in BOOLEAN /\ bound \in BOOLEAN
  BY <1>2, RunConstants DEF Time
<1>6. proc' = [proc EXCEPT ![r] = p] /\ disk' = d /\ UNCHANGED <<now, mount, promised>>
  <2>1. proc' = [proc EXCEPT ![r] = p]
    BY Zenon DEF Advance
  <2>2. disk' = d /\ UNCHANGED <<now, mount, promised>>
    BY DEF Advance
  <2> QED BY <2>1, <2>2
<1>7. d \in Disk /\ d.identity = file
  BY <1>1, <1>3, DiskTyped DEF Disk
<1>8. LastHeld(r) = now /\ proc[r].id = disk.identity
  BY <1>1, OnVolume DEF Advance
<1>9. lease.until <= now + lease.length
  BY <1>1, <1>2, <1>4, <1>8 DEF LeaseKept, Typed
<1>10. \A q \in Run \ {r} : Lingers(q) =>
         owed /\ (over # None => over >= proc[q].revoked + Wait)
  <2> SUFFICES ASSUME NEW q \in Run \ {r}, Lingers(q)
               PROVE  owed /\ (over # None => over >= proc[q].revoked + Wait)
    OBVIOUS
  <2>1. q < r /\ proc[q].revoked + MoveTime <= proc[r].opened
    BY <1>1, OnVolume DEF Advance, Lingers, Alive
  <2>2. owed
    BY <2>1, Types DEF IInv, OwedInv, Advance
  <2>3. proc[q].revoked \in Int
    BY Types DEF IInv, Typed
  <2> QED BY <1>2, <2>1, <2>2, <2>3, Constants
<1> HIDE DEF file, lease, over, owed, bound
<1>11. /\ p \in Process /\ p.phase = "counted" /\ p.id = file /\ p.lease = lease
       /\ p.owes = (owed /\ bound) /\ p.awaits = (owed /\ ~bound) /\ p.over = over
  BY <1>1, <1>3, <1>4, <1>5 DEF Process, Phase
<1>12. \A q \in Run \ {r} : Lingers(q) =>
         /\ p.id.wait /\ (p.owes \/ p.awaits)
         /\ p.over # None => p.over >= proc[q].revoked + Wait
  <2>1. \A q \in Run \ {r} : Lingers(q) => owed /\ (p.over # None => p.over >= proc[q].revoked + Wait)
    BY <1>10, <1>11
  <2>2. owed => p.id.wait /\ (p.owes \/ p.awaits)
    BY <1>3, <1>11
  <2> QED BY <2>1, <2>2
<1>13. /\ p.att = proc[r].att /\ p.boot = proc[r].boot /\ p.revoked = proc[r].revoked
       /\ p.opened = proc[r].opened /\ p.probe = proc[r].probe /\ p.synced = proc[r].synced
       /\ p.out = proc[r].out
  BY <1>1 DEF Process
<1>14. Attached(r)
  BY DEF Advance
<1>15. p.id = d.identity /\ p.id.run = disk.identity.run + 1 /\ p.lease.length = proc[r].lease.length
       /\ p.lease.until <= now + p.lease.length /\ (p.phase = "counted" => p.out = None)
  BY <1>1, <1>3, <1>4, <1>7, <1>8, <1>9, <1>11, <1>13
<1> HIDE DEF p, d
<1> QED BY <1>1, <1>6, <1>7, <1>11, <1>12, <1>13, <1>14, <1>15, WriteStep

\* What a running process on the volume knows of the ones that linger.
LEMMA Knows ==
  ASSUME IInv, NEW r \in Run, proc[r].phase \in {"counted", "running"}, Attached(r)
  PROVE  /\ Alive(r) /\ LeaseKept(r) /\ Named(r) /\ proc[r] \in Process /\ Typed(proc[r])
         /\ proc[r].lease.until <= now + proc[r].lease.length
         /\ proc[r].id = disk.identity /\ disk.run \in [status : {"None", "Running", "Clean", "Poisoned"},
                boot : Boots \cup {None}, device : Nat]
         /\ \A q \in Run \ {r} : Lingers(q) =>
              /\ proc[r].id.wait /\ (proc[r].owes \/ proc[r].awaits)
              /\ proc[r].over # None => proc[r].over >= proc[q].revoked + Wait
<1>1. /\ Alive(r) /\ LeaseKept(r) /\ Named(r) /\ proc[r] \in Process /\ Typed(proc[r])
  BY Types DEF Alive, Named, IInv, LeaseInv, TypeOK
<1>2. LastHeld(r) = now /\ proc[r].id = disk.identity
  BY <1>1, OnVolume
<1>3. \A q \in Run \ {r} : Lingers(q) => q < r
  BY <1>1, OnVolume DEF Lingers, Alive
<1>4. ASSUME NEW q \in Run \ {r}, Lingers(q)
      PROVE  /\ proc[r].id.wait /\ (proc[r].owes \/ proc[r].awaits)
             /\ proc[r].over # None => proc[r].over >= proc[q].revoked + Wait
  <2>1. r > q
    BY <1>3, <1>4, Types DEF IInv
  <2> QED BY <1>4, <2>1 DEF IInv, OwedInv, HoldsData
<1> QED BY <1>1, <1>2, <1>4 DEF LeaseKept, IInv, TypeOK

LEMMA RunFileInv ==
  ASSUME NEW r \in Run
  PROVE  IInv /\ (RecordRunning(r) \/ RecordClean(r) \/ (Poison(r) /\ Attached(r))) => IInv'
<1> SUFFICES ASSUME IInv, RecordRunning(r) \/ RecordClean(r) \/ (Poison(r) /\ Attached(r))
             PROVE  IInv'
  OBVIOUS
<1>0. Attached(r) /\ proc[r].phase \in {"counted", "running"}
  BY DEF RecordRunning, RecordClean, Poison
<1>1. PICK phase \in {"running", "ended", "aborting"}, status \in {"Running", "Clean", "Poisoned"} :
        /\ disk' = [disk EXCEPT !.run = RunState(r, status)]
        /\ proc' = [proc EXCEPT ![r].phase = phase]
        /\ phase = "running" => status = "Running"
        /\ UNCHANGED <<now, mount, promised>>
  BY DEF RecordRunning, RecordClean, Poison
<1> DEFINE p == [proc[r] EXCEPT !.phase = phase]
           d == [disk EXCEPT !.run = RunState(r, status)]
<1>2. /\ Alive(r) /\ LeaseKept(r) /\ Named(r) /\ proc[r] \in Process
      /\ proc[r].lease.until <= now + proc[r].lease.length /\ proc[r].id = disk.identity
  BY <1>0, Knows
<1>3. /\ p \in Process /\ p.phase = phase /\ p.att = proc[r].att /\ p.boot = proc[r].boot
      /\ p.revoked = proc[r].revoked /\ p.opened = proc[r].opened /\ p.probe = proc[r].probe
      /\ p.synced = proc[r].synced /\ p.out = proc[r].out /\ p.lease = proc[r].lease
      /\ p.id = proc[r].id /\ p.owes = proc[r].owes /\ p.awaits = proc[r].awaits
      /\ p.over = proc[r].over
  BY <1>2 DEF Process, Phase
<1>4. d \in Disk /\ d.identity = disk.identity
      /\ (phase = "running" => d.run = [status |-> "Running", boot |-> p.boot, device |-> p.att])
  BY <1>1, <1>2, <1>3, DiskTyped DEF Disk, RunState
<1>5. proc' = [proc EXCEPT ![r] = p] /\ disk' = d
  BY <1>1
<1>6. \A q \in Run \ {r} : Lingers(q) =>
        /\ p.id.wait /\ (p.owes \/ p.awaits)
        /\ p.over # None => p.over >= proc[q].revoked + Wait
  BY <1>0, <1>3, Knows
<1>7. p.phase \in {"running", "ended", "aborting"} /\ UNCHANGED <<now, mount, promised>>
  BY <1>1, <1>3
<1> HIDE DEF p, d
<1> QED BY <1>0, <1>2, <1>3, <1>4, <1>5, <1>6, <1>7, WriteStep

LEMMA RecordBoundInv == ASSUME NEW r \in Run PROVE IInv /\ RecordBound(r) => IInv'
<1> SUFFICES ASSUME IInv, RecordBound(r) PROVE IInv'
  OBVIOUS
<1>0. Attached(r) /\ proc[r].phase = "running"
  BY DEF RecordBound, MayWrite, Admits
<1> DEFINE file == [proc[r].id EXCEPT !.standing = "Bound"]
           p == [proc[r] EXCEPT !.id = file]
           d == [disk EXCEPT !.identity = file]
<1>2. /\ Alive(r) /\ LeaseKept(r) /\ Named(r) /\ proc[r] \in Process /\ Typed(proc[r])
      /\ proc[r].lease.until <= now + proc[r].lease.length /\ proc[r].id = disk.identity
  BY <1>0, Knows
<1>f. file \in IdentityFile /\ file.run = proc[r].id.run /\ file.wait = proc[r].id.wait
  BY <1>2 DEF Typed, IdentityFile
<1>5. proc' = [proc EXCEPT ![r] = p] /\ disk' = d /\ UNCHANGED <<now, mount, promised>>
  BY DEF RecordBound
<1>7. ~Revoked(r)
  BY <1>0, <1>2, OnVolume
<1> HIDE DEF file
<1>3. /\ p \in Process /\ p.phase = "running" /\ p.att = proc[r].att /\ p.boot = proc[r].boot
      /\ p.revoked = proc[r].revoked /\ p.opened = proc[r].opened /\ p.probe = proc[r].probe
      /\ p.synced = proc[r].synced /\ p.out = proc[r].out /\ p.lease = proc[r].lease
      /\ p.id = file /\ p.owes = proc[r].owes /\ p.awaits = proc[r].awaits
      /\ p.over = proc[r].over
  BY <1>0, <1>2, <1>f DEF Process
<1>4. d \in Disk /\ d.identity = file
      /\ d.run = [status |-> "Running", boot |-> p.boot, device |-> p.att]
  BY <1>0, <1>2, <1>3, <1>7, <1>f, DiskTyped DEF Disk, RunState, IInv, DiskInv
<1>6. \A q \in Run \ {r} : Lingers(q) =>
        /\ p.id.wait /\ (p.owes \/ p.awaits)
        /\ p.over # None => p.over >= proc[q].revoked + Wait
  BY <1>0, <1>3, <1>f, Knows
<1> HIDE DEF p, d
<1> QED BY <1>0, <1>2, <1>3, <1>4, <1>5, <1>6, <1>f, WriteStep

LEMMA FinishWaitInv == ASSUME NEW r \in Run PROVE IInv /\ FinishWait(r) => IInv'
<1> SUFFICES ASSUME IInv, FinishWait(r) PROVE IInv'
  OBVIOUS
<1>0. Attached(r) /\ proc[r].phase = "running"
  BY DEF FinishWait, MayWrite, Admits
<1> DEFINE file == [proc[r].id EXCEPT !.wait = FALSE]
           p == [proc[r] EXCEPT !.id = file, !.owes = FALSE]
           d == [disk EXCEPT !.identity = file]
<1>2. /\ Alive(r) /\ LeaseKept(r) /\ Named(r) /\ proc[r] \in Process /\ Typed(proc[r])
      /\ proc[r].lease.until <= now + proc[r].lease.length /\ proc[r].id = disk.identity
  BY <1>0, Knows
<1>f. file \in IdentityFile /\ file.run = proc[r].id.run
  BY <1>2 DEF Typed, IdentityFile
<1>5. proc' = [proc EXCEPT ![r] = p] /\ disk' = d /\ UNCHANGED <<now, mount, promised>>
  BY DEF FinishWait
<1>7. ~Revoked(r)
  BY <1>0, <1>2, OnVolume
<1> HIDE DEF file
<1>3. /\ p \in Process /\ p.phase = "running" /\ p.att = proc[r].att /\ p.boot = proc[r].boot
      /\ p.revoked = proc[r].revoked /\ p.opened = proc[r].opened /\ p.probe = proc[r].probe
      /\ p.synced = proc[r].synced /\ p.out = proc[r].out /\ p.lease = proc[r].lease
      /\ p.id = file
  BY <1>0, <1>2, <1>f DEF Process
<1>4. d \in Disk /\ d.identity = file
      /\ d.run = [status |-> "Running", boot |-> p.boot, device |-> p.att]
  BY <1>0, <1>2, <1>3, <1>7, <1>f, DiskTyped DEF Disk, RunState, IInv, DiskInv
<1>6. \A q \in Run \ {r} : ~Lingers(q)
  <2> SUFFICES ASSUME NEW q \in Run \ {r}, Lingers(q) PROVE FALSE
    OBVIOUS
  <2>1. proc[r].over # None => proc[r].over >= proc[q].revoked + Wait
    BY <1>0, Knows
  <2> QED BY <2>1, Types, Constants DEF FinishWait, WaitedOut, Lingers, IInv, Typed
<1> HIDE DEF p, d
<1> QED BY <1>0, <1>2, <1>3, <1>4, <1>5, <1>6, <1>f, WriteStep

LEMMA PromiseInv == ASSUME NEW r \in Run PROVE IInv /\ Promise(r) => IInv'
<1> SUFFICES ASSUME IInv, Promise(r) PROVE IInv'
  OBVIOUS
<1>t. TypeOK'
  BY DEF IInv, TypeOK, Promise
<1>0. /\ Alive(r) /\ proc[r].phase = "running" /\ ~HoldsData(r)
      /\ promised' = promised \cup {r} /\ UNCHANGED <<now, mount, disk, proc>>
  BY DEF Promise, MayPromise, Admits, Alive
<1> USE Types, Constants DEF IInv, Typed
<1>1. ASSUME NEW q \in Run, q < r, Alive(q)
      PROVE  /\ Revoked(q) /\ proc[q].out = None
             /\ proc[q].phase = "running" => now >= proc[q].revoked + proc[q].lease.length
  <2>1. Revoked(q) /\ proc[q].revoked + MoveTime <= now
    BY <1>0, <1>1 DEF MountInv
  <2>2. LeaseKept(q) /\ LastHeld(q) = proc[q].revoked
    BY <1>1, <2>1 DEF LeaseInv, LastHeld
  <2>3. proc[q].phase = "running" => now >= proc[q].revoked + Wait
    BY <1>0, <1>1, <2>1 DEF OwedInv, Lingers
  <2>4. proc[q].lease.length + Margin <= Wait
    BY <2>2 DEF LeaseKept
  <2>5. ASSUME proc[q].out # None PROVE FALSE
    <3>1. /\ proc[q].out < proc[q].revoked + proc[q].lease.length
          /\ now <= proc[q].out + Margin
      BY <2>2, <2>5 DEF LeaseKept
    <3>2. proc[q].phase \in {"running", "ended", "aborting"}
      BY <1>1, <2>2, <2>5 DEF LeaseKept, TypeOK, Process, Phase, Alive
    <3> QED BY <2>1, <2>2, <2>3, <2>4, <3>1, <3>2 DEF LeaseKept
  <2> QED BY <2>1, <2>3, <2>4, <2>5
<1>2. SilentInv'
  BY <1>0, <1>1 DEF SilentInv, Alive, Revoked
<1>3. MountInv'
  BY <1>0 DEF MountInv, Alive, Revoked
<1> QED BY <1>0, <1>2, <1>3, <1>t DEF LeaseInv, LeaseKept, LastHeld, DiskInv, OwedInv, HoldsData,
           Lingers, RunState, Named, Alive, Revoked, NewerRunCountsHigher, Promise

\* The volume tells whoever opens it of a process that lingers elsewhere.
LEMMA Told ==
  ASSUME IInv, NEW q \in Run, Lingers(q), proc[q].att # mount.att
  PROVE  Predecessor = "MayLive"
<1>1. CASE disk.identity.standing = "Unbound" \/ disk.identity.wait
  BY <1>1 DEF Predecessor
<1>2. CASE disk.run = RunState(q, "Running")
  <2>1. disk.run.status = "Running" /\ disk.run.device # mount.att
    BY <1>2 DEF RunState
  <2>2. PreviousRun \in {"HostCrash", "Remounted"}
    BY <2>1 DEF PreviousRun
  <2> QED BY <2>2 DEF Predecessor
<1> QED BY <1>1, <1>2 DEF IInv, OwedInv

LEMMA OpenInv ==
  ASSUME NEW r \in Run, NEW length \in Lengths PROVE IInv /\ Open(r, length) => IInv'
<1> SUFFICES ASSUME IInv, Open(r, length) PROVE IInv'
  OBVIOUS
<1> DEFINE p == [NoProcess("opening") EXCEPT
                   !.att = mount.att, !.boot = mount.boot, !.lease = NewLease(length),
                   !.opened = now, !.id = disk.identity, !.predecessor = Predecessor]
<1>1. /\ mount.att \in Nat /\ mount.boot \in Boots /\ now \in Nat
      /\ disk.identity \in IdentityFile
  BY DEF IInv, TypeOK
<1>2. NewLease(length) \in Lease /\ NewLease(length).until = None
      /\ NewLease(length).length = length
  BY DEF NewLease, Lease, Time
<1>3. Predecessor \in {"MayLive", "Gone"}
  BY DEF Predecessor
<1>4. /\ p \in Process /\ p.phase = "opening" /\ p.att = mount.att /\ p.boot = mount.boot
      /\ p.lease = NewLease(length) /\ p.opened = now /\ p.id = disk.identity
      /\ p.predecessor = Predecessor /\ p.revoked = None /\ p.probe = None /\ ~p.synced
      /\ p.out = None
  <2>1. NoProcess("opening") \in Process /\ NoProcess("opening").phase = "opening"
        /\ NoProcess("opening").revoked = None /\ NoProcess("opening").probe = None
        /\ ~NoProcess("opening").synced /\ NoProcess("opening").out = None
    BY NoProcessTyped DEF NoProcess, Phase
  <2> QED BY <1>1, <1>2, <1>3, <2>1 DEF Process, Time
<1> HIDE DEF p
<1>u. proc' = [proc EXCEPT ![r] = p] /\ UNCHANGED <<now, mount, disk, promised>>
  BY DEF Open, p
<1>a. /\ proc' \in [Run -> Process] /\ proc'[r] = p /\ Typed(p)
      /\ \A q \in Run \ {r} : proc'[q] = proc[q]
  BY <1>4, <1>u, Replaced DEF IInv
<1>t. TypeOK' BY <1>a, <1>u DEF IInv, TypeOK
<1> USE Types, Constants DEF IInv, Typed, None
<1>o. /\ proc[r].phase = "unborn" /\ ~Alive(r) /\ r \notin promised /\ mount.up
      /\ \A s \in promised : ~(r < s)
      /\ \A q \in Run : Alive(q) => /\ q < r /\ Revoked(q) /\ proc[q].att < mount.att
                                    /\ proc[q].revoked + MoveTime <= now
      /\ \A q \in Run : q < r => proc[q].phase # "unborn"
  <2>1. /\ proc[r].phase = "unborn" /\ mount.up /\ ~Alive(r)
        /\ \A q \in Run : Alive(q) => proc[q].att # mount.att
        /\ \A q \in Run : q < r => proc[q].phase # "unborn"
    BY DEF Open, Run, Alive
  <2>2. /\ r \notin promised /\ \A s \in promised : ~(r < s)
    BY <2>1 DEF MountInv
  <2>3. \A q \in Run : Alive(q) => q < r
    BY <2>1 DEF MountInv, Alive
  <2> QED BY <2>1, <2>2, <2>3 DEF MountInv
<1>b. /\ Alive(r)' /\ ~Revoked(r)' /\ LastHeld(r)' = now
      /\ \A q \in Run \ {r} : /\ LastHeld(q)' = LastHeld(q) /\ (Alive(q)' <=> Alive(q))
                              /\ (Revoked(q)' <=> Revoked(q))
  BY <1>4, <1>a, <1>u DEF LastHeld, Alive, Revoked
<1>2b. LeaseInv'
  <2> SUFFICES ASSUME NEW q \in Run
               PROVE  IF Alive(q)' THEN LeaseKept(q)'
                      ELSE proc'[q] = NoProcess(proc'[q].phase)
    BY DEF LeaseInv
  <2>1. CASE q # r
    BY <2>1, <1>a, <1>b, <1>u DEF LeaseInv, LeaseKept
  <2>2. CASE q = r
    BY <2>2, <1>1, <1>2, <1>4, <1>a, <1>b, <1>u DEF LeaseKept
  <2> QED BY <2>1, <2>2
<1>3b. MountInv'
  <2>1. mount'.since <= now'
    BY <1>u DEF MountInv
  <2>2. \A q \in Run : Alive(q)' =>
          /\ proc'[q].att <= mount'.att /\ 0 <= proc'[q].opened /\ proc'[q].opened <= now'
          /\ Revoked(q)' <=> proc'[q].att < mount'.att
          /\ Revoked(q)' => /\ proc'[q].revoked <= mount'.since
                            /\ mount'.up => mount'.since + MoveTime <= now'
          /\ ~Revoked(q)' => mount'.up
    BY <1>1, <1>4, <1>a, <1>b, <1>u, <1>o DEF MountInv
  <2>3. ASSUME NEW q \in Run, NEW s \in Run, q < s
        PROVE  /\ proc'[q].phase = "unborn" => proc'[s].phase = "unborn" /\ s \notin promised'
               /\ Alive(q)' /\ Alive(s)' => /\ proc'[q].att < proc'[s].att
                                            /\ proc'[q].revoked + MoveTime <= proc'[s].opened
    <3>1. CASE q # r /\ s # r
      BY <2>3, <3>1, <1>a, <1>b, <1>u DEF MountInv
    <3>2. CASE q = r
      BY <2>3, <3>2, <1>a, <1>b, <1>o, <1>4
    <3>3. CASE s = r
      BY <2>3, <3>3, <1>a, <1>b, <1>o, <1>4, <1>1
    <3> QED BY <3>1, <3>2, <3>3
  <2>4. \A s \in promised' : proc'[s].phase # "unborn"
    BY <1>u, <1>o, <1>a DEF MountInv
  <2> QED BY <2>1, <2>2, <2>3, <2>4 DEF MountInv
<1>4b. DiskInv'
  BY <1>4, <1>a, <1>b, <1>u DEF DiskInv, Named, RunState
<1>7b. NewerRunCountsHigher'
  BY <1>4, <1>a, <1>b DEF NewerRunCountsHigher, Named
<1>5b. OwedInv'
  <2>1. \A q \in Run : Lingers(q)' => Lingers(q) /\ q # r
    BY <1>4, <1>a, <1>b, <1>u DEF Lingers
  <2>2. \A q \in Run : Lingers(q) => Predecessor = "MayLive"
    BY <1>o, Told DEF Lingers, Alive
  <2>3. \A q \in Run \ {r} : RunState(q, "Running")' = RunState(q, "Running")
    BY <1>a DEF RunState
  <2> QED BY <1>4, <1>a, <1>u, <2>1, <2>2, <2>3 DEF OwedInv, HoldsData
<1>6b. SilentInv'
  BY <1>a, <1>b, <1>u, <1>o DEF SilentInv
<1> QED BY <1>t, <1>2b, <1>3b, <1>4b, <1>5b, <1>6b, <1>7b DEF IInv

-----------------------------------------------------------------------------
(* The theorems.                                                           *)

LEMMA NextInv == IInv /\ [Next]_vars => IInv'
<1> SUFFICES ASSUME IInv, [Next]_vars PROVE IInv'
  OBVIOUS
<1>1. CASE Tick
  BY <1>1, TickInv
<1>2. CASE Detach
  BY <1>2, DetachInv
<1>3. ASSUME NEW b \in Boots, Attach(b) PROVE IInv'
  BY <1>3, AttachInv
<1>4. ASSUME NEW r \in Run,
             \/ Die(r) \/ \E length \in Lengths : Open(r, length)
             \/ StartFails(r) \/ Advance(r) \/ RecordRunning(r)
             \/ StartProbe(r) \/ SyncProbe(r) \/ ProbeSucceeds(r) \/ ProbeFails(r)
             \/ Check(r) \/ Leave(r) \/ Promise(r)
             \/ RecordBound(r) \/ HoldOut(r) \/ Bind(r) \/ FinishWait(r)
             \/ Supersede(r) \/ Close(r) \/ RecordClean(r) \/ Poison(r)
      PROVE  IInv'
  <2>1. CASE Die(r) \/ StartFails(r) \/ (Poison(r) /\ ~Attached(r))
    BY <2>1, GoneInv
  <2>2. CASE RecordRunning(r) \/ RecordClean(r) \/ (Poison(r) /\ Attached(r))
    BY <2>2, RunFileInv
  <2>3. CASE \E length \in Lengths : Open(r, length)
    BY <2>3, OpenInv
  <2>4. CASE Advance(r)
    BY <2>4, AdvanceInv
  <2>5. CASE StartProbe(r) \/ SyncProbe(r) \/ ProbeSucceeds(r) \/ ProbeFails(r)
    BY <2>5, StartProbeInv, SyncProbeInv, ProbeSucceedsInv, ProbeFailsInv
  <2>6. CASE Check(r) \/ Leave(r)
    BY <2>6, OutputInv
  <2>7. CASE Promise(r)
    BY <2>7, PromiseInv
  <2>8. CASE RecordBound(r) \/ FinishWait(r)
    BY <2>8, RecordBoundInv, FinishWaitInv
  <2>9. CASE HoldOut(r) \/ Bind(r)
    BY <2>9, HoldInv
  <2>10. CASE Supersede(r) \/ Close(r)
    BY <2>10, CloseInv
  <2> QED BY <1>4, <2>1, <2>2, <2>3, <2>4, <2>5, <2>6, <2>7, <2>8, <2>9, <2>10
<1>5. CASE UNCHANGED vars
  BY <1>5 DEF vars, IInv, TypeOK, LeaseInv, LeaseKept, LastHeld, MountInv, DiskInv, OwedInv,
     SilentInv, HoldsData, Lingers, RunState, Named, Alive, Revoked, NewerRunCountsHigher
<1> QED BY <1>1, <1>2, <1>3, <1>4, <1>5 DEF Next

\* In every behaviour the leases, the attachment, the files of the volume
\* and the waits are as IInv says, for any number of runs, moves and hosts
\* and any lengths that fit the wait (node_fence.rs, run_state.rs,
\* identity.rs, predecessor_wait.rs).
THEOREM RunsInvariant == Spec => []IInv
  BY InitInv, NextInv, PTL DEF Spec

\* A process's lease ends by the time its volume has been away for the
\* lease's length, however late its probes learn of their writes
\* (node_fence.rs, DiskLease::succeeded and holds).
THEOREM LeaseEndsHolds == Spec => []LeaseEnds
<1>1. IInv => LeaseEnds
  <2> SUFFICES ASSUME IInv, NEW r \in Run, Admits(r), proc[r].revoked # None
               PROVE  now < proc[r].revoked + proc[r].lease.length
    BY DEF LeaseEnds
  <2>1. LeaseKept(r) /\ LastHeld(r) = proc[r].revoked
    BY DEF IInv, LeaseInv, Alive, Admits, LastHeld, Revoked
  <2> QED BY <2>1, Types DEF IInv, Typed, Admits, Holds, LeaseKept
<1> QED BY <1>1, RunsInvariant, PTL

\* Once a run took part, every process of an earlier run is outside the
\* fence and has no output under way: the predecessor wait, recorded across
\* restarts, outlasts the lease (predecessor_wait.rs, run_state.rs).
THEOREM NoLateAnswerHolds == Spec => []NoLateAnswer
<1>1. IInv => NoLateAnswer
  <2> SUFFICES ASSUME IInv, NEW s \in promised, NEW r \in Run, r < s
               PROVE  ~Admits(r) /\ proc[r].out = None
    BY DEF NoLateAnswer
  <2>1. CASE ~Alive(r)
    BY <2>1, UnderWay DEF Admits, Alive
  <2>2. CASE Alive(r)
    <3>1. /\ Revoked(r) /\ proc[r].out = None
          /\ proc[r].phase = "running" => now >= proc[r].revoked + proc[r].lease.length
      BY <2>2 DEF IInv, SilentInv
    <3>2. LeaseKept(r) /\ LastHeld(r) = proc[r].revoked
      BY <2>2, <3>1 DEF IInv, LeaseInv, LastHeld
    <3>3. ~Admits(r)
      BY <3>1, <3>2, Types DEF IInv, Typed, Admits, Holds, LeaseKept
    <3> QED BY <3>1, <3>3
  <2> QED BY <2>1, <2>2
<1> QED BY <1>1, RunsInvariant, PTL

\* Of two named processes of a root the later has the higher number: a run
\* is durable before a process names it (identity.rs, advance).
THEOREM NewerRunCountsHigherHolds == Spec => []NewerRunCountsHigher
<1>1. IInv => NewerRunCountsHigher
  BY DEF IInv
<1> QED BY <1>1, RunsInvariant, PTL

\* Whoever opens the volume while an older process may still speak reads
\* that its predecessor may live (run_state.rs, Predecessor::of).
THEOREM WaitRecordedHolds == Spec => []WaitRecorded
<1>1. IInv => WaitRecorded
  <2> SUFFICES ASSUME IInv, mount.up, NEW r \in Run, Admits(r) \/ proc[r].out # None,
                      proc[r].revoked # None, proc[r].phase = "running"
               PROVE  Predecessor = "MayLive"
    BY DEF WaitRecorded
  <2> USE Types, Constants DEF IInv, Typed
  <2>1. Alive(r) /\ Revoked(r) /\ LeaseKept(r) /\ LastHeld(r) = proc[r].revoked
    BY DEF LeaseInv, Alive, LastHeld, Revoked
  <2>2. now < proc[r].revoked + Wait
    BY <2>1 DEF LeaseKept, Admits, Holds
  <2>3. proc[r].att # mount.att
    BY <2>1 DEF MountInv
  <2> QED BY <2>1, <2>2, <2>3, Told DEF Lingers
<1> QED BY <1>1, RunsInvariant, PTL
=============================================================================

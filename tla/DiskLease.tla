----------------------------- MODULE DiskLease -----------------------------
(***************************************************************************)
(* The disk lease of a process (ursula-runtime, node_fence.rs, DiskLease): *)
(* a pure decision over times that are passed in.  A lease is a record of  *)
(* its length, the end of the last success's lease and the last failure    *)
(* after it; None is no time.                                              *)
(***************************************************************************)
EXTENDS Integers

None == -1

NewLease(length) == [length |-> length, until |-> None, failed |-> None]

Holds(lease, now) == lease.failed = None /\ lease.until # None /\ now < lease.until

\* DiskLease::ended: at the last failure, else at its expiry; None while it
\* holds or before the first success.
Ended(lease, now) ==
  IF lease.until = None THEN None
  ELSE IF lease.failed # None THEN lease.failed
  ELSE IF now >= lease.until THEN lease.until ELSE None

Later(a, b) == IF a >= b THEN a ELSE b

\* Mutant of Succeeded: the lease runs from the answer, not from the start.
SucceededFromAnswer(lease, started, now) ==
  [lease EXCEPT !.until = now + lease.length, !.failed = None]

\* DiskLease::succeeded: a probe that started at `started` synced, seen at
\* `now`.  A success that is too late, or that started before the lease
\* ended, changes nothing.
Succeeded(lease, started, now) ==
  LET until == started + lease.length
      ended == Ended(lease, now)
      tooLate == until <= now \/ (ended # None /\ started < ended)
      extends == lease.until # None /\ ended = None
  IN  IF tooLate THEN lease
      ELSE [lease EXCEPT !.until = IF extends THEN Later(lease.until, until) ELSE until,
                         !.failed = None]

\* DiskLease::failed: the lease ends at once.
Failed(lease, now) == [lease EXCEPT !.failed = now]
=============================================================================

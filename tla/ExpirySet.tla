----------------------------- MODULE ExpirySet -----------------------------
(***************************************************************************)
(* What the stream registry promises of expiry, without its heap: a set of *)
(* live streams with their expiries, from which a sweep at some time takes *)
(* the first expired streams in (expiry, stream) order, a fixed number of  *)
(* them at most and all of them when there are fewer.  Being a function of *)
(* the replicated state and the entry only, it is the same on every        *)
(* replica, restored or replayed.                                          *)
(***************************************************************************)
EXTENDS Integers, FiniteSets

CONSTANTS
  Streams,   \* stream ids, in compare_stream_ids order
  Limit,     \* streams one sweep removes at most
  Times,     \* the clock
  Never      \* the expiry of a stream without one

VARIABLES
  expiry,    \* the expiry of each live stream: a partial function
  removed    \* the streams the last sweep removed

vars == <<expiry, removed>>

Expired(now) == {s \in DOMAIN expiry : expiry[s] # Never /\ expiry[s] <= now}

\* The order in which a sweep takes streams.
Before(s, t) == expiry[s] < expiry[t] \/ (expiry[s] = expiry[t] /\ s < t)

FirstExpired(now) ==
  {s \in Expired(now) : Cardinality({t \in Expired(now) : Before(t, s)}) < Limit}

Init == expiry = [s \in {} |-> Never] /\ removed = {}

\* A stream appears, possibly over an expired one, or is renewed.
Put(s, at) ==
  /\ expiry' = [t \in DOMAIN expiry \cup {s} |-> IF t = s THEN at ELSE expiry[t]]
  /\ removed' = {}

Remove(s) ==
  /\ s \in DOMAIN expiry
  /\ expiry' = [t \in DOMAIN expiry \ {s} |-> expiry[t]]
  /\ removed' = {}

Sweep(now) ==
  /\ removed' = FirstExpired(now)
  /\ expiry' = [t \in DOMAIN expiry \ removed' |-> expiry[t]]

Next ==
  \/ \E s \in Streams : Remove(s) \/ \E at \in Times \cup {Never} : Put(s, at)
  \/ \E now \in Times : Sweep(now)

Spec == Init /\ [][Next]_vars
=============================================================================

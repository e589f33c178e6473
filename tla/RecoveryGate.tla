---------------------------- MODULE RecoveryGate ----------------------------
(***************************************************************************)
(* The recovery gate of the replicas of one raft group, and the plan that  *)
(* an operator sends when a majority is gated (ursula-raft, rejoin.rs,     *)
(* rejoin/barrier.rs, history.rs, replica.rs and log_store/file.rs;        *)
(* ursula-ctl, recovery.rs).  A host crash may cost a replica any records  *)
(* its journal did not sync, acknowledged ones included; a wiped disk      *)
(* costs it its vote too.  Such a replica is gated: it neither votes nor   *)
(* campaigns until it applied a barrier of a leader a quorum confirmed, or *)
(* a recovery plan elects a leader and starts a new history.               *)
(*                                                                         *)
(* OpenRaft is external: votes ordered by (term, node), log ids with the   *)
(* leader's node, an append that carries the leader's log up to some       *)
(* entry, and commitment of an entry of the leader's own term by a         *)
(* majority.  A call and its answer are one step, except that the leader   *)
(* counts an acknowledgement later (match), whatever became of the replica *)
(* that gave it.  A replica that is down or out of reach takes no step; a  *)
(* crash and the start after it are one step for that reason.              *)
(*                                                                         *)
(* A host crash leaves the log as some record of the journal since its     *)
(* last sync left it, under fsync = never: a prefix of the log down to the *)
(* synced entries, or of a tail that a later record truncated (tails).     *)
(* Votes, log states and plans are in the metadata file, always synced.    *)
(***************************************************************************)
EXTENDS Integers, Sequences, FiniteSets, FiniteSetsExt, SequencesExt

CONSTANTS Replica,     \* node ids
          MaxWrites,   \* bound on client writes
          Budgets      \* bounds of a behaviour: how many campaigns of each
                       \* replica, restarts, lost disks and plans, whom the
                       \* operator's tool reaches, the length of a log, which
                       \* replicas fail, and how runs end

ASSUME GateConstants ==
  /\ IsFiniteSet(Replica) /\ Replica \subseteq Nat \ {0} /\ Replica # {}
  /\ MaxWrites \in Nat
  /\ Budgets \subseteq
       [campaigns : [Replica -> Nat], restarts : Nat, wipes : Nat, plans : Nat,
        reached : SUBSET SUBSET Replica, len : Nat \ {0}, faulty : SUBSET Replica,
        crashes : SUBSET {"stop", "kill", "host"}]

VARIABLES log, commit,            \* the log and its marker
          synced, tails,          \* what a host crash may leave of it
          vote, state, plan,      \* the metadata file
          gate, target, role,     \* volatile: VoteGate, CatchUpTarget, server state
          match, grants,          \* a leader's progress, a candidate's votes
          tool,                   \* the operator's tool
          acked, writes, budget   \* what was answered, and what the bounds still allow
vars == <<log, commit, synced, tails, vote, state, plan, gate, target, role, match,
          grants, tool, acked, writes, budget>>

disks == <<log, commit, synced, tails>>
meta == <<vote, state, plan>>
elections == <<match, grants>>
ghosts == <<acked, writes, budget>>

None == -1
NoPlan == [leader |-> 0, point |-> 0, term |-> 0]
NoTarget == [v |-> <<0, 0, 0>>, i |-> 0]
NoTool == [leader |-> 0, point |-> 0, cut |-> FALSE, highest |-> 0, term |-> 0, seen |-> <<>>]

-----------------------------------------------------------------------------
(* Votes and logs. *)

\* A vote <<term, node, committed>>, ordered lexicographically.
NoVote == <<0, 0, 0>>
Before(v, w) ==
  \/ v[1] < w[1]
  \/ v[1] = w[1] /\ v[2] < w[2]
  \/ v[1] = w[1] /\ v[2] = w[2] /\ v[3] < w[3]
AtMost(v, w) == v = w \/ Before(v, w)
Later(v, w) == IF Before(v, w) THEN w ELSE v

\* An entry: its log id's leader, a write's number, and for a history event
\* the last index it kept.
Entry(v, write, kept) == [t |-> v[1], n |-> v[2], write |-> write, kept |-> kept]
IsEvent(e) == e.kept # None
Genesis == Entry(<<1, Min(Replica)>>, 0, 0)

Prefix(s, n) == SubSeq(s, 1, n)
LastTerm(s) == IF s = <<>> THEN 0 ELSE Last(s).t
\* The log id of the last entry, as an election compares it.
LastId(s) == IF s = <<>> THEN <<0, 0, 0>> ELSE <<Last(s).t, Last(s).n, Len(s)>>

\* The index of the last history event among the first n entries, 0 if none.
EventIndex(s, n) == Max({0} \cup {i \in 1 .. n : IsEvent(s[i])})

IsQuorum(Q) == 2 * Cardinality(Q) > Cardinality(Replica)

\* history_pending: a plan is held, or no genesis applied.
Pending(r) == plan[r] # NoPlan \/ EventIndex(log[r], commit[r]) = 0

-----------------------------------------------------------------------------
(* The gate: VoteGate. *)

\* VoteGate::planned.
PlannedGate(r, record) == IF record.leader = r THEN "leads" ELSE "planned"

\* Mutant of TakesReplicationAt: a plan fences no leader.
TakesReplicationAtAny(r, term) == TRUE

\* VoteGate::takes_replication_at.
TakesReplicationAt(r, term) ==
  gate[r] \in {"planned", "leads"} => term > plan[r].term

\* VoteGate::screen, of a candidate's vote v and log s.
Screen(r, c, v, s) ==
  \/ gate[r] = "open"
  \/ /\ gate[r] = "planned" /\ plan[r].leader = c
     /\ v[1] > plan[r].term
     /\ ~(Len(s) > plan[r].point /\ LastTerm(s) <= plan[r].term)

\* GroupRejoin::may_campaign.
MayCampaign(r) == gate[r] \in {"open", "leads"} /\ vote[r] # NoVote


\* GroupRejoin::committed_overwrite, of an append of the first n entries of s.
CommittedOverwrite(r, s, n) ==
  \E i \in 1 .. Min({n, commit[r]}) : s[i].t # log[r][i].t \/ s[i].n # log[r][i].n

NoMatch == [s \in Replica |-> 0]

\* Mutant of Follow: a leader that saves another's vote leads on.
FollowLeads(R, v) ==
  /\ vote' = [r \in Replica |-> IF r \in R THEN v ELSE vote[r]]
  /\ role' = role

\* The replicas of R save the vote v, and follow.
Follow(R, v) ==
  /\ vote' = [r \in Replica |-> IF r \in R THEN v ELSE vote[r]]
  /\ role' = [r \in Replica |-> IF r \in R THEN "follower" ELSE role[r]]

\* What they led or campaigned for is over.
StepDown(R) ==
  /\ match' = [r \in Replica |-> IF r \in R THEN NoMatch ELSE match[r]]
  /\ grants' = [r \in Replica |-> IF r \in R THEN {} ELSE grants[r]]

\* check_recovery_vote: the floor, and the fence of a plan.
AdmitsLeader(r, l) ==
  /\ vote[r] # NoVote /\ AtMost(vote[r], vote[l])
  /\ TakesReplicationAt(r, vote[l][1])

-----------------------------------------------------------------------------
(* The journal. *)

\* A record that leaves the log at s, and is not synced: what it truncates
\* may come back (of no interest once the bounds allow no crash).
Writes(r, s) ==
  LET shared == Max({0} \cup {n \in 1 .. Len(s) : IsPrefix(Prefix(s, n), log[r])})
      returns == shared < Len(log[r]) /\ r \in budget.faulty /\ budget.restarts > 0
  IN /\ log' = [log EXCEPT ![r] = s]
     /\ synced' = [synced EXCEPT ![r] = Min({@, shared})]
     /\ tails' = [tails EXCEPT ![r] = IF returns THEN @ \cup {log[r]} ELSE @]

\* A record after which the log is s, and the sync of it.
Syncs(r, s) ==
  /\ log' = [log EXCEPT ![r] = s]
  /\ synced' = [synced EXCEPT ![r] = Len(s)]
  /\ tails' = [tails EXCEPT ![r] = {}]

\* What a host crash may leave.
Survivors(r) ==
  {Prefix(log[r], n) : n \in synced[r] .. Len(log[r])}
    \cup UNION {{Prefix(s, n) : n \in synced[r] .. Len(s)} : s \in tails[r]}

-----------------------------------------------------------------------------
(* The group: a leader writes, replicates and commits. *)

Init ==
  LET first == Min(Replica) IN
  /\ log = [r \in Replica |-> <<Genesis>>]
  /\ synced = [r \in Replica |-> 1]
  /\ tails = [r \in Replica |-> {}]
  /\ commit = [r \in Replica |-> 1]
  /\ vote = [r \in Replica |-> <<1, first, 1>>]
  /\ state = [r \in Replica |-> "Initialized"]
  /\ plan = [r \in Replica |-> NoPlan]
  /\ gate = [r \in Replica |-> "open"]
  /\ target = [r \in Replica |-> NoTarget]
  /\ role = [r \in Replica |-> IF r = first THEN "leader" ELSE "follower"]
  /\ match = [r \in Replica |-> IF r = first THEN [s \in Replica |-> 1] ELSE NoMatch]
  /\ grants = [r \in Replica |-> {}]
  /\ tool = NoTool
  /\ acked = {}
  /\ writes = 0
  /\ budget \in Budgets

\* A leader whose history is not pending takes a client's write.  The entry
\* goes to its followers while its own journal writes it.
Propose(l) ==
  /\ role[l] = "leader" /\ ~Pending(l)
  /\ writes < MaxWrites /\ Len(log[l]) < budget.len
  /\ writes' = writes + 1
  /\ Writes(l, Append(log[l], Entry(vote[l], writes', None)))
  /\ UNCHANGED <<commit, meta, gate, target, role, elections, tool, acked, budget>>

\* How much of its log a leader sends: one entry more than r shares, or all.
SentLengths(l, r) ==
  LET shared == {i \in 1 .. Min({Len(log[l]), Len(log[r])}) : log[l][i] # log[r][i]}
      first == IF shared = {} THEN Len(log[r]) + 1 ELSE Min(shared)
  IN {Min({first, Len(log[l])}), Len(log[l])}

\* Replica::append_entries: r takes the leader's first n entries.  The first
\* entry on a gated replica that held nothing records it recovering.
AppendEntries(l, r) ==
  /\ role[l] = "leader" /\ r # l
  /\ AdmitsLeader(r, l)
  /\ \E n \in SentLengths(l, r) :
       LET sent == Prefix(log[l], n)
           kept == IF IsPrefix(sent, log[r]) THEN log[r] ELSE sent
           new == <<kept, Max({commit[r], Min({commit[l], n})}), vote[l],
                    Max({match[l][r], n})>>
       IN /\ ~CommittedOverwrite(r, log[l], n)
          /\ new # <<log[r], commit[r], vote[r], match[l][r]>>
          /\ IF kept = log[r] THEN UNCHANGED <<log, synced, tails>> ELSE Writes(r, kept)
          /\ commit' = [commit EXCEPT ![r] = new[2]]
          /\ match' = [match EXCEPT ![l][r] = new[4], ![r] = NoMatch]
  /\ Follow({r}, vote[l])
  /\ grants' = [grants EXCEPT ![r] = {}]
  /\ state' = [state EXCEPT ![r] = IF @ = "Empty" THEN "Recovering" ELSE @]
  /\ UNCHANGED <<plan, gate, target, tool, ghosts>>

\* The leader counts the acknowledgements it got, its own journal's among
\* them once it wrote the entry, and answers.
Commit(l) ==
  /\ role[l] = "leader"
  /\ \E i \in commit[l] + 1 .. Len(log[l]), written \in BOOLEAN :
       /\ log[l][i].t = vote[l][1] /\ log[l][i].n = vote[l][2]
       /\ match' = IF written THEN [match EXCEPT ![l][l] = Max({@, i})] ELSE match
       /\ IsQuorum({r \in Replica : match'[l][r] >= i})
       /\ commit' = [commit EXCEPT ![l] = i]
       /\ acked' = acked \cup {[i |-> j, e |-> log[l][j], v |-> vote[l]] :
                                 j \in commit[l] + 1 .. i}
  /\ UNCHANGED <<log, synced, tails, meta, gate, target, role, grants, tool, writes, budget>>

-----------------------------------------------------------------------------
(* Elections. *)

Campaign(c) ==
  /\ role[c] # "leader" /\ MayCampaign(c)
  /\ budget.campaigns[c] > 0
  /\ budget' = [budget EXCEPT !.campaigns[c] = @ - 1]
  /\ vote' = [vote EXCEPT ![c] = <<@[1] + 1, c, 0>>]
  /\ role' = [role EXCEPT ![c] = "candidate"]
  /\ grants' = [grants EXCEPT ![c] = {c}]
  /\ UNCHANGED <<disks, state, plan, gate, target, match, tool, acked, writes>>

\* Replica::vote: the floor and the gate's screen, then OpenRaft's.
GrantVote(c, r) ==
  /\ role[c] = "candidate" /\ r # c
  /\ vote[r] # NoVote /\ Before(vote[r], vote[c])
  /\ Screen(r, c, vote[c], log[c])
  /\ AtMost(LastId(log[r]), LastId(log[c]))
  /\ Follow({r}, vote[c])
  /\ grants' = [grants EXCEPT ![r] = {}, ![c] = @ \cup {r}]
  /\ match' = [match EXCEPT ![r] = NoMatch]
  /\ UNCHANGED <<disks, state, plan, gate, target, tool, ghosts>>

\* A majority granted the vote: the leader appends its blank entry.
BecomeLeader(c) ==
  /\ role[c] = "candidate" /\ IsQuorum(grants[c]) /\ Len(log[c]) < budget.len
  /\ vote' = [vote EXCEPT ![c][3] = 1]
  /\ role' = [role EXCEPT ![c] = "leader"]
  /\ grants' = [grants EXCEPT ![c] = {}]
  /\ match' = [match EXCEPT ![c] = [NoMatch EXCEPT ![c] = Len(log[c])]]
  /\ Writes(c, Append(log[c], Entry(vote[c], 0, None)))
  /\ UNCHANGED <<commit, state, plan, gate, target, tool, ghosts>>

-----------------------------------------------------------------------------
(* A gated replica rejoins. *)

\* confirm_recovery_barrier: the read index, or the leader's last entry,
\* which a late acknowledgement of a dead process may still commit.
BarrierIndex(l) == Max({commit[l], Len(log[l])})

\* run_recovery_gate's probe and confirm_recovery_barrier: replica q proves
\* that l still leads, and r, which follows l or lost its vote, takes l's
\* last index as what it must apply.  A replica without a vote answers no
\* leader, and adopts the proven vote as its floor.
Barrier(r, l, q) ==
  /\ gate[r] \in {"closed", "catchup"}
  /\ role[l] = "leader" /\ l # r /\ ~Pending(l)
  /\ vote[r] \in {NoVote, vote[l]}
  /\ q # l /\ AdmitsLeader(q, l)
  /\ Follow({q, r}, vote[l]) /\ StepDown({q, r})
  /\ LET moves == gate[r] = "catchup" /\ target[r].v = vote[l]
         index == IF moves THEN Max({target[r].i, BarrierIndex(l)}) ELSE BarrierIndex(l)
     IN target' = [target EXCEPT ![r] = [v |-> vote[l], i |-> index]]
  /\ gate' = [gate EXCEPT ![r] = "catchup"]
  /\ <<gate', target', vote', role'>> # <<gate, target, vote, role>>
  /\ UNCHANGED <<disks, state, plan, tool, ghosts>>

\* GroupRejoin::try_open and open.
TryOpen(r) ==
  /\ gate[r] = "catchup" /\ vote[r] # NoVote
  /\ commit[r] >= target[r].i
  /\ gate' = [gate EXCEPT ![r] = "open"]
  /\ target' = [target EXCEPT ![r] = NoTarget]
  /\ state' = [state EXCEPT ![r] = IF @ = "Recovering" THEN "Initialized" ELSE @]
  /\ UNCHANGED <<disks, vote, plan, role, elections, tool, ghosts>>

\* VoteGate::stall: nothing applied for the stall timeout, and the target is
\* dropped.  A closed gate without one may have stalled at any time.
Stall(r) ==
  /\ gate[r] = "catchup" /\ budget.plans > 0
  /\ gate' = [gate EXCEPT ![r] = "closed"]
  /\ target' = [target EXCEPT ![r] = NoTarget]
  /\ UNCHANGED <<disks, meta, role, elections, tool, ghosts>>

-----------------------------------------------------------------------------
(* Starts: GroupRejoin::durable. *)

\* start_as_follower: a committed vote for itself becomes uncommitted.
StartAsFollower(r, v) == IF v[2] = r THEN <<v[1], v[2], 0>> ELSE v

\* Mutant of StartGate: a replica that may have lost entries votes.
StartGateOpen(r, record, held) == IF record # NoPlan THEN PlannedGate(r, record) ELSE "open"

\* The gate a start gives a replica with this record and log state.
StartGate(r, record, held) ==
  CASE record # NoPlan /\ held = "Recovering" ->
         IF record.leader = r THEN "closed" ELSE "planned"
    [] record # NoPlan /\ held # "Recovering" -> PlannedGate(r, record)
    [] record = NoPlan -> IF held = "Initialized" THEN "open" ELSE "closed"

\* Mutant of StartVote: a killed leader resumes its leadership.
StartVoteResumes(r, record, held, clean) == vote[r]

\* The vote a start gives it: a leadership ends over an unclean run, a plan
\* and a recovering log, and a plan's leader starts at the plan term.
StartVote(r, record, held, clean) ==
  LET v == IF clean /\ record = NoPlan /\ held # "Recovering"
           THEN vote[r] ELSE StartAsFollower(r, vote[r])
  IN IF record # NoPlan /\ held # "Recovering" /\ record.leader = r
     THEN Later(v, <<record.term, r, 0>>) ELSE v

\* A start.  OpenRaft restores a replica with a committed vote for itself
\* as the leader of that vote.
Starts(r, s, marker, record, held, clean) ==
  LET v == StartVote(r, record, held, clean)
      leads == v[2] = r /\ v[3] = 1
  IN /\ commit' = [commit EXCEPT ![r] = marker]
     /\ vote' = [vote EXCEPT ![r] = v]
     /\ state' = [state EXCEPT ![r] = held]
     /\ plan' = [plan EXCEPT ![r] = record]
     /\ gate' = [gate EXCEPT ![r] = StartGate(r, record, held)]
     /\ target' = [target EXCEPT ![r] = NoTarget]
     /\ role' = [role EXCEPT ![r] = IF leads THEN "leader" ELSE "follower"]
     /\ grants' = [grants EXCEPT ![r] = {}]
     /\ match' = [match EXCEPT ![r] = IF leads THEN [NoMatch EXCEPT ![r] = Len(s)]
                                      ELSE NoMatch]

Restarted(r, how) ==
  /\ r \in budget.faulty /\ how \in budget.crashes /\ budget.restarts > 0
  /\ budget' = [budget EXCEPT !.restarts = @ - 1]

\* The process ends cleanly, its journal written.
Stop(r) ==
  /\ Restarted(r, "stop")
  /\ Starts(r, log[r], commit[r], plan[r], state[r], TRUE)
  /\ UNCHANGED <<log, synced, tails, tool, acked, writes>>

\* The process is killed: entries a leader sent before its own journal wrote
\* them are gone, whatever its followers hold.
Kill(r) ==
  /\ Restarted(r, "kill")
  /\ LET written == IF role[r] = "leader" THEN Max({match[r][r], synced[r]})
                    ELSE Len(log[r])
     IN \E n \in written .. Len(log[r]) :
          /\ Starts(r, Prefix(log[r], n), Min({commit[r], n}), plan[r], state[r], FALSE)
          /\ log' = [log EXCEPT ![r] = Prefix(@, n)]
  /\ UNCHANGED <<synced, tails>>
  /\ UNCHANGED <<tool, acked, writes>>

\* The host crashes: the journal is any of the states since its last sync,
\* the marker an earlier one, and mark_recovering gates the replica.
HostCrash(r) ==
  /\ Restarted(r, "host")
  /\ \E s \in Survivors(r) : \E marker \in Min({1, commit[r]}) .. Min({commit[r], Len(s)}) :
       /\ Prefix(s, marker) = Prefix(log[r], marker)
       /\ Starts(r, s, marker, plan[r],
                 IF state[r] = "Initialized" THEN "Recovering" ELSE state[r], FALSE)
       /\ Syncs(r, s)
  /\ UNCHANGED <<tool, acked, writes>>

\* The disk is lost: the replica starts with nothing, not even its vote.
Wipe(r) ==
  /\ r \in budget.faulty /\ budget.wipes > 0
  /\ budget' = [budget EXCEPT !.wipes = @ - 1]
  /\ Syncs(r, <<>>)
  /\ commit' = [commit EXCEPT ![r] = 0]
  /\ state' = [state EXCEPT ![r] = "Empty"]
  /\ plan' = [plan EXCEPT ![r] = NoPlan]
  /\ gate' = [gate EXCEPT ![r] = "closed"]
  /\ target' = [target EXCEPT ![r] = NoTarget]
  /\ Follow({r}, NoVote) /\ StepDown({r})
  /\ UNCHANGED <<tool, acked, writes>>

-----------------------------------------------------------------------------
(* The operator's tool: plan_group, send_plan and send_follows. *)

\* What an election compares, terms only, and the node id.
Longer(r, s) ==
  Before(<<LastTerm(log[s]), Len(log[s]), s>>, <<LastTerm(log[r]), Len(log[r]), r>>)

FurthestCommit(r, s) == Before(<<commit[s], s, 0>>, <<commit[r], r, 0>>)

\* PlanMember::restricted.
Restricted(r) == gate[r] # "open" \/ plan[r] # NoPlan

\* What a plan expects of a member: ReplicaLog.
ReplicaLog(r) == [len |-> Len(log[r]), last |-> LastTerm(log[r]), term |-> vote[r][1]]

\* next_step: nobody leads above the plans the tool knows of.
MayPlan(S) ==
  LET known == {plan[r].term : r \in S} \cup {tool.term}
  IN Max(known) = 0 \/ \A r \in S : role[r] = "leader" => vote[r][1] <= Max(known)

\* Mutant of StalePossible: the longest log always leads as it is.
StaleNever(longest, floor) == FALSE

\* A leader above the longest log's last term may have replaced its tail.
StalePossible(longest, floor) == LastTerm(log[longest]) < floor

\* The tool reaches S and plans.  The longest log leads and keeps every
\* entry, unless a gated replica's vote is above its last term: a later
\* leader may have replaced its tail, and every log ends at its marker.  An
\* operator plans for a group some replica of which is gated.
MakePlan(S) ==
  LET planned == {r \in S : vote[r] # NoVote}
      longest == CHOOSE r \in planned : \A s \in planned \ {r} : Longer(r, s)
      known == CHOOSE r \in planned : \A s \in planned \ {r} : FurthestCommit(r, s)
      floor == Max({0} \cup {vote[r][1] : r \in {s \in planned : Restricted(s)}})
      cut == StalePossible(longest, floor)
      leader == IF cut THEN known ELSE longest
      point == IF cut THEN commit[known] ELSE Len(log[longest])
  IN /\ budget.plans > 0
     /\ IsQuorum(planned) /\ MayPlan(S) /\ \E r \in S : Restricted(r)
     /\ \A r \in planned : gate[r] # "catchup"
     /\ \A r \in S : commit[r] <= point
     /\ tool' = [leader |-> leader, point |-> point, cut |-> cut,
                 highest |-> Max({vote[r][1] : r \in planned}), term |-> 0,
                 seen |-> [r \in planned |-> ReplicaLog(r)]]
     /\ budget' = [budget EXCEPT !.plans = @ - 1]
     /\ UNCHANGED <<disks, meta, gate, target, role, elections, acked, writes>>

\* accept_recovery_plan's checks, of the leader and of a member: the gate
\* does not wait for a barrier, the log is the one the tool saw, and so is
\* the term of a replica that does not campaign.
Unchanged(r) ==
  LET seen == tool.seen[r] IN
  /\ gate[r] # "catchup" /\ vote[r] # NoVote
  /\ [ReplicaLog(r) EXCEPT !.term = seen.term] = seen
  /\ gate[r] \in {"open", "leads"} \/ vote[r][1] = seen.term
  /\ commit[r] <= tool.point
  /\ tool.cut => commit[r] > 0

\* take_plan: the plan and the accepted log in one synced write, then a
\* restart for a cut or a demotion, which runs the cut.
TakePlan(r, record, restart) ==
  LET kept == IF tool.cut THEN Prefix(log[r], commit[r]) ELSE log[r]
      held == IF state[r] = "Recovering" THEN "Initialized" ELSE state[r]
  IN /\ Syncs(r, kept)
     /\ IF restart
        THEN Starts(r, kept, commit[r], record, held, TRUE)
        ELSE /\ state' = [state EXCEPT ![r] = held]
             /\ plan' = [plan EXCEPT ![r] = record]
             /\ gate' = [gate EXCEPT ![r] = PlannedGate(r, record)]
             /\ target' = [target EXCEPT ![r] = NoTarget]
             /\ UNCHANGED <<commit, vote, role, elections>>

\* The plan's leader takes it, and answers the plan term.
TakeLead(r) ==
  /\ tool.leader = r /\ tool.term = 0
  /\ Unchanged(r)
  /\ tool.point = IF tool.cut THEN commit[r] ELSE Len(log[r])
  /\ LET term == Max({tool.highest, vote[r][1]})
     IN /\ TakePlan(r, [leader |-> r, point |-> tool.point, term |-> term],
                    tool.cut \/ role[r] # "follower" \/ vote[r][1] < term)
        /\ tool' = [tool EXCEPT !.term = term]
  /\ UNCHANGED ghosts

\* Another member takes it, at the term the leader answered.
TakeFollow(r) ==
  /\ tool.term > 0 /\ r \in DOMAIN tool.seen \ {tool.leader}
  /\ Unchanged(r) /\ tool.seen[r].term <= tool.term
  /\ LET record == [leader |-> tool.leader, point |-> tool.point, term |-> tool.term]
     IN /\ plan[r] # record
        /\ TakePlan(r, record, tool.cut \/ role[r] = "leader")
  /\ UNCHANGED <<tool, ghosts>>

-----------------------------------------------------------------------------
(* The history driver. *)

\* plan_satisfied: a history event above the point applied.
Satisfied(r) == EventIndex(log[r], commit[r]) > plan[r].point

\* A leader elected under its plan that applied its whole log, an entry of
\* its own term the last, proposes the plan's history event.
ProposeHistory(l) ==
  /\ role[l] = "leader" /\ plan[l] # NoPlan /\ ~Satisfied(l)
  /\ vote[l][1] > plan[l].term
  /\ commit[l] = Len(log[l]) /\ LastTerm(log[l]) = vote[l][1]
  /\ Len(log[l]) < budget.len
  /\ Writes(l, Append(log[l], Entry(vote[l], 0, plan[l].point)))
  /\ UNCHANGED <<commit, meta, gate, target, role, elections, tool, ghosts>>

\* retire_recovery_plan: the satisfied plan's record goes, and a gate that
\* holds the plan opens, or closes over a log that a crash left recovering.
RetirePlan(r) ==
  /\ plan[r] # NoPlan /\ Satisfied(r)
  /\ plan' = [plan EXCEPT ![r] = NoPlan]
  /\ Syncs(r, log[r])
  /\ LET holds == gate[r] \in {"planned", "leads"}
         after == IF state[r] = "Recovering" THEN "closed" ELSE "open"
     IN gate' = [gate EXCEPT ![r] = IF holds THEN after ELSE @]
  /\ UNCHANGED <<commit, vote, state, target, role, elections, tool, ghosts>>

-----------------------------------------------------------------------------
Next ==
  \/ \E r \in Replica :
       \/ Propose(r) \/ Commit(r) \/ Campaign(r) \/ BecomeLeader(r)
       \/ TryOpen(r) \/ Stall(r) \/ Stop(r) \/ Kill(r) \/ HostCrash(r) \/ Wipe(r)
       \/ TakeLead(r) \/ TakeFollow(r) \/ ProposeHistory(r) \/ RetirePlan(r)
  \/ \E r, s \in Replica :
       \/ GrantVote(r, s) \/ AppendEntries(r, s)
       \/ \E q \in Replica : Barrier(r, s, q)
  \/ \E S \in budget.reached : MakePlan(S)

Spec == Init /\ [][Next]_vars

-----------------------------------------------------------------------------
(* Properties. *)

Votes == Nat \X ({0} \cup Replica) \X {0, 1}
Entries == [t : Nat, n : Replica, write : 0 .. MaxWrites, kept : {None} \cup Nat]

TypeOK ==
  /\ \A r \in Replica :
       /\ log[r] \in Seq(Entries) /\ Len(log[r]) <= budget.len
       /\ synced[r] \in 0 .. Len(log[r])
       /\ \A s \in tails[r] : s \in Seq(Entries) /\ Len(s) >= synced[r]
       /\ commit[r] \in 0 .. Len(log[r])
       /\ vote[r] \in Votes
       /\ state[r] \in {"Empty", "Initialized", "Recovering"}
       /\ state[r] = "Empty" <=> log[r] = <<>>
       /\ gate[r] \in {"open", "closed", "catchup", "planned", "leads"}
       /\ gate[r] \in {"planned", "leads"} => plan[r] # NoPlan
       /\ gate[r] = "catchup" <=> target[r] # NoTarget
       /\ role[r] \in {"leader", "candidate", "follower"}
       /\ role[r] = "leader" <=> vote[r][2] = r /\ vote[r][3] = 1
       /\ match[r][r] <= Len(log[r])
       /\ grants[r] \subseteq Replica

\* An acknowledged entry at the replica's index, and one an accepted loss
\* took: the replica holds a later history event that kept less.
HoldsAcked(r, a) == a.i <= Len(log[r]) /\ log[r][a.i] = a.e
Replaced(r, a) ==
  \E j \in 1 .. Len(log[r]) :
    /\ IsEvent(log[r][j]) /\ log[r][j].kept < a.i
    /\ Before(a.v, <<log[r][j].t, log[r][j].n, 1>>)

\* A leader that serves holds every entry a leader at or before it
\* acknowledged, unless a recovery plan's history event in its log says that
\* the entry was given up, although hosts crash with unsynced journals, disks
\* are lost and acknowledgements arrive late (rejoin.rs, the vote gate).
AckedKept ==
  \A l \in Replica : \A a \in acked :
    role[l] = "leader" /\ plan[l] = NoPlan /\ AtMost(a.v, vote[l])
      => HoldsAcked(l, a) \/ Replaced(l, a)

\* No log id names two entries: a leader that lost entries it had sent never
\* writes others under their ids (prevent_crashed_leader_resume).
LogIdsUnique ==
  \A r, s \in Replica : r < s => \A i \in DOMAIN log[r] \cap DOMAIN log[s] :
    log[r][i].t = log[s][i].t /\ log[r][i].n = log[s][i].n => log[r][i] = log[s][i]

\* Two replicas' committed entries differ only above the point of a recovery
\* plan that is held, or whose history event is (committed_overwrite).
CommittedAgree ==
  \A r, s \in Replica : r < s =>
  \A i \in (1 .. commit[r]) \cap (1 .. commit[s]) :
    log[r][i] = log[s][i]
    \/ \E q \in Replica :
         \/ plan[q] # NoPlan /\ plan[q].point < i
         \/ \E j \in 2 .. Len(log[q]) : IsEvent(log[q][j]) /\ log[q][j].kept < i

\* A plan's history event names the end of the history it replaces: no client
\* write of that history is above the index it kept, so that no token of it
\* serves an entry the event gave up (the plan's replication fence and log
\* guard; ursula-stream, history.rs).
KeptTrue ==
  \A r \in Replica : \A j \in 2 .. Len(log[r]) :
    IsEvent(log[r][j]) => \A i \in log[r][j].kept + 1 .. j : log[r][i].write = 0
=============================================================================

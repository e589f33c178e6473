------------------------- MODULE RecoveryGateProofs -------------------------
(* What the recovery gate keeps of every replica, and that no log id names  *)
(* two entries, for any group, budget of faults and number of writes.       *)
EXTENDS RecoveryGate, FiniteSetTheorems, SequenceTheorems, WellFoundedInduction, TLAPS

-----------------------------------------------------------------------------
(* The inductive invariant: the state of each replica. *)

Plans == [leader : {0} \cup Replica, point : Nat, term : Nat]

BudgetType ==
  [campaigns : [Replica -> Nat], restarts : Nat, wipes : Nat, plans : Nat,
   reached : SUBSET SUBSET Replica, len : Nat \ {0}, faulty : SUBSET Replica,
   crashes : SUBSET {"stop", "kill", "host"}]

Types ==
  /\ log \in [Replica -> Seq(Entries)]
  /\ commit \in [Replica -> Nat]
  /\ synced \in [Replica -> Nat]
  /\ tails \in [Replica -> SUBSET Seq(Entries)]
  /\ vote \in [Replica -> Votes]
  /\ state \in [Replica -> {"Empty", "Initialized", "Recovering"}]
  /\ plan \in [Replica -> Plans]
  /\ gate \in [Replica -> {"open", "closed", "catchup", "planned", "leads"}]
  /\ target \in [Replica -> [v : Votes, i : Nat]]
  /\ role \in [Replica -> {"leader", "candidate", "follower"}]
  /\ match \in [Replica -> [Replica -> Nat]]
  /\ grants \in [Replica -> SUBSET Replica]
  /\ writes \in 0 .. MaxWrites
  /\ budget \in BudgetType

\* The journal holds what its marker, its syncs and its tails say.
DiskOK(r) ==
  /\ Len(log[r]) <= budget.len
  /\ synced[r] <= Len(log[r])
  /\ \A s \in tails[r] : Len(s) >= synced[r] /\ Len(s) <= budget.len
  /\ log[r] = <<>> => tails[r] = {}
  /\ commit[r] <= Len(log[r])
  /\ log[r] # <<>> => commit[r] >= 1
  /\ state[r] = "Empty" <=> log[r] = <<>>

\* Who campaigns or leads does so under a vote for itself, over some log.
VoteOK(r) ==
  /\ vote[r] # NoVote => vote[r][1] >= 1
  /\ role[r] = "leader" <=> vote[r][2] = r /\ vote[r][3] = 1
  /\ role[r] = "candidate" => vote[r][2] = r
  /\ role[r] # "follower" => log[r] # <<>>
  /\ plan[r] # NoPlan => vote[r] # NoVote
  /\ match[r][r] <= Len(log[r])
  /\ role[r] = "leader" => match[r][r] >= 1

\* A gate that lets a replica campaign is that of one with a log.
GateOK(r) ==
  /\ gate[r] \in {"planned", "leads"} => plan[r] # NoPlan
  /\ gate[r] = "leads" => plan[r].leader = r
  /\ gate[r] = "open" \/ plan[r].leader = r => log[r] # <<>>
  /\ gate[r] = "catchup" <=> target[r] # NoTarget
  /\ gate[r] = "catchup" => target[r].i >= 1

\* A plan that cuts nothing is led by a replica with a log.
ToolOK ==
  /\ tool = [leader |-> tool.leader, point |-> tool.point, cut |-> tool.cut,
             highest |-> tool.highest, term |-> tool.term, seen |-> tool.seen]
  /\ tool.highest \in Nat /\ tool.term \in Nat
  /\ tool.term # 0 => tool.leader \in Replica /\ tool.point \in Nat
  /\ tool.term = 0 /\ tool.leader \in Replica /\ ~tool.cut => tool.point # 0

\* Where no disk is lost, every replica keeps a vote.
NoWipes == \A b \in Budgets : b.wipes = 0
FloorOK == NoWipes => budget.wipes = 0 /\ \A r \in Replica : vote[r] # NoVote

ReplicaOK(r) == DiskOK(r) /\ VoteOK(r) /\ GateOK(r)

-----------------------------------------------------------------------------
(* The inductive invariant: log ids. *)

\* A vote at or above term t and node n, or a lost one.
Reached(v, t, n) == v = NoVote \/ v[1] > t \/ (v[1] = t /\ v[2] >= n)

\* A majority voted at or above it, as far as disks were kept.
Backed(t, n) == IsQuorum({x \in Replica : Reached(vote[x], t, n)})

\* Every log that is, or may come back.
Held == {log[r] : r \in Replica} \cup UNION {tails[r] : r \in Replica}

\* What an entry at index i says of its leader e.n and of the others: its
\* vote is not below the entry's, it holds the entry while it leads in that
\* term, and never campaigns in it again.
EntryOK(i, e) ==
  /\ Reached(vote[e.n], e.t, e.n)
  /\ role[e.n] = "leader" /\ e.t = vote[e.n][1] => i <= Len(log[e.n]) /\ log[e.n][i] = e
  /\ role[e.n] = "candidate" => e.t # vote[e.n][1]
  /\ Backed(e.t, e.n)

SameId(d, e) == d.t = e.t /\ d.n = e.n
Unique ==
  \A s, u \in Held : \A i \in 1 .. Len(s) :
    i <= Len(u) /\ SameId(s[i], u[i]) => s[i] = u[i]
EntriesOK == \A s \in Held : \A i \in 1 .. Len(s) : EntryOK(i, s[i])
LeadersOK == \A l \in Replica : role[l] = "leader" => Backed(vote[l][1], l)
CandidatesOK ==
  \A c \in Replica : role[c] = "candidate" =>
    \A x \in grants[c] : Reached(vote[x], vote[c][1], c)

Core == Unique /\ EntriesOK /\ LeadersOK /\ CandidatesOK

IInv == Types /\ (\A r \in Replica : ReplicaOK(r)) /\ ToolOK /\ FloorOK /\ Core

-----------------------------------------------------------------------------
(* Numbers, finite sets and majorities. *)

Less == {pair \in Nat \X Nat : pair[1] < pair[2]}

(* Every set of naturals but the empty one has a smallest member. *)
LEMMA SmallestExists ==
    ASSUME NEW S \in SUBSET Nat, S # {}
    PROVE  \E m \in S : \A n \in S : m <= n
<1>1. IsWellFoundedOn(Less, Nat)
  BY NatLessThanWellFounded DEF OpToRel, Less
<1>2. PICK m \in S : \A n \in S : ~(<<n, m>> \in Less)
  BY <1>1, WFMin
<1>3. ASSUME NEW n \in S PROVE m <= n
  <2>1. n \in Nat /\ m \in Nat
    OBVIOUS
  <2>2. <<n, m>> \in Nat \X Nat /\ <<n, m>>[1] = n /\ <<n, m>>[2] = m
    BY <2>1
  <2>3. n < m => <<n, m>> \in Less
    BY <2>2 DEF Less
  <2>. QED
    BY <1>2, <2>1, <2>3
<1>. QED
  BY <1>3

(* Min and Max of two numbers. *)
LEMMA MinMax ==
    ASSUME NEW a \in Int, NEW b \in Int
    PROVE  /\ Min({a, b}) = IF a <= b THEN a ELSE b
           /\ Max({a, b}) = IF a >= b THEN a ELSE b
BY DEF Min, Max

LEMMA MinType ==
    ASSUME NEW S \in SUBSET Nat, S # {}
    PROVE  Min(S) \in S /\ \A n \in S : Min(S) <= n
<1>1. \E m \in S : \A n \in S : m <= n
  BY SmallestExists
<1>. QED
  BY <1>1 DEF Min

(* A function on a finite set takes a largest value: where the fewest       *)
(* members are above.                                                       *)
LEMMA LargestValue ==
    ASSUME NEW S, IsFiniteSet(S), S # {}, NEW f \in [S -> Nat]
    PROVE  \E x \in S : \A y \in S : f[y] <= f[x]
<1> DEFINE Above(x) == {y \in S : f[y] > f[x]}
<1> DEFINE counts == {n \in Nat : \E x \in S : n = Cardinality(Above(x))}
<1>1. ASSUME NEW x \in S
      PROVE  IsFiniteSet(Above(x)) /\ Cardinality(Above(x)) \in Nat
  <2>1. Above(x) \in SUBSET S
    OBVIOUS
  <2>2. IsFiniteSet(Above(x))
    BY <2>1, FS_Subset
  <2>. QED
    BY <2>2, FS_CardinalityType
<1>2. counts \in SUBSET Nat /\ counts # {}
  <2>1. PICK x \in S : TRUE
    OBVIOUS
  <2>2. Cardinality(Above(x)) \in counts
    BY <1>1
  <2>. QED
    BY <2>2
<1>3. PICK m \in counts : \A n \in counts : m <= n
  <2> HIDE DEF counts
  <2>. QED
    BY <1>2, SmallestExists
<1>4. PICK x \in S : m = Cardinality(Above(x))
  BY <1>3
<1>5. ASSUME NEW y \in S, ~(f[y] <= f[x]) PROVE FALSE
  <2>1. f[x] \in Nat /\ f[y] \in Nat /\ f[y] > f[x]
    BY <1>5
  <2>2. y \in Above(x) /\ y \notin Above(y)
    BY <2>1
  <2>3. Above(y) \in SUBSET Above(x)
    <3>1. ASSUME NEW z \in Above(y) PROVE z \in Above(x)
      <4>1. z \in S /\ f[z] \in Nat /\ f[z] > f[y]
        OBVIOUS
      <4>. QED
        BY <2>1, <4>1
    <3>. QED
      BY <3>1
  <2>4. /\ Cardinality(Above(y)) <= Cardinality(Above(x))
        /\ Cardinality(Above(x)) = Cardinality(Above(y)) => Above(x) = Above(y)
    <3>1. IsFiniteSet(Above(x))
      BY <1>1
    <3> HIDE DEF Above
    <3>. QED
      BY <2>3, <3>1, FS_Subset
  <2>5. Cardinality(Above(y)) \in counts
    BY <1>1
  <2>6. m <= Cardinality(Above(y)) /\ m \in Nat /\ Cardinality(Above(y)) \in Nat
    BY <1>1, <1>3, <2>5
  <2>. QED
    BY <1>4, <2>2, <2>4, <2>6
<1>. QED
  BY <1>4, <1>5

(* The largest of the values of a function on a finite set. *)
LEMMA MaxOfValues ==
    ASSUME NEW S, IsFiniteSet(S), S # {}, NEW f \in [S -> Nat]
    PROVE  /\ Max({f[x] : x \in S}) \in {f[x] : x \in S}
           /\ \A x \in S : f[x] <= Max({f[y] : y \in S})
<1>1. PICK x \in S : \A y \in S : f[y] <= f[x]
  BY LargestValue
<1>2. \E m \in {f[y] : y \in S} : \A k \in {f[y] : y \in S} : m >= k
  BY <1>1
<1> DEFINE T == {f[y] : y \in S}
<1>3. T \in SUBSET Nat
  OBVIOUS
<1>4. Max(T) \in T /\ \A k \in T : Max(T) >= k
  <2> HIDE DEF T
  <2>. QED
    BY <1>2 DEF Max, T
<1>. QED
  BY <1>3, <1>4

(* A majority of the replicas, and what it shares with three of them. *)
LEMMA QuorumGrows ==
    ASSUME NEW P \in SUBSET Replica, NEW Q \in SUBSET Replica, IsQuorum(P), P \subseteq Q
    PROVE  IsQuorum(Q)
<1>1. IsFiniteSet(Replica)
  BY GateConstants
<1>2. IsFiniteSet(Q)
  BY <1>1, FS_Subset
<1>3. IsFiniteSet(P) /\ Cardinality(P) <= Cardinality(Q)
  BY <1>2, FS_Subset
<1>. QED
  BY <1>1, <1>2, <1>3, FS_CardinalityType DEF IsQuorum

LEMMA QuorumNonempty ==
    ASSUME NEW P \in SUBSET Replica, IsQuorum(P)
    PROVE  P # {} /\ IsFiniteSet(P)
<1>1. IsFiniteSet(Replica) /\ Cardinality(Replica) \in Nat
  BY GateConstants, FS_CardinalityType
<1>. QED
  BY <1>1, FS_Subset, FS_EmptySet DEF IsQuorum

LEMMA QuorumOfThree ==
    ASSUME Cardinality(Replica) <= 3,
           NEW r \in Replica, NEW l \in Replica, NEW q \in Replica, r # l, q # l, q # r,
           NEW Q \in SUBSET Replica, IsQuorum(Q)
    PROVE  Replica = {r, l, q} /\ (l \in Q \/ q \in Q)
<1>1. IsFiniteSet(Replica) /\ Cardinality(Replica) \in Nat
  BY GateConstants, FS_CardinalityType
<1>2. IsFiniteSet({r}) /\ Cardinality({r}) = 1
  BY FS_Singleton
<1>3. IsFiniteSet({r} \cup {l}) /\ Cardinality({r} \cup {l}) = 2
  BY <1>2, FS_AddElement
<1>4. IsFiniteSet(({r} \cup {l}) \cup {q}) /\ Cardinality(({r} \cup {l}) \cup {q}) = 3
  BY <1>3, FS_AddElement
<1>5. ({r} \cup {l}) \cup {q} \in SUBSET Replica
  OBVIOUS
<1>6. Replica = ({r} \cup {l}) \cup {q} /\ Cardinality(Replica) = 3
  BY <1>1, <1>4, <1>5, FS_Subset
<1>7. ASSUME l \notin Q, q \notin Q PROVE FALSE
  <2>1. Q \in SUBSET {r}
    BY <1>6, <1>7
  <2>2. IsFiniteSet(Q) /\ Cardinality(Q) <= 1
    BY <1>2, <2>1, FS_Subset
  <2>. QED
    BY <1>6, <2>2, FS_CardinalityType DEF IsQuorum
<1>. QED
  BY <1>6, <1>7

LEMMA MaxType ==
    ASSUME NEW S \in SUBSET Nat, IsFiniteSet(S), S # {}
    PROVE  Max(S) \in S /\ \A n \in S : n <= Max(S)
<1> DEFINE f == [x \in S |-> x]
<1>1. f \in [S -> Nat] /\ {f[x] : x \in S} = S /\ \A x \in S : f[x] = x
  OBVIOUS
<1> HIDE DEF f
<1>2. /\ Max({f[x] : x \in S}) \in {f[x] : x \in S}
      /\ \A x \in S : f[x] <= Max({f[y] : y \in S})
  BY <1>1, MaxOfValues
<1>3. \A x \in S : f[x] <= Max(S)
  BY <1>1, <1>2
<1>. QED
  BY <1>1, <1>2, <1>3

LEMMA MaxBelow ==
    ASSUME NEW n \in Nat, NEW S \in SUBSET (1 .. n)
    PROVE  /\ Max({0} \cup S) \in {0} \cup S
           /\ Max({0} \cup S) \in 0 .. n
           /\ \A k \in S : k <= Max({0} \cup S)
<1>1. {0} \cup S \in SUBSET Nat /\ {0} \cup S # {} /\ \A s \in {0} \cup S : s <= n
  OBVIOUS
<1>2. IsFiniteSet({0} \cup S)
  BY <1>1, FS_BoundedSetOfNaturals
<1>3. Max({0} \cup S) \in {0} \cup S /\ \A k \in {0} \cup S : k <= Max({0} \cup S)
  BY <1>1, <1>2, MaxType
<1>4. \A k \in {0} \cup S : k \in 0 .. n
  OBVIOUS
<1>5. Max({0} \cup S) \in 0 .. n
  BY <1>3, <1>4
<1>. QED
  BY <1>3, <1>5

-----------------------------------------------------------------------------
(* Votes. *)

LEMMA ReplicaNat ==
    /\ Replica \subseteq Nat /\ 0 \notin Replica /\ Replica # {} /\ IsFiniteSet(Replica)
BY GateConstants

LEMMA VoteType ==
    ASSUME NEW v \in Votes
    PROVE  /\ v[1] \in Nat /\ v[2] \in {0} \cup Replica /\ v[3] \in {0, 1} /\ v[2] \in Nat
           /\ v = <<v[1], v[2], v[3]>>
<1>1. v \in Nat \X ({0} \cup Replica) \X {0, 1}
  BY DEF Votes
<1>2. v = <<v[1], v[2], v[3]>> /\ v[1] \in Nat /\ v[2] \in {0} \cup Replica /\ v[3] \in {0, 1}
  BY <1>1
<1>. QED
  BY <1>2, ReplicaNat

LEMMA VoteMade ==
    ASSUME NEW t \in Nat, NEW n \in {0} \cup Replica, NEW c \in {0, 1}
    PROVE  /\ <<t, n, c>> \in Votes
           /\ <<t, n, c>>[1] = t /\ <<t, n, c>>[2] = n /\ <<t, n, c>>[3] = c
BY DEF Votes

LEMMA NoVoteType == NoVote \in Votes /\ NoVote[1] = 0 /\ NoVote[2] = 0 /\ NoVote[3] = 0
BY DEF Votes, NoVote

\* The vote w of a replica that voted v: lost, or not below it.
Rises(v, w) ==
  w = NoVote \/ (v # NoVote /\ (w[1] > v[1] \/ (w[1] = v[1] /\ w[2] >= v[2])))

LEMMA AtMostRises ==
    ASSUME NEW v \in Votes, NEW w \in Votes, v # NoVote, AtMost(v, w)
    PROVE  Rises(v, w)
BY VoteType DEF Rises, AtMost, Before

LEMMA SelfRises ==
    ASSUME NEW v \in Votes PROVE Rises(v, v)
BY VoteType DEF Rises

LEMMA ReachedRises ==
    ASSUME NEW v \in Votes, NEW w \in Votes, Rises(v, w),
           NEW t \in Nat, NEW n \in Replica, Reached(v, t, n)
    PROVE  Reached(w, t, n)
BY VoteType, ReplicaNat DEF Rises, Reached

-----------------------------------------------------------------------------
(* Logs. *)

LEMMA HeldType ==
    ASSUME Types
    PROVE  /\ \A s \in Held : s \in Seq(Entries)
           /\ \A r \in Replica : log[r] \in Held /\ \A s \in tails[r] : s \in Held
BY DEF Types, Held

LEMMA EntryType ==
    ASSUME NEW s \in Seq(Entries)
    PROVE  /\ Len(s) \in Nat /\ DOMAIN s = 1 .. Len(s) /\ (s = <<>> <=> Len(s) = 0)
           /\ \A i \in 1 .. Len(s) : s[i] \in Entries /\ s[i].t \in Nat /\ s[i].n \in Replica
<1>1. Len(s) \in Nat /\ DOMAIN s = 1 .. Len(s) /\ s \in [1 .. Len(s) -> Entries]
  BY LenProperties
<1>2. s = <<>> <=> Len(s) = 0
  BY EmptySeq
<1>. QED
  BY <1>1, <1>2 DEF Entries

LEMMA PrefixType ==
    ASSUME NEW s \in Seq(Entries), NEW n \in 0 .. Len(s)
    PROVE  /\ Prefix(s, n) \in Seq(Entries) /\ Len(Prefix(s, n)) = n
           /\ \A i \in 1 .. n : Prefix(s, n)[i] = s[i]
<1>1. Len(s) \in Nat /\ \A i \in 1 .. Len(s) : s[i] \in Entries
  BY EntryType
<1>2. \A i \in 1 .. n : s[i] \in Entries
  BY <1>1
<1>3. /\ SubSeq(s, 1, n) \in Seq(Entries)
      /\ Len(SubSeq(s, 1, n)) = IF 1 <= n THEN n - 1 + 1 ELSE 0
      /\ \A i \in 1 .. n - 1 + 1 : SubSeq(s, 1, n)[i] = s[1 + i - 1]
  <2>1. 1 \in Int /\ n \in Int
    BY <1>1
  <2>. QED
    BY <1>2, <2>1, SubSeqProperties
<1>. QED
  BY <1>1, <1>3 DEF Prefix

LEMMA PrefixWhole ==
    ASSUME NEW s \in Seq(Entries)
    PROVE  Prefix(s, Len(s)) = s
BY SubSeqFull DEF Prefix

LEMMA SameSeq ==
    ASSUME NEW s \in Seq(Entries), NEW u \in Seq(Entries), Len(s) = Len(u),
           \A i \in 1 .. Len(s) : s[i] = u[i]
    PROVE  s = u
BY SeqEqual

LEMMA IsPrefixIs ==
    ASSUME NEW s \in Seq(Entries), NEW u \in Seq(Entries)
    PROVE  IsPrefix(s, u) <=> Len(s) <= Len(u) /\ \A i \in 1 .. Len(s) : s[i] = u[i]
<1>1. Len(s) \in Nat /\ Len(u) \in Nat
  BY EntryType
<1>2. CASE Len(s) <= Len(u)
  <2>1. Len(s) \in 0 .. Len(s) /\ Len(s) \in 0 .. Len(u)
    BY <1>1, <1>2
  <2>2. /\ Prefix(s, Len(s)) = s
        /\ Prefix(u, Len(s)) \in Seq(Entries) /\ Len(Prefix(u, Len(s))) = Len(s)
        /\ \A i \in 1 .. Len(s) : Prefix(u, Len(s))[i] = u[i]
    BY <2>1, PrefixType, PrefixWhole
  <2>3. (\A i \in 1 .. Len(s) : s[i] = u[i]) => s = Prefix(u, Len(s))
    BY <2>2, SameSeq
  <2>. QED
    BY <1>2, <2>2, <2>3 DEF IsPrefix, Prefix
<1>3. CASE ~(Len(s) <= Len(u))
  BY <1>3 DEF IsPrefix
<1>. QED
  BY <1>2, <1>3

LEMMA AppendType ==
    ASSUME NEW s \in Seq(Entries), NEW e \in Entries
    PROVE  /\ Append(s, e) \in Seq(Entries) /\ Len(Append(s, e)) = Len(s) + 1
           /\ Append(s, e)[Len(s) + 1] = e /\ Append(s, e) # <<>>
           /\ \A i \in 1 .. Len(s) : Append(s, e)[i] = s[i]
BY AppendProperties

-----------------------------------------------------------------------------
(* Steps that write no entry keep what log ids name. *)

\* What a majority voted for, or a candidate asks votes for.
Claim(t, n) == Backed(t, n) \/ (role[n] = "candidate" /\ t = vote[n][1])

\* The logs of a step come from those before it.
HeldBefore ==
  \A u \in Held' : \E s \in Held : Len(u) <= Len(s) /\ \A i \in 1 .. Len(u) : u[i] = s[i]

\* The votes of a step keep what was claimed before it.
ClaimsKept ==
  \A x \in Replica, n \in Replica : \A t \in Nat :
    Claim(t, n) /\ Reached(vote[x], t, n) => Reached(vote'[x], t, n)

\* A leader leads on over its log, and a candidate collects votes for the
\* term it campaigns in, or starts to in a higher one.
LeadsOn(x) ==
  role'[x] = "leader" => role[x] = "leader" /\ vote'[x] = vote[x] /\ log'[x] = log[x]
AsksOn(x) ==
  role'[x] = "candidate" =>
    \/ /\ role[x] = "candidate" /\ vote'[x] = vote[x]
       /\ \A y \in grants'[x] : y \in grants[x] \/ Reached(vote'[y], vote[x][1], x)
    \/ /\ vote[x] # NoVote /\ vote'[x] = <<vote[x][1] + 1, x, 0>>
       /\ grants'[x] \subseteq {x}

LEMMA BackedKept ==
    ASSUME ClaimsKept, NEW t \in Nat, NEW n \in Replica, Backed(t, n)
    PROVE  Backed(t, n)'
<1>1. \A x \in Replica : Reached(vote[x], t, n) => Reached(vote'[x], t, n)
  BY DEF ClaimsKept, Claim
<1> DEFINE P == {x \in Replica : Reached(vote[x], t, n)}
           Q == {x \in Replica : Reached(vote'[x], t, n)}
<1>2. P \in SUBSET Replica /\ Q \in SUBSET Replica /\ P \subseteq Q /\ IsQuorum(P)
  BY <1>1 DEF Backed
<1>3. IsQuorum(Q)
  <2> HIDE DEF P, Q
  <2>. QED
    BY <1>2, QuorumGrows
<1>. QED
  BY <1>3 DEF Backed, IsQuorum

LEMMA CoreKept ==
    ASSUME Types, Types', Core, HeldBefore, ClaimsKept,
           \A x \in Replica : LeadsOn(x) /\ AsksOn(x)
    PROVE  Core'
<1>1. Unique'
  <2>1. SUFFICES ASSUME NEW s \in Held', NEW u \in Held', NEW i \in 1 .. Len(s),
                        i <= Len(u), SameId(s[i], u[i])
                 PROVE  s[i] = u[i]
    BY DEF Unique
  <2>2. Len(s) \in Nat /\ Len(u) \in Nat
    BY HeldType, EntryType
  <2>3. PICK p \in Held : Len(s) <= Len(p) /\ \A j \in 1 .. Len(s) : s[j] = p[j]
    BY DEF HeldBefore
  <2>4. PICK q \in Held : Len(u) <= Len(q) /\ \A j \in 1 .. Len(u) : u[j] = q[j]
    BY DEF HeldBefore
  <2>5. Len(p) \in Nat /\ Len(q) \in Nat
    BY HeldType, EntryType
  <2>6. i \in 1 .. Len(u) /\ i \in 1 .. Len(p) /\ i <= Len(q)
    BY <2>1, <2>2, <2>3, <2>4, <2>5
  <2>7. s[i] = p[i] /\ u[i] = q[i]
    BY <2>3, <2>4, <2>6
  <2>. QED
    BY <2>1, <2>6, <2>7 DEF Core, Unique
<1>2. EntriesOK'
  <2>1. SUFFICES ASSUME NEW u \in Held', NEW i \in 1 .. Len(u)
                 PROVE  EntryOK(i, u[i])'
    BY DEF EntriesOK
  <2>2. Len(u) \in Nat
    BY HeldType, EntryType
  <2>3. PICK s \in Held : Len(u) <= Len(s) /\ \A j \in 1 .. Len(u) : u[j] = s[j]
    BY DEF HeldBefore
  <2>4. s \in Seq(Entries) /\ Len(s) \in Nat
    BY HeldType, EntryType
  <2>5. i \in 1 .. Len(s) /\ u[i] = s[i]
    BY <2>2, <2>3, <2>4
  <2>6. PICK e : e = s[i]
    OBVIOUS
  <2>7. e \in Entries /\ e.t \in Nat /\ e.n \in Replica
    BY <2>4, <2>5, <2>6, EntryType
  <2>8. EntryOK(i, e)
    BY <2>5, <2>6 DEF Core, EntriesOK
  <2>9. Backed(e.t, e.n)'
    BY <2>7, <2>8, BackedKept DEF EntryOK
  <2>10. Reached(vote'[e.n], e.t, e.n)
    BY <2>7, <2>8 DEF EntryOK, ClaimsKept, Claim
  <2>11. role'[e.n] = "leader" /\ e.t = vote'[e.n][1]
           => i <= Len(log'[e.n]) /\ log'[e.n][i] = e
    BY <2>7, <2>8 DEF EntryOK, LeadsOn
  <2>12. ASSUME role'[e.n] = "candidate" PROVE e.t # vote'[e.n][1]
    <3>1. vote[e.n] \in Votes
      BY <2>7 DEF Types
    <3>2. vote[e.n] # NoVote => e.t < vote[e.n][1] + 1
      BY <2>7, <2>8, <3>1, VoteType DEF EntryOK, Reached
    <3>3. vote'[e.n] = <<vote[e.n][1] + 1, e.n, 0>> => vote'[e.n][1] = vote[e.n][1] + 1
      OBVIOUS
    <3>4. vote[e.n][1] \in Nat
      BY <3>1, VoteType
    <3>. QED
      BY <2>7, <2>8, <2>12, <3>2, <3>3, <3>4 DEF EntryOK, AsksOn
  <2>13. EntryOK(i, e)'
    BY <2>9, <2>10, <2>11, <2>12 DEF EntryOK
  <2>. QED
    BY <2>5, <2>6, <2>13
<1>3. LeadersOK'
  <2>1. SUFFICES ASSUME NEW l \in Replica, role'[l] = "leader" PROVE Backed(vote[l][1], l)'
    BY DEF LeadersOK
  <2>2. role[l] = "leader" /\ vote'[l] = vote[l] /\ vote[l] \in Votes
    BY <2>1 DEF LeadsOn, Types
  <2>3. PICK t \in Nat : t = vote[l][1]
    BY <2>2, VoteType
  <2>4. Backed(t, l)
    BY <2>2, <2>3 DEF Core, LeadersOK
  <2>5. Backed(t, l)'
    BY <2>4, BackedKept
  <2>. QED
    BY <2>2, <2>3, <2>5
<1>4. CandidatesOK'
  <2>1. SUFFICES ASSUME NEW c \in Replica, role'[c] = "candidate", NEW x \in grants'[c]
                 PROVE  Reached(vote'[x], vote'[c][1], c)
    BY DEF CandidatesOK
  <2>2. grants'[c] \subseteq Replica /\ vote[c] \in Votes
    BY DEF Types
  <2>3. CASE /\ role[c] = "candidate" /\ vote'[c] = vote[c]
             /\ \A y \in grants'[c] : y \in grants[c] \/ Reached(vote'[y], vote[c][1], c)
    <3>1. CASE x \in grants[c]
      <4>1. Reached(vote[x], vote[c][1], c)
        BY <2>3, <3>1 DEF Core, CandidatesOK
      <4>2. vote[c][1] \in Nat /\ x \in Replica
        BY <2>2, VoteType
      <4>. QED
        BY <2>3, <4>1, <4>2 DEF ClaimsKept, Claim
    <3>. QED
      BY <2>3, <3>1
  <2>4. CASE /\ vote[c] # NoVote /\ vote'[c] = <<vote[c][1] + 1, c, 0>>
             /\ grants'[c] \subseteq {c}
    <3>1. x = c /\ vote'[c][1] = vote[c][1] + 1 /\ vote'[c][2] = c
      BY <2>4
    <3>2. vote'[c][1] \in Nat /\ c \in Nat
      BY <2>2, <3>1, VoteType, ReplicaNat
    <3>. QED
      BY <3>1, <3>2 DEF Reached
  <2>. QED
    BY <2>1, <2>3, <2>4 DEF AsksOn
<1>. QED
  BY <1>1, <1>2, <1>3, <1>4 DEF Core

-----------------------------------------------------------------------------
(* A leader writes an entry of its term. *)

\* l leads, or a majority voted for it, and its log grows by e.
Leads(l) == role[l] = "leader" \/ (role[l] = "candidate" /\ IsQuorum(grants[l]))
Grows(l, e) ==
  /\ log' = [log EXCEPT ![l] = Append(log[l], e)] /\ tails' = tails
  /\ e.n = l /\ e.t = vote[l][1]
  /\ role'[l] = "leader" /\ vote'[l] = <<vote[l][1], vote[l][2], 1>>
  /\ \A x \in Replica \ {l} :
       vote'[x] = vote[x] /\ role'[x] = role[x] /\ grants'[x] = grants[x]

LEMMA LeadsBacked ==
    ASSUME Types, Core, NEW l \in Replica, Leads(l)
    PROVE  Backed(vote[l][1], l)
<1>1. CASE role[l] = "leader"
  BY <1>1 DEF Core, LeadersOK
<1>2. CASE role[l] = "candidate" /\ IsQuorum(grants[l])
  <2> DEFINE Q == {x \in Replica : Reached(vote[x], vote[l][1], l)}
  <2>1. grants[l] \in SUBSET Replica /\ Q \in SUBSET Replica /\ grants[l] \subseteq Q
    BY <1>2 DEF Types, Core, CandidatesOK
  <2>2. IsQuorum(Q)
    <3> HIDE DEF Q
    <3>. QED
      BY <1>2, <2>1, QuorumGrows
  <2>. QED
    BY <2>2 DEF Backed
<1>. QED
  BY <1>1, <1>2 DEF Leads

LEMMA CoreGrows ==
    ASSUME Types, Types', Core, NEW l \in Replica, NEW e \in Entries,
           vote[l][2] = l, Leads(l), Grows(l, e)
    PROVE  Core'
<1>1. \A x \in Replica : vote[x] \in Votes /\ log[x] \in Seq(Entries)
  BY DEF Types
<1>2. /\ vote[l][1] \in Nat /\ vote'[l][1] = vote[l][1] /\ vote'[l][2] = l
      /\ e.t \in Nat /\ e.n \in Replica /\ l \in Nat /\ vote'[l] # NoVote /\ vote[l] # NoVote
  BY <1>1, VoteType, ReplicaNat, NoVoteType DEF Grows
<1>3. ASSUME NEW x \in Replica, NEW t \in Nat, NEW n \in Replica
      PROVE  Reached(vote[x], t, n) <=> Reached(vote'[x], t, n)
  <2>1. CASE x = l
    BY <1>2, <2>1 DEF Grows, Reached
  <2>2. CASE x # l
    <3>1. vote'[x] = vote[x]
      BY <2>2 DEF Grows
    <3>. QED
      BY <3>1
  <2>. QED
    BY <2>1, <2>2
<1>4. ASSUME NEW t \in Nat, NEW n \in Replica, Backed(t, n) PROVE Backed(t, n)'
  <2>1. {x \in Replica : Reached(vote[x], t, n)} = {x \in Replica : Reached(vote'[x], t, n)}
    BY <1>3
  <2>. QED
    BY <1>4, <2>1 DEF Backed, IsQuorum
<1>5. Backed(e.t, l)'
  BY <1>2, <1>4, LeadsBacked DEF Grows
<1>. PICK new : new = Append(log[l], e)
  OBVIOUS
<1>. PICK k : k = Len(log[l]) + 1
  OBVIOUS
<1>6. /\ new \in Seq(Entries) /\ Len(new) = k /\ new[k] = e /\ k \in Nat /\ k >= 1
      /\ Len(log[l]) \in Nat /\ \A i \in 1 .. Len(log[l]) : new[i] = log[l][i]
  BY <1>1, AppendType, EntryType
<1>7. log'[l] = new /\ \A x \in Replica \ {l} : log'[x] = log[x]
  BY DEF Grows, Types
<1>8. \A u \in Held' : u = new \/ u \in Held
  BY <1>7 DEF Held, Grows
<1>9. ASSUME NEW s \in Held, NEW i \in 1 .. Len(s), SameId(s[i], e) PROVE i \in 1 .. Len(log[l]) /\ s[i] = log[l][i]
  <2>1. EntryOK(i, s[i]) /\ s[i].n = l /\ s[i].t = vote[l][1]
    BY <1>9 DEF Core, EntriesOK, SameId, Grows
  <2>2. Len(s) \in Nat
    BY HeldType, EntryType
  <2>. QED
    BY <1>6, <2>1, <2>2 DEF EntryOK, Leads
<1>10. ASSUME NEW u \in Held', NEW i \in 1 .. Len(u)
       PROVE  (u = new /\ i = k) \/ \E s \in Held : i \in 1 .. Len(s) /\ u[i] = s[i]
  <2>1. CASE u = new
    <3>1. i = k \/ i \in 1 .. Len(log[l])
      BY <1>6, <2>1
    <3>. QED
      BY <1>6, <2>1, <3>1, HeldType
  <2>. QED
    BY <1>8, <2>1
<1>11. Unique'
  <2>1. SUFFICES ASSUME NEW s \in Held', NEW u \in Held', NEW i \in 1 .. Len(s),
                        i <= Len(u), SameId(s[i], u[i])
                 PROVE  s[i] = u[i]
    BY DEF Unique
  <2>2. i \in 1 .. Len(u)
    <3>1. Len(u) \in Nat /\ Len(s) \in Nat
      BY HeldType, EntryType
    <3>. QED
      BY <2>1, <3>1
  <2>3. k \notin 1 .. Len(log[l])
    BY <1>6
  <2>4. CASE s = new /\ i = k
    <3>1. s[i] = e /\ SameId(u[i], e)
      BY <1>6, <2>1, <2>4 DEF SameId
    <3>2. u # new => \E p \in Held : i \in 1 .. Len(p) /\ u[i] = p[i]
      BY <1>10, <2>2
    <3>3. u # new => i \in 1 .. Len(log[l])
      BY <1>9, <3>1, <3>2
    <3>. QED
      BY <2>3, <2>4, <3>3
  <2>5. CASE u = new /\ i = k
    <3>1. u[i] = e /\ SameId(s[i], e)
      BY <1>6, <2>1, <2>5
    <3>2. s # new => \E p \in Held : i \in 1 .. Len(p) /\ s[i] = p[i]
      BY <1>10
    <3>3. s # new => i \in 1 .. Len(log[l])
      BY <1>9, <3>1, <3>2
    <3>. QED
      BY <2>3, <2>5, <3>3
  <2>6. CASE ~(s = new /\ i = k) /\ ~(u = new /\ i = k)
    <3>1. PICK p \in Held : i \in 1 .. Len(p) /\ s[i] = p[i]
      BY <1>10, <2>6
    <3>2. PICK q \in Held : i \in 1 .. Len(q) /\ u[i] = q[i]
      BY <1>10, <2>2, <2>6
    <3>3. i <= Len(q)
      BY <3>2, HeldType, EntryType
    <3>. QED
      BY <2>1, <3>1, <3>2, <3>3 DEF Core, Unique
  <2>. QED
    BY <2>4, <2>5, <2>6
<1>12. EntriesOK'
  <2>1. SUFFICES ASSUME NEW u \in Held', NEW i \in 1 .. Len(u)
                 PROVE  EntryOK(i, u[i])'
    BY DEF EntriesOK
  <2>2. CASE u = new /\ i = k
    <3>1. Reached(vote'[l], e.t, l)
      BY <1>2 DEF Reached, Grows
    <3>2. EntryOK(k, e)'
      BY <1>2, <1>5, <1>6, <1>7, <3>1 DEF EntryOK, Grows
    <3>. QED
      BY <1>6, <2>2, <3>2
  <2>3. CASE ~(u = new /\ i = k)
    <3>1. PICK s \in Held : i \in 1 .. Len(s) /\ u[i] = s[i]
      BY <1>10, <2>3
    <3>2. PICK d : d = s[i]
      OBVIOUS
    <3>3. d \in Entries /\ d.t \in Nat /\ d.n \in Replica
      BY <3>1, <3>2, HeldType, EntryType
    <3>4. EntryOK(i, d)
      BY <3>1, <3>2 DEF Core, EntriesOK
    <3>5. Backed(d.t, d.n)' /\ Reached(vote'[d.n], d.t, d.n)
      BY <1>3, <1>4, <3>3, <3>4 DEF EntryOK
    <3>6. ASSUME role'[d.n] = "leader", d.t = vote'[d.n][1]
          PROVE  i <= Len(log'[d.n]) /\ log'[d.n][i] = d
      <4>1. CASE d.n = l
        <5>1. SameId(s[i], e)
          BY <1>2, <3>2, <3>6, <4>1 DEF SameId, Grows
        <5>2. i \in 1 .. Len(log[l]) /\ s[i] = log[l][i]
          BY <1>9, <3>1, <5>1
        <5>. QED
          BY <1>6, <1>7, <3>2, <4>1, <5>2
      <4>2. CASE d.n # l
        BY <1>7, <3>3, <3>4, <3>6, <4>2 DEF EntryOK, Grows
      <4>. QED
        BY <4>1, <4>2
    <3>7. role'[d.n] = "candidate" => d.t # vote'[d.n][1]
      BY <3>3, <3>4 DEF EntryOK, Grows
    <3>8. EntryOK(i, d)'
      BY <3>5, <3>6, <3>7 DEF EntryOK
    <3>. QED
      BY <3>1, <3>2, <3>8
  <2>. QED
    BY <2>2, <2>3
<1>13. LeadersOK'
  <2>1. SUFFICES ASSUME NEW x \in Replica, role'[x] = "leader" PROVE Backed(vote[x][1], x)'
    BY DEF LeadersOK
  <2>2. PICK t \in Nat : t = vote[x][1]
    BY <1>1, VoteType
  <2>3. vote'[x][1] = t /\ (x # l => role[x] = "leader")
    BY <1>2, <2>1, <2>2 DEF Grows
  <2>4. Backed(t, x)
    BY <2>2, <2>3, LeadsBacked DEF Core, LeadersOK
  <2>5. Backed(t, x)'
    BY <1>4, <2>4
  <2>. QED
    BY <2>3, <2>5
<1>14. CandidatesOK'
  <2>1. SUFFICES ASSUME NEW c \in Replica, role'[c] = "candidate", NEW x \in grants'[c]
                 PROVE  Reached(vote'[x], vote'[c][1], c)
    BY DEF CandidatesOK
  <2>2. c # l /\ role[c] = "candidate" /\ vote'[c] = vote[c] /\ grants'[c] = grants[c]
    BY <2>1 DEF Grows
  <2>3. x \in Replica /\ vote[c][1] \in Nat /\ Reached(vote[x], vote[c][1], c)
    BY <1>1, <2>1, <2>2, VoteType DEF Types, Core, CandidatesOK
  <2>. QED
    BY <1>3, <2>2, <2>3
<1>. QED
  BY <1>11, <1>12, <1>13, <1>14 DEF Core

-----------------------------------------------------------------------------
(* The journal. *)

LEMMA WritesGives ==
    ASSUME Types, NEW r \in Replica, NEW s \in Seq(Entries), Writes(r, s)
    PROVE  /\ log' = [log EXCEPT ![r] = s]
           /\ \E k \in Nat : /\ k <= synced[r] /\ k <= Len(s)
                             /\ synced' = [synced EXCEPT ![r] = k]
           /\ \E T \in {tails[r], tails[r] \cup {log[r]}} : tails' = [tails EXCEPT ![r] = T]
<1> DEFINE shared == Max({0} \cup {n \in 1 .. Len(s) : IsPrefix(Prefix(s, n), log[r])})
<1>1. Len(s) \in Nat /\ synced[r] \in Nat
  BY EntryType DEF Types
<1>2. shared \in 0 .. Len(s)
  BY <1>1, MaxBelow
<1>3. synced' = [synced EXCEPT ![r] = Min({synced[r], shared})]
  BY DEF Writes, Types
<1>4. PICK k : k = Min({synced[r], shared})
  OBVIOUS
<1>5. k \in Nat /\ k <= synced[r] /\ k <= Len(s)
  <2> HIDE DEF shared
  <2>. QED
    BY <1>1, <1>2, <1>4, MinMax
<1>6. \E T \in {tails[r], tails[r] \cup {log[r]}} : tails' = [tails EXCEPT ![r] = T]
  <2>1. PICK b \in BOOLEAN :
          tails' = [tails EXCEPT ![r] = IF b THEN tails[r] \cup {log[r]} ELSE tails[r]]
    <3>1. PICK b \in BOOLEAN : b <=> shared < Len(log[r]) /\ r \in budget.faulty
                                     /\ budget.restarts > 0
      OBVIOUS
    <3>. QED
      BY <3>1 DEF Writes, Types
  <2>. QED
    BY <2>1
<1>. QED
  BY <1>3, <1>4, <1>5, <1>6 DEF Writes

(* What only adds to the log returns no tail. *)
LEMMA WritesAppend ==
    ASSUME Types, NEW r \in Replica, NEW e \in Entries, DiskOK(r),
           Writes(r, Append(log[r], e))
    PROVE  log' = [log EXCEPT ![r] = Append(log[r], e)] /\ synced' = synced /\ tails' = tails
<1>. PICK s : s = Append(log[r], e)
  OBVIOUS
<1> DEFINE S == {n \in 1 .. Len(s) : IsPrefix(Prefix(s, n), log[r])}
           shared == Max({0} \cup S)
<1>1. /\ Len(log[r]) \in Nat /\ synced[r] \in Nat /\ synced[r] <= Len(log[r])
      /\ log[r] \in Seq(Entries)
  BY EntryType DEF Types, DiskOK
<1>2. /\ s \in Seq(Entries) /\ Len(s) = Len(log[r]) + 1
      /\ \A i \in 1 .. Len(log[r]) : s[i] = log[r][i]
  BY <1>1, AppendType
<1>3. shared \in 0 .. Len(s) /\ \A k \in S : k <= shared
  <2>1. S \in SUBSET (1 .. Len(s)) /\ Len(s) \in Nat
    BY <1>1, <1>2
  <2> HIDE DEF S
  <2>. QED
    BY <2>1, MaxBelow
<1>4. Len(log[r]) # 0 => Len(log[r]) \in S
  <2>1. SUFFICES ASSUME Len(log[r]) # 0 PROVE Len(log[r]) \in S
    OBVIOUS
  <2>2. Len(log[r]) \in 0 .. Len(s) /\ Len(log[r]) \in 1 .. Len(s)
    BY <1>1, <1>2, <2>1
  <2>3. /\ Prefix(s, Len(log[r])) \in Seq(Entries) /\ Len(Prefix(s, Len(log[r]))) = Len(log[r])
        /\ \A i \in 1 .. Len(log[r]) : Prefix(s, Len(log[r]))[i] = s[i]
    BY <1>2, <2>2, PrefixType
  <2>4. IsPrefix(Prefix(s, Len(log[r])), log[r])
    BY <1>1, <1>2, <2>3, IsPrefixIs
  <2>. QED
    BY <2>2, <2>4
<1>5. shared \in Int /\ shared >= Len(log[r])
  <2> HIDE DEF shared, S
  <2>. QED
    BY <1>1, <1>2, <1>3, <1>4
<1>6. Min({synced[r], shared}) = synced[r] /\ ~(shared < Len(log[r]))
  <2> HIDE DEF shared
  <2>. QED
    BY <1>1, <1>5, MinMax
<1>7. /\ synced' = [synced EXCEPT ![r] = Min({synced[r], shared})]
      /\ tails' = [tails EXCEPT ![r] =
                     IF shared < Len(log[r]) /\ r \in budget.faulty /\ budget.restarts > 0
                     THEN tails[r] \cup {log[r]} ELSE tails[r]]
      /\ log' = [log EXCEPT ![r] = s]
  BY DEF Writes
<1>8. /\ synced' = [synced EXCEPT ![r] = synced[r]]
      /\ tails' = [tails EXCEPT ![r] = tails[r]]
  <2> HIDE DEF shared
  <2>. QED
    BY <1>6, <1>7
<1>. QED
  BY <1>7, <1>8 DEF Types

-----------------------------------------------------------------------------
(* A step keeps what it leaves alone. *)

Same(x) ==
  /\ log'[x] = log[x] /\ commit'[x] = commit[x] /\ synced'[x] = synced[x]
  /\ tails'[x] = tails[x] /\ vote'[x] = vote[x] /\ state'[x] = state[x]
  /\ plan'[x] = plan[x] /\ gate'[x] = gate[x] /\ target'[x] = target[x]
  /\ role'[x] = role[x] /\ match'[x][x] = match[x][x]

LEMMA SameOK ==
    ASSUME NEW x \in Replica, ReplicaOK(x), Same(x), budget'.len = budget.len
    PROVE  ReplicaOK(x)'
BY DEF Same, ReplicaOK, DiskOK, VoteOK, GateOK

LEMMA HeldOne ==
    ASSUME Types, Types', NEW r \in Replica,
           \A x \in Replica \ {r} : log'[x] = log[x] /\ tails'[x] = tails[x],
           NEW s \in Held, Len(log'[r]) <= Len(s),
           \A i \in 1 .. Len(log'[r]) : log'[r][i] = s[i],
           \A u \in tails'[r] : u \in Held
    PROVE  HeldBefore
<1>1. ASSUME NEW u \in Held', u # log'[r] PROVE u \in Held
  BY <1>1 DEF Held
<1>2. ASSUME NEW u \in Held PROVE Len(u) <= Len(u)
  BY HeldType, EntryType
<1>. QED
  BY <1>1, <1>2 DEF HeldBefore

LEMMA HeldSame ==
    ASSUME Types, log' = log, tails' = tails
    PROVE  HeldBefore
<1>1. \A u \in Held' : u \in Held
  BY DEF Held
<1>2. ASSUME NEW u \in Held PROVE Len(u) <= Len(u)
  BY HeldType, EntryType
<1>. QED
  BY <1>1, <1>2 DEF HeldBefore

LEMMA ClaimsRise ==
    ASSUME Types, Types', \A x \in Replica : Rises(vote[x], vote'[x])
    PROVE  ClaimsKept
BY ReachedRises DEF ClaimsKept, Types

LEMMA FloorKept ==
    ASSUME FloorOK, budget'.wipes = budget.wipes,
           \A x \in Replica : vote'[x] = NoVote => vote[x] = NoVote
    PROVE  FloorOK'
BY DEF FloorOK, NoWipes

-----------------------------------------------------------------------------
(* Steps that write an entry: Propose, ProposeHistory and BecomeLeader. *)

LEMMA EntryMade ==
    ASSUME Types, NEW l \in Replica, vote[l][2] = l, NEW w \in 0 .. MaxWrites,
           NEW k \in {None} \cup Nat
    PROVE  /\ Entry(vote[l], w, k) \in Entries
           /\ Entry(vote[l], w, k).n = l /\ Entry(vote[l], w, k).t = vote[l][1]
<1>1. vote[l] \in Votes
  BY DEF Types
<1>. QED
  BY <1>1, VoteType DEF Entry, Entries

LEMMA EntryStep ==
    ASSUME IInv, NEW l \in Replica, NEW e \in Entries, e.n = l, e.t = vote[l][1],
           vote[l][2] = l, Leads(l), Len(log[l]) < budget.len,
           Writes(l, Append(log[l], e)),
           UNCHANGED <<commit, state, plan, gate, target, tool, budget>>,
           writes' \in 0 .. MaxWrites,
           vote' \in [Replica -> Votes], vote'[l] = <<vote[l][1], vote[l][2], 1>>,
           role' \in [Replica -> {"leader", "candidate", "follower"}], role'[l] = "leader",
           match' \in [Replica -> [Replica -> Nat]],
           match'[l][l] >= 1, match'[l][l] <= Len(log[l]) + 1,
           grants' \in [Replica -> SUBSET Replica],
           \A x \in Replica \ {l} : /\ vote'[x] = vote[x] /\ role'[x] = role[x]
                                    /\ match'[x] = match[x] /\ grants'[x] = grants[x]
    PROVE  IInv'
<1>1. Types /\ ReplicaOK(l) /\ DiskOK(l) /\ VoteOK(l) /\ GateOK(l) /\ Core
  BY DEF IInv, ReplicaOK
<1>2. log' = [log EXCEPT ![l] = Append(log[l], e)] /\ synced' = synced /\ tails' = tails
  BY <1>1, WritesAppend
<1>3. /\ log[l] \in Seq(Entries) /\ Len(log[l]) \in Nat
      /\ log \in [Replica -> Seq(Entries)] /\ vote[l] \in Votes
  BY <1>1, EntryType DEF Types
<1>4. /\ Append(log[l], e) \in Seq(Entries) /\ Len(Append(log[l], e)) = Len(log[l]) + 1
      /\ Append(log[l], e) # <<>>
  BY <1>3, AppendType
<1>5. log' \in [Replica -> Seq(Entries)] /\ log'[l] = Append(log[l], e)
      /\ \A x \in Replica \ {l} : log'[x] = log[x]
  BY <1>2, <1>3, <1>4
<1>6. Types'
  BY <1>1, <1>2, <1>5 DEF Types
<1>7. ASSUME NEW x \in Replica \ {l} PROVE ReplicaOK(x)'
  <2>1. ReplicaOK(x) /\ Same(x)
    BY <1>2, <1>5 DEF IInv, Same
  <2>. QED
    BY <2>1, SameOK
<1>8. log[l] # <<>>
  BY <1>1 DEF Leads, VoteOK
<1>9. DiskOK(l)'
  <2>1. budget.len \in Nat /\ synced[l] \in Nat /\ commit[l] \in Nat
    BY <1>1 DEF Types, BudgetType
  <2>. QED
    BY <1>1, <1>2, <1>3, <1>4, <1>5, <1>8, <2>1 DEF DiskOK
<1>10. /\ vote'[l][1] = vote[l][1] /\ vote'[l][2] = l /\ vote'[l][3] = 1
       /\ vote[l][1] \in Nat /\ vote'[l] # NoVote /\ vote[l] # NoVote
  <2>1. vote'[l][1] = vote[l][1] /\ vote'[l][2] = l /\ vote'[l][3] = 1
    OBVIOUS
  <2>2. vote[l][1] \in Nat
    BY <1>3, VoteType
  <2>3. l # 0 /\ NoVote[2] = 0
    BY NoVoteType, ReplicaNat
  <2>. QED
    BY <2>1, <2>2, <2>3
<1>11. VoteOK(l)'
  BY <1>1, <1>4, <1>5, <1>10 DEF VoteOK
<1>12. GateOK(l)'
  BY <1>1, <1>4, <1>5 DEF GateOK
<1>13. Core'
  <2>1. Grows(l, e)
    BY <1>2 DEF Grows
  <2>. QED
    BY <1>1, <1>6, <2>1, CoreGrows
<1>14. ToolOK'
  BY DEF IInv, ToolOK
<1>15. FloorOK'
  BY <1>10, FloorKept DEF IInv
<1>. QED
  BY <1>6, <1>7, <1>9, <1>11, <1>12, <1>13, <1>14, <1>15 DEF IInv, ReplicaOK

LEMMA LeaderHas ==
    ASSUME IInv, NEW l \in Replica, role[l] = "leader"
    PROVE  /\ Types /\ ReplicaOK(l) /\ vote[l] \in Votes /\ vote[l][2] = l /\ vote[l][3] = 1
           /\ vote[l] = <<vote[l][1], vote[l][2], 1>> /\ Leads(l) /\ vote[l] # NoVote
           /\ match[l][l] \in 1 .. Len(log[l]) /\ Len(log[l]) \in Nat
           /\ commit[l] \in 1 .. Len(log[l]) /\ log[l] \in Seq(Entries)
<1>1. /\ Types /\ ReplicaOK(l) /\ VoteOK(l) /\ DiskOK(l) /\ vote[l] \in Votes
      /\ match[l][l] \in Nat /\ Len(log[l]) \in Nat /\ commit[l] \in Nat
      /\ log[l] \in Seq(Entries)
  BY EntryType DEF IInv, ReplicaOK, Types
<1>. QED
  BY <1>1, VoteType, NoVoteType, ReplicaNat DEF VoteOK, DiskOK, Leads

LEMMA ProposeStep ==
    ASSUME IInv, NEW l \in Replica, Propose(l)
    PROVE  IInv'
<1>1. role[l] = "leader" /\ writes < MaxWrites /\ writes' = writes + 1 /\ Len(log[l]) < budget.len
  BY DEF Propose
<1>2. /\ Types /\ vote[l] \in Votes /\ vote[l][2] = l /\ Leads(l)
      /\ vote[l] = <<vote[l][1], vote[l][2], 1>>
      /\ match[l][l] \in 1 .. Len(log[l]) /\ Len(log[l]) \in Nat
  BY <1>1, LeaderHas
<1>3. writes' \in 0 .. MaxWrites /\ None \in {None} \cup Nat
  <2>1. MaxWrites \in Nat /\ writes \in 0 .. MaxWrites
    BY <1>2, GateConstants DEF Types
  <2>. QED
    BY <1>1, <2>1
<1>4. PICK w \in 0 .. MaxWrites : w = writes'
  BY <1>3
<1>5. PICK e : e = Entry(vote[l], w, None)
  OBVIOUS
<1>6. e \in Entries /\ e.n = l /\ e.t = vote[l][1]
  BY <1>2, <1>3, <1>5, EntryMade
<1>7. Writes(l, Append(log[l], e))
  BY <1>4, <1>5 DEF Propose
<1>8. UNCHANGED <<commit, state, plan, gate, target, tool, budget, vote, role, match, grants>>
  BY DEF Propose, meta, elections
<1>9. match[l][l] >= 1 /\ match[l][l] <= Len(log[l]) + 1
  BY <1>2
<1>. QED
  BY <1>1, <1>2, <1>3, <1>6, <1>7, <1>8, <1>9, EntryStep DEF Types

LEMMA ProposeHistoryStep ==
    ASSUME IInv, NEW l \in Replica, ProposeHistory(l)
    PROVE  IInv'
<1>1. role[l] = "leader" /\ Len(log[l]) < budget.len
  BY DEF ProposeHistory
<1>2. /\ Types /\ vote[l] \in Votes /\ vote[l][2] = l /\ Leads(l)
      /\ vote[l] = <<vote[l][1], vote[l][2], 1>>
      /\ match[l][l] \in 1 .. Len(log[l]) /\ Len(log[l]) \in Nat
  BY <1>1, LeaderHas
<1>3. 0 \in 0 .. MaxWrites /\ plan[l].point \in Nat
  BY <1>2, GateConstants DEF Types, Plans
<1>5. PICK e : e = Entry(vote[l], 0, plan[l].point)
  OBVIOUS
<1>6. e \in Entries /\ e.n = l /\ e.t = vote[l][1]
  BY <1>2, <1>3, <1>5, EntryMade
<1>7. Writes(l, Append(log[l], e))
  BY <1>5 DEF ProposeHistory
<1>8. UNCHANGED <<commit, state, plan, gate, target, tool, budget, vote, role, match, grants,
                  writes>>
  BY DEF ProposeHistory, meta, elections, ghosts
<1>9. match[l][l] >= 1 /\ match[l][l] <= Len(log[l]) + 1
  BY <1>2
<1>. QED
  BY <1>1, <1>2, <1>3, <1>6, <1>7, <1>8, <1>9, EntryStep DEF Types

LEMMA BecomeLeaderStep ==
    ASSUME IInv, NEW c \in Replica, BecomeLeader(c)
    PROVE  IInv'
<1>1. role[c] = "candidate" /\ Leads(c) /\ Len(log[c]) < budget.len
  BY DEF BecomeLeader, Leads
<1>2. /\ Types /\ vote[c] \in Votes /\ vote[c][2] = c /\ log[c] # <<>>
      /\ log[c] \in Seq(Entries) /\ Len(log[c]) \in Nat /\ Len(log[c]) >= 1
  BY <1>1, EntryType DEF IInv, ReplicaOK, VoteOK, Types
<1>3. 0 \in 0 .. MaxWrites /\ None \in {None} \cup Nat
  BY GateConstants
<1>5. PICK e : e = Entry(vote[c], 0, None)
  OBVIOUS
<1>6. e \in Entries /\ e.n = c /\ e.t = vote[c][1]
  BY <1>2, <1>3, <1>5, EntryMade
<1>7. Writes(c, Append(log[c], e))
  BY <1>5 DEF BecomeLeader
<1>8. UNCHANGED <<commit, state, plan, gate, target, tool, budget, writes>>
  BY DEF BecomeLeader, ghosts
<1>9. /\ vote' = [vote EXCEPT ![c][3] = 1]
      /\ role' = [role EXCEPT ![c] = "leader"]
      /\ grants' = [grants EXCEPT ![c] = {}]
      /\ match' = [match EXCEPT ![c] = [NoMatch EXCEPT ![c] = Len(log[c])]]
  BY DEF BecomeLeader
<1>10. /\ vote'[c] = <<vote[c][1], vote[c][2], 1>> /\ vote' \in [Replica -> Votes]
       /\ \A x \in Replica \ {c} : vote'[x] = vote[x]
  <2>1. vote[c] = <<vote[c][1], vote[c][2], vote[c][3]>>
    BY <1>2, VoteType
  <2>2. [vote[c] EXCEPT ![3] = 1] = <<vote[c][1], vote[c][2], 1>>
    BY <2>1
  <2>3. vote' = [vote EXCEPT ![c] = [vote[c] EXCEPT ![3] = 1]]
    BY <1>2, <1>9 DEF Types
  <2>4. <<vote[c][1], vote[c][2], 1>> \in Votes
    BY <1>2, VoteType, VoteMade
  <2>. QED
    BY <1>2, <2>2, <2>3, <2>4 DEF Types
<1>11. /\ match' \in [Replica -> [Replica -> Nat]] /\ match'[c][c] = Len(log[c])
       /\ \A x \in Replica \ {c} : match'[x] = match[x]
  <2>1. NoMatch \in [Replica -> Nat]
    BY DEF NoMatch
  <2>2. [NoMatch EXCEPT ![c] = Len(log[c])] \in [Replica -> Nat]
        /\ [NoMatch EXCEPT ![c] = Len(log[c])][c] = Len(log[c])
    BY <1>2, <2>1
  <2>. QED
    BY <1>2, <1>9, <2>2 DEF Types
<1>12. /\ role' \in [Replica -> {"leader", "candidate", "follower"}] /\ role'[c] = "leader"
       /\ grants' \in [Replica -> SUBSET Replica]
       /\ \A x \in Replica \ {c} : role'[x] = role[x] /\ grants'[x] = grants[x]
  BY <1>2, <1>9 DEF Types
<1>13. match'[c][c] >= 1 /\ match'[c][c] <= Len(log[c]) + 1 /\ writes' \in 0 .. MaxWrites
  BY <1>2, <1>8, <1>11 DEF Types
<1>. QED
  BY <1>1, <1>2, <1>6, <1>7, <1>8, <1>10, <1>11, <1>12, <1>13, EntryStep

-----------------------------------------------------------------------------
(* Steps that write none. *)

LEMMA Quiet ==
    ASSUME IInv, Types', NEW R \in SUBSET Replica,
           \A x \in Replica \ R : Same(x), \A x \in R : ReplicaOK(x)',
           budget'.len = budget.len, ToolOK', FloorOK', HeldBefore, ClaimsKept,
           \A x \in Replica : LeadsOn(x) /\ AsksOn(x)
    PROVE  IInv'
<1>1. Core'
  BY CoreKept DEF IInv
<1>2. ASSUME NEW x \in Replica \ R PROVE ReplicaOK(x)'
  BY SameOK DEF IInv
<1>. QED
  BY <1>1, <1>2 DEF IInv

LEMMA QuietOne ==
    ASSUME IInv, Types', NEW r \in Replica,
           \A x \in Replica \ {r} : Same(x), ReplicaOK(r)',
           budget'.len = budget.len, ToolOK', FloorOK', HeldBefore, ClaimsKept,
           \A x \in Replica : LeadsOn(x) /\ AsksOn(x)
    PROVE  IInv'
<1>1. Core'
  BY CoreKept DEF IInv
<1>2. ASSUME NEW x \in Replica \ {r} PROVE ReplicaOK(x)'
  BY SameOK DEF IInv
<1>3. ASSUME NEW x \in Replica PROVE ReplicaOK(x)'
  BY <1>2
<1>. QED
  BY <1>1, <1>3 DEF IInv

LEMMA RoleKept ==
    ASSUME NEW x \in Replica, role'[x] = role[x], vote'[x] = vote[x], log'[x] = log[x],
           grants'[x] = grants[x]
    PROVE  LeadsOn(x) /\ AsksOn(x)
BY DEF LeadsOn, AsksOn

LEMMA RoleOver ==
    ASSUME NEW x \in Replica, role'[x] = "follower"
    PROVE  LeadsOn(x) /\ AsksOn(x)
BY DEF LeadsOn, AsksOn

LEMMA VotesKept ==
    ASSUME Types, Types', vote' = vote
    PROVE  ClaimsKept
BY ClaimsRise, SelfRises DEF Types

LEMMA CommitStep ==
    ASSUME IInv, NEW l \in Replica, Commit(l)
    PROVE  IInv'
<1>1. role[l] = "leader"
  BY DEF Commit
<1>2. /\ Types /\ ReplicaOK(l) /\ match[l][l] \in 1 .. Len(log[l]) /\ Len(log[l]) \in Nat
      /\ commit[l] \in 1 .. Len(log[l])
  BY <1>1, LeaderHas
<1>3. PICK i \in commit[l] + 1 .. Len(log[l]), written \in BOOLEAN :
        /\ match' = IF written THEN [match EXCEPT ![l][l] = Max({@, i})] ELSE match
        /\ commit' = [commit EXCEPT ![l] = i]
  BY DEF Commit
<1>4. i \in Nat /\ i \in 1 .. Len(log[l])
  BY <1>2, <1>3
<1>5. /\ UNCHANGED <<log, synced, tails, vote, state, plan, gate, target, role, grants, tool,
                     writes, budget>>
  BY DEF Commit, meta
<1>6. /\ commit' \in [Replica -> Nat] /\ commit'[l] = i
      /\ \A x \in Replica \ {l} : commit'[x] = commit[x]
  BY <1>2, <1>3, <1>4 DEF Types
<1>7. /\ match' \in [Replica -> [Replica -> Nat]] /\ match'[l][l] \in 1 .. Len(log[l])
      /\ \A x \in Replica \ {l} : match'[x] = match[x]
  <2>0. PICK m : m = Max({match[l][l], i})
    OBVIOUS
  <2>1. m \in 1 .. Len(log[l])
    <3>1. match[l][l] \in Int /\ i \in Int
      BY <1>2, <1>4
    <3>2. m = IF match[l][l] >= i THEN match[l][l] ELSE i
      BY <2>0, <3>1, MinMax
    <3>. QED
      BY <1>2, <1>4, <3>2
  <2>2. match \in [Replica -> [Replica -> Nat]]
    BY <1>2 DEF Types
  <2>3. CASE written
    <3>1. match' = [match EXCEPT ![l] = [match[l] EXCEPT ![l] = m]]
      BY <1>3, <2>0, <2>2, <2>3
    <3>2. [match[l] EXCEPT ![l] = m] \in [Replica -> Nat] /\ [match[l] EXCEPT ![l] = m][l] = m
      <4>1. m \in Nat /\ match[l] \in [Replica -> Nat]
        BY <1>2, <2>1, <2>2
      <4>. QED
        BY <4>1
    <3>. QED
      BY <2>1, <2>2, <3>1, <3>2
  <2>4. CASE ~written
    BY <1>2, <1>3, <2>2, <2>4
  <2>. QED
    BY <2>3, <2>4
<1>8. Types'
  BY <1>2, <1>5, <1>6, <1>7 DEF Types
<1>9. ReplicaOK(l)'
  BY <1>1, <1>2, <1>4, <1>5, <1>6, <1>7 DEF ReplicaOK, DiskOK, VoteOK, GateOK
<1>10. \A x \in Replica \ {l} : Same(x)
  BY <1>5, <1>6, <1>7 DEF Same
<1>11. ToolOK' /\ FloorOK' /\ HeldBefore /\ ClaimsKept
  BY <1>2, <1>5, <1>8, HeldSame, VotesKept, FloorKept DEF IInv, ToolOK
<1>12. \A x \in Replica : LeadsOn(x) /\ AsksOn(x)
  BY <1>5, RoleKept
<1>. QED
  BY <1>5, <1>8, <1>9, <1>10, <1>11, <1>12, QuietOne

LEMMA TryOpenStep ==
    ASSUME IInv, NEW r \in Replica, TryOpen(r)
    PROVE  IInv'
<1>1. UNCHANGED <<log, commit, synced, tails, vote, plan, role, match, grants, tool, acked,
                  writes, budget>>
  BY DEF TryOpen, disks, elections, ghosts
<1>2. Types /\ ReplicaOK(r) /\ NoTarget \in [v : Votes, i : Nat]
  BY NoVoteType DEF IInv, NoTarget, NoVote
<1>3. /\ gate[r] = "catchup" /\ commit[r] >= target[r].i
      /\ gate' = [gate EXCEPT ![r] = "open"]
      /\ target' = [target EXCEPT ![r] = NoTarget]
      /\ state' = [state EXCEPT ![r] = IF @ = "Recovering" THEN "Initialized" ELSE @]
  BY DEF TryOpen
<1>4. Types'
  BY <1>1, <1>2, <1>3 DEF Types
<1>5. /\ gate'[r] = "open" /\ target'[r] = NoTarget
      /\ state'[r] = IF state[r] = "Recovering" THEN "Initialized" ELSE state[r]
      /\ \A x \in Replica \ {r} : /\ gate'[x] = gate[x] /\ target'[x] = target[x]
                                  /\ state'[x] = state[x]
  BY <1>2, <1>3 DEF Types
<1>6. /\ log[r] # <<>> /\ log[r] \in Seq(Entries)
  <2>1. commit[r] \in Nat /\ target[r].i \in Nat /\ Len(log[r]) \in Nat
        /\ commit[r] <= Len(log[r]) /\ target[r].i >= 1 /\ log[r] \in Seq(Entries)
    BY <1>2, <1>3, EntryType DEF Types, ReplicaOK, DiskOK, GateOK
  <2>. QED
    BY <1>3, <2>1, EntryType
<1>7. ReplicaOK(r)'
  <2>1. DiskOK(r)'
    BY <1>1, <1>2, <1>5 DEF ReplicaOK, DiskOK
  <2>2. VoteOK(r)'
    BY <1>1, <1>2, <1>5 DEF ReplicaOK, VoteOK
  <2>3. GateOK(r)'
    BY <1>1, <1>2, <1>5, <1>6 DEF ReplicaOK, GateOK
  <2>. QED
    BY <2>1, <2>2, <2>3 DEF ReplicaOK
<1>8. \A x \in Replica \ {r} : Same(x)
  BY <1>1, <1>5 DEF Same
<1>9. ToolOK' /\ FloorOK' /\ HeldBefore /\ ClaimsKept
  BY <1>1, <1>2, <1>4, HeldSame, VotesKept, FloorKept DEF IInv, ToolOK
<1>10. \A x \in Replica : LeadsOn(x) /\ AsksOn(x)
  BY <1>1, RoleKept
<1>. QED
  BY <1>1, <1>4, <1>7, <1>8, <1>9, <1>10, QuietOne

LEMMA StallStep ==
    ASSUME IInv, NEW r \in Replica, Stall(r)
    PROVE  IInv'
<1>1. UNCHANGED <<log, commit, synced, tails, vote, plan, state, role, match, grants, tool,
                  acked, writes, budget>>
  BY DEF Stall, disks, elections, ghosts, meta
<1>2. Types /\ ReplicaOK(r) /\ NoTarget \in [v : Votes, i : Nat]
  BY NoVoteType DEF IInv, NoTarget, NoVote
<1>3. /\ gate' = [gate EXCEPT ![r] = "closed"]
      /\ target' = [target EXCEPT ![r] = NoTarget]
  BY DEF Stall
<1>4. Types'
  BY <1>1, <1>2, <1>3 DEF Types
<1>5. /\ gate'[r] = "closed" /\ target'[r] = NoTarget
      /\ \A x \in Replica \ {r} : gate'[x] = gate[x] /\ target'[x] = target[x]
  BY <1>2, <1>3 DEF Types
<1>7. ReplicaOK(r)'
  BY <1>1, <1>2, <1>5 DEF ReplicaOK, DiskOK, VoteOK, GateOK
<1>8. \A x \in Replica \ {r} : Same(x)
  BY <1>1, <1>5 DEF Same
<1>9. ToolOK' /\ FloorOK' /\ HeldBefore /\ ClaimsKept
  BY <1>1, <1>2, <1>4, HeldSame, VotesKept, FloorKept DEF IInv, ToolOK
<1>10. \A x \in Replica : LeadsOn(x) /\ AsksOn(x)
  BY <1>1, RoleKept
<1>. QED
  BY <1>1, <1>4, <1>7, <1>8, <1>9, <1>10, QuietOne

(* What the log up to its marker holds, when a plan is satisfied. *)
LEMMA EventInLog ==
    ASSUME NEW s, NEW n \in Nat
    PROVE  EventIndex(s, n) \in 0 .. n
<1>1. {i \in 1 .. n : IsEvent(s[i])} \in SUBSET (1 .. n)
  OBVIOUS
<1>. QED
  BY <1>1, MaxBelow DEF EventIndex

LEMMA NoPlanType == NoPlan \in Plans /\ NoPlan.leader = 0
BY DEF NoPlan, Plans

LEMMA SyncsGives ==
    ASSUME Types, NEW r \in Replica, NEW s \in Seq(Entries), Syncs(r, s)
    PROVE  /\ log' \in [Replica -> Seq(Entries)] /\ log'[r] = s
           /\ synced' \in [Replica -> Nat] /\ synced'[r] = Len(s)
           /\ tails' \in [Replica -> SUBSET Seq(Entries)] /\ tails'[r] = {}
           /\ \A x \in Replica \ {r} : /\ log'[x] = log[x] /\ synced'[x] = synced[x]
                                       /\ tails'[x] = tails[x]
<1>1. Len(s) \in Nat
  BY EntryType
<1>. QED
  BY <1>1 DEF Syncs, Types

LEMMA RetirePlanStep ==
    ASSUME IInv, NEW r \in Replica, RetirePlan(r)
    PROVE  IInv'
<1>1. UNCHANGED <<commit, vote, state, target, role, match, grants, tool, acked, writes, budget>>
  BY DEF RetirePlan, elections, ghosts
<1>2. /\ Types /\ ReplicaOK(r) /\ log[r] \in Seq(Entries) /\ Len(log[r]) \in Nat
      /\ commit[r] \in Nat /\ plan[r].point \in Nat /\ DiskOK(r) /\ VoteOK(r) /\ GateOK(r)
  BY EntryType DEF IInv, ReplicaOK, Types, Plans
<1>3. PICK after \in {"open", "closed"} :
        gate' = [gate EXCEPT ![r] = IF gate[r] \in {"planned", "leads"} THEN after ELSE @]
  <2>1. (IF state[r] = "Recovering" THEN "closed" ELSE "open") \in {"open", "closed"}
    OBVIOUS
  <2>. QED
    BY <2>1 DEF RetirePlan
<1>4. plan' = [plan EXCEPT ![r] = NoPlan] /\ Syncs(r, log[r]) /\ Satisfied(r)
  BY DEF RetirePlan
<1>5. /\ log' \in [Replica -> Seq(Entries)] /\ log'[r] = log[r]
      /\ synced' \in [Replica -> Nat] /\ synced'[r] = Len(log[r])
      /\ tails' \in [Replica -> SUBSET Seq(Entries)] /\ tails'[r] = {}
      /\ \A x \in Replica \ {r} : /\ log'[x] = log[x] /\ synced'[x] = synced[x]
                                  /\ tails'[x] = tails[x]
  BY <1>2, <1>4, SyncsGives
<1>6. /\ gate' \in [Replica -> {"open", "closed", "catchup", "planned", "leads"}]
      /\ gate'[r] \in {"open", "closed", "catchup"} /\ (gate'[r] = "catchup" <=> gate[r] = "catchup")
      /\ \A x \in Replica \ {r} : gate'[x] = gate[x]
  BY <1>2, <1>3 DEF Types
<1>7. /\ plan' \in [Replica -> Plans] /\ plan'[r] = NoPlan
      /\ \A x \in Replica \ {r} : plan'[x] = plan[x]
  BY <1>2, <1>4, NoPlanType DEF Types
<1>8. Types'
  BY <1>1, <1>2, <1>5, <1>6, <1>7 DEF Types
<1>9. log[r] # <<>>
  <2>1. EventIndex(log[r], commit[r]) \in 0 .. commit[r] /\ EventIndex(log[r], commit[r]) > plan[r].point
    BY <1>2, <1>4, EventInLog DEF Satisfied
  <2>2. commit[r] > 0 /\ commit[r] <= Len(log[r])
    BY <1>2, <2>1 DEF DiskOK
  <2>. QED
    BY <1>2, <2>2, EntryType
<1>10. ReplicaOK(r)'
  <2>1. DiskOK(r)'
    BY <1>1, <1>2, <1>5 DEF DiskOK
  <2>2. VoteOK(r)'
    BY <1>1, <1>2, <1>5, <1>7 DEF VoteOK
  <2>3. GateOK(r)'
    BY <1>1, <1>2, <1>5, <1>6, <1>7, <1>9 DEF GateOK
  <2>. QED
    BY <2>1, <2>2, <2>3 DEF ReplicaOK
<1>11. \A x \in Replica \ {r} : Same(x)
  BY <1>1, <1>5, <1>6, <1>7 DEF Same
<1>12. HeldBefore
  <2>1. log[r] \in Held /\ Len(log[r]) <= Len(log[r])
    BY <1>2, HeldType
  <2>. QED
    BY <1>2, <1>5, <1>8, <2>1, HeldOne
<1>13. ToolOK' /\ FloorOK' /\ ClaimsKept
  BY <1>1, <1>2, <1>8, VotesKept, FloorKept DEF IInv, ToolOK
<1>14. \A x \in Replica : LeadsOn(x) /\ AsksOn(x)
  BY <1>1, <1>5, RoleKept
<1>. QED
  BY <1>1, <1>8, <1>10, <1>11, <1>12, <1>13, <1>14, QuietOne

-----------------------------------------------------------------------------
(* Elections. *)

LEMMA CampaignStep ==
    ASSUME IInv, NEW c \in Replica, Campaign(c)
    PROVE  IInv'
<1>1. UNCHANGED <<log, commit, synced, tails, state, plan, gate, target, match, tool, acked, writes>>
  BY DEF Campaign, disks
<1>2. /\ Types /\ ReplicaOK(c) /\ vote[c] \in Votes /\ vote[c] # NoVote /\ vote[c][1] \in Nat
      /\ gate[c] \in {"open", "leads"} /\ budget \in BudgetType /\ budget.campaigns[c] > 0
  BY VoteType DEF IInv, Types, Campaign, MayCampaign
<1>3. /\ budget' = [budget EXCEPT !.campaigns[c] = @ - 1]
      /\ vote' = [vote EXCEPT ![c] = <<@[1] + 1, c, 0>>]
      /\ role' = [role EXCEPT ![c] = "candidate"]
      /\ grants' = [grants EXCEPT ![c] = {c}]
  BY DEF Campaign
<1>4. budget' \in BudgetType /\ budget'.len = budget.len /\ budget'.wipes = budget.wipes
  <2>1. [budget.campaigns EXCEPT ![c] = @ - 1] \in [Replica -> Nat]
    BY <1>2 DEF BudgetType
  <2>2. budget' = [budget EXCEPT !.campaigns = [budget.campaigns EXCEPT ![c] = @ - 1]]
    BY <1>2, <1>3 DEF BudgetType
  <2>. QED
    BY <1>2, <2>1, <2>2 DEF BudgetType
<1>5. /\ vote' \in [Replica -> Votes] /\ vote'[c] = <<vote[c][1] + 1, c, 0>>
      /\ \A x \in Replica \ {c} : vote'[x] = vote[x]
  <2>1. <<vote[c][1] + 1, c, 0>> \in Votes
    <3>1. vote[c][1] + 1 \in Nat
      BY <1>2
    <3>. QED
      BY <3>1, VoteMade
  <2>. QED
    BY <1>2, <1>3, <2>1 DEF Types
<1>6. /\ role' \in [Replica -> {"leader", "candidate", "follower"}] /\ role'[c] = "candidate"
      /\ grants' \in [Replica -> SUBSET Replica] /\ grants'[c] = {c}
      /\ \A x \in Replica \ {c} : role'[x] = role[x] /\ grants'[x] = grants[x]
  BY <1>2, <1>3 DEF Types
<1>7. Types'
  BY <1>1, <1>2, <1>4, <1>5, <1>6 DEF Types
<1>8. /\ vote'[c][1] = vote[c][1] + 1 /\ vote'[c][2] = c /\ vote'[c][3] = 0 /\ vote'[c] # NoVote
      /\ vote'[c] \in Votes /\ c \in Nat
  BY <1>2, <1>5, NoVoteType, ReplicaNat
<1>9. ReplicaOK(c)'
  <2>1. DiskOK(c)'
    BY <1>1, <1>2, <1>4 DEF ReplicaOK, DiskOK
  <2>2. VoteOK(c)'
    BY <1>1, <1>2, <1>6, <1>8 DEF ReplicaOK, VoteOK, GateOK
  <2>3. GateOK(c)'
    BY <1>1, <1>2 DEF ReplicaOK, GateOK
  <2>. QED
    BY <2>1, <2>2, <2>3 DEF ReplicaOK
<1>10. \A x \in Replica \ {c} : Same(x)
  BY <1>1, <1>5, <1>6 DEF Same
<1>11. ToolOK' /\ HeldBefore
  BY <1>1, <1>2, HeldSame DEF IInv, ToolOK
<1>12. ClaimsKept
  <2>1. Rises(vote[c], vote'[c])
    BY <1>2, <1>8 DEF Rises
  <2>2. \A x \in Replica : Rises(vote[x], vote'[x])
    BY <1>2, <1>5, <2>1, SelfRises DEF Types
  <2>. QED
    BY <1>2, <1>7, <2>2, ClaimsRise
<1>13. FloorOK'
  BY <1>4, <1>5, <1>8, FloorKept DEF IInv
<1>14. \A x \in Replica : LeadsOn(x) /\ AsksOn(x)
  <2>1. LeadsOn(c) /\ AsksOn(c)
    BY <1>2, <1>5, <1>6 DEF LeadsOn, AsksOn
  <2>. QED
    BY <1>1, <1>5, <1>6, <2>1, RoleKept
<1>. QED
  BY <1>4, <1>7, <1>9, <1>10, <1>11, <1>12, <1>13, <1>14, QuietOne

LEMMA NoMatchType == NoMatch \in [Replica -> Nat] /\ \A x \in Replica : NoMatch[x] = 0
BY DEF NoMatch

(* A replica that follows another under its vote. *)
LEMMA FollowsOK ==
    ASSUME Types', NEW r \in Replica, NEW l \in Replica, r # l,
           vote'[r][2] = l, vote'[r][1] >= 1, role'[r] = "follower", match'[r] = NoMatch
    PROVE  VoteOK(r)'
<1>1. /\ match'[r][r] = 0 /\ Len(log'[r]) \in Nat /\ vote'[r] # NoVote
      /\ log'[r] \in Seq(Entries)
  BY NoMatchType, NoVoteType, ReplicaNat, EntryType DEF Types
<1>. QED
  BY <1>1 DEF VoteOK

LEMMA GrantVoteStep ==
    ASSUME IInv, NEW c \in Replica, NEW r \in Replica, GrantVote(c, r)
    PROVE  IInv'
<1>1. UNCHANGED <<log, commit, synced, tails, state, plan, gate, target, tool, acked, writes,
                  budget>>
  BY DEF GrantVote, disks, ghosts
<1>2. /\ Types /\ ReplicaOK(c) /\ ReplicaOK(r) /\ vote[c] \in Votes /\ vote[r] \in Votes
      /\ r # c /\ role[c] = "candidate" /\ vote[r] # NoVote /\ Before(vote[r], vote[c])
  BY DEF IInv, Types, GrantVote
<1>3. vote[c][2] = c /\ vote[c] # NoVote /\ vote[c][1] >= 1 /\ vote[c][1] \in Nat /\ c \in Nat
  BY <1>2, NoVoteType, ReplicaNat, VoteType DEF ReplicaOK, VoteOK
<1>4. /\ vote' = [x \in Replica |-> IF x \in {r} THEN vote[c] ELSE vote[x]]
      /\ role' = [x \in Replica |-> IF x \in {r} THEN "follower" ELSE role[x]]
      /\ grants' = [grants EXCEPT ![r] = {}, ![c] = @ \cup {r}]
      /\ match' = [match EXCEPT ![r] = NoMatch]
  BY DEF GrantVote, Follow
<1>5. /\ vote' \in [Replica -> Votes] /\ vote'[r] = vote[c]
      /\ role' \in [Replica -> {"leader", "candidate", "follower"}] /\ role'[r] = "follower"
      /\ grants' \in [Replica -> SUBSET Replica] /\ grants'[c] = grants[c] \cup {r}
      /\ match' \in [Replica -> [Replica -> Nat]] /\ match'[r] = NoMatch
      /\ \A x \in Replica \ {r} : vote'[x] = vote[x] /\ role'[x] = role[x] /\ match'[x] = match[x]
      /\ \A x \in Replica \ {r, c} : grants'[x] = grants[x]
  BY <1>2, <1>4, NoMatchType DEF Types
<1>6. Types'
  BY <1>1, <1>2, <1>5 DEF Types
<1>7. ReplicaOK(r)'
  <2>1. DiskOK(r)' /\ GateOK(r)'
    BY <1>1, <1>2 DEF ReplicaOK, DiskOK, GateOK
  <2>2. VoteOK(r)'
    <3>1. r # c /\ vote'[r][2] = c /\ vote'[r][1] >= 1 /\ role'[r] = "follower" /\ match'[r] = NoMatch
      BY <1>2, <1>3, <1>5
    <3>. QED
      BY <3>1, <1>6, FollowsOK
  <2>. QED
    BY <2>1, <2>2 DEF ReplicaOK
<1>8. \A x \in Replica \ {r} : Same(x)
  BY <1>1, <1>5 DEF Same
<1>9. ToolOK' /\ HeldBefore
  BY <1>1, <1>2, HeldSame DEF IInv, ToolOK
<1>10. ClaimsKept
  <2>1. Rises(vote[r], vote'[r])
    BY <1>2, <1>5, AtMostRises DEF AtMost
  <2>2. \A x \in Replica : Rises(vote[x], vote'[x])
    BY <1>2, <1>5, <2>1, SelfRises DEF Types
  <2>. QED
    BY <1>2, <1>6, <2>2, ClaimsRise
<1>11. FloorOK'
  BY <1>1, <1>3, <1>5, FloorKept DEF IInv
<1>12. \A x \in Replica : LeadsOn(x) /\ AsksOn(x)
  <2>1. LeadsOn(r) /\ AsksOn(r)
    BY <1>5, RoleOver
  <2>2. Reached(vote'[r], vote[c][1], c)
    BY <1>3, <1>5 DEF Reached
  <2>3. LeadsOn(c) /\ AsksOn(c)
    BY <1>1, <1>2, <1>5, <2>2 DEF LeadsOn, AsksOn
  <2>. QED
    BY <1>1, <1>5, <2>1, <2>3, RoleKept
<1>. QED
  BY <1>1, <1>6, <1>7, <1>8, <1>9, <1>10, <1>11, <1>12, QuietOne

-----------------------------------------------------------------------------
(* The barrier: a replica that lost its vote takes the leader's as its      *)
(* floor.  Of three replicas it cannot be the majority that claimed more:   *)
(* the leader or the one that confirmed it is, and neither is above it.     *)

Keeps == Cardinality(Replica) <= 3 \/ NoWipes

LEMMA BarrierClaims ==
    ASSUME Keeps, IInv, NEW r \in Replica, NEW l \in Replica, NEW q \in Replica,
           vote[r] = NoVote, role[l] = "leader", r # l, q # l, vote[q] # NoVote,
           AtMost(vote[q], vote[l]), NEW t \in Nat, NEW n \in Replica, Claim(t, n)
    PROVE  Reached(vote[l], t, n)
<1>1. vote[l] \in Votes /\ vote[q] \in Votes /\ Types /\ VoteOK(r) /\ VoteOK(q)
  BY DEF IInv, Types, ReplicaOK
<1>2. Cardinality(Replica) <= 3 /\ q # r
  BY DEF Keeps, IInv, FloorOK
<1>3. Rises(vote[q], vote[l])
  BY <1>1, AtMostRises
<1>4. CASE Backed(t, n)
  <2> DEFINE Q == {x \in Replica : Reached(vote[x], t, n)}
  <2>1. Q \in SUBSET Replica /\ IsQuorum(Q)
    BY <1>4 DEF Backed
  <2>2. l \in Q \/ q \in Q
    <3> HIDE DEF Q
    <3>. QED
      BY <1>2, <2>1, QuorumOfThree
  <2>3. q \in Q => Reached(vote[l], t, n)
    BY <1>1, <1>3, ReachedRises
  <2>. QED
    BY <2>2, <2>3
<1>5. CASE role[n] = "candidate" /\ t = vote[n][1]
  <2>1. IsQuorum(Replica)
    <3>1. Cardinality(Replica) \in Nat /\ Cardinality(Replica) # 0
      BY ReplicaNat, FS_CardinalityType, FS_EmptySet
    <3>. QED
      BY <3>1 DEF IsQuorum
  <2>2. Replica = {r, l, q}
    BY <1>2, <2>1, QuorumOfThree
  <2>3. n # r
    BY <1>1, <1>5, NoVoteType, ReplicaNat DEF VoteOK
  <2>4. n = q
    BY <1>5, <2>2, <2>3
  <2>5. vote[q][2] = q /\ q \in Nat
    BY <1>1, <1>5, <2>4, ReplicaNat DEF VoteOK
  <2>6. Reached(vote[q], t, n)
    BY <1>5, <2>4, <2>5 DEF Reached
  <2>. QED
    BY <1>1, <1>3, <2>6, ReachedRises
<1>. QED
  BY <1>4, <1>5 DEF Claim

LEMMA BarrierStep ==
    ASSUME Keeps, IInv, NEW r \in Replica, NEW l \in Replica, NEW q \in Replica,
           Barrier(r, l, q)
    PROVE  IInv'
<1>1. UNCHANGED <<log, commit, synced, tails, state, plan, tool, acked, writes, budget>>
  BY DEF Barrier, disks, ghosts
<1>2. /\ Types /\ ReplicaOK(r) /\ ReplicaOK(q) /\ role[l] = "leader" /\ l # r /\ q # l
      /\ vote[r] \in {NoVote, vote[l]} /\ vote[q] # NoVote /\ AtMost(vote[q], vote[l])
      /\ gate[r] \in {"closed", "catchup"} /\ vote[r] \in Votes /\ vote[q] \in Votes
  BY DEF IInv, Types, Barrier, AdmitsLeader
<1>3. /\ vote[l][2] = l /\ vote[l] # NoVote /\ vote[l][1] >= 1 /\ vote[l][1] \in Nat
      /\ l \in Nat /\ vote[l] \in Votes
  <2>1. ReplicaOK(l) /\ vote[l] \in Votes /\ vote[l] # NoVote /\ vote[l][2] = l
    BY <1>2, LeaderHas
  <2>. QED
    BY <2>1, ReplicaNat, VoteType DEF ReplicaOK, VoteOK
<1>4. /\ vote' = [x \in Replica |-> IF x \in {q, r} THEN vote[l] ELSE vote[x]]
      /\ role' = [x \in Replica |-> IF x \in {q, r} THEN "follower" ELSE role[x]]
      /\ grants' = [x \in Replica |-> IF x \in {q, r} THEN {} ELSE grants[x]]
      /\ match' = [x \in Replica |-> IF x \in {q, r} THEN NoMatch ELSE match[x]]
      /\ gate' = [gate EXCEPT ![r] = "catchup"]
  BY DEF Barrier, Follow, StepDown
<1>5. PICK i \in Nat : i >= 1 /\ target' = [target EXCEPT ![r] = [v |-> vote[l], i |-> i]]
  <2>1. /\ commit[l] \in 1 .. Len(log[l]) /\ Len(log[l]) \in Nat
        /\ target[r].i \in Nat
    BY <1>2, LeaderHas DEF Types
  <2>2. BarrierIndex(l) = Len(log[l])
    <3>1. commit[l] \in Int /\ Len(log[l]) \in Int
      BY <2>1
    <3>2. BarrierIndex(l) = IF commit[l] >= Len(log[l]) THEN commit[l] ELSE Len(log[l])
      BY <3>1, MinMax DEF BarrierIndex
    <3>. QED
      BY <2>1, <3>2
  <2>4. BarrierIndex(l) \in Nat /\ BarrierIndex(l) >= 1
    BY <2>1, <2>2
  <2>3. Max({target[r].i, BarrierIndex(l)}) \in Nat /\ Max({target[r].i, BarrierIndex(l)}) >= 1
    <3>1. target[r].i \in Int /\ BarrierIndex(l) \in Int
      BY <2>1, <2>4
    <3>2. Max({target[r].i, BarrierIndex(l)})
            = IF target[r].i >= BarrierIndex(l) THEN target[r].i ELSE BarrierIndex(l)
      BY <3>1, MinMax
    <3>. QED
      BY <2>1, <2>4, <3>2
  <2>. QED
    BY <2>3, <2>4 DEF Barrier
<1>6. /\ vote' \in [Replica -> Votes]
      /\ role' \in [Replica -> {"leader", "candidate", "follower"}]
      /\ grants' \in [Replica -> SUBSET Replica]
      /\ match' \in [Replica -> [Replica -> Nat]]
      /\ \A x \in {q, r} : vote'[x] = vote[l] /\ role'[x] = "follower" /\ match'[x] = NoMatch
      /\ \A x \in Replica \ {q, r} : /\ vote'[x] = vote[x] /\ role'[x] = role[x]
                                     /\ match'[x] = match[x] /\ grants'[x] = grants[x]
  BY <1>2, <1>3, <1>4, NoMatchType DEF Types
<1>7. /\ gate' \in [Replica -> {"open", "closed", "catchup", "planned", "leads"}]
      /\ target' \in [Replica -> [v : Votes, i : Nat]]
      /\ gate'[r] = "catchup" /\ target'[r] = [v |-> vote[l], i |-> i]
      /\ \A x \in Replica \ {r} : gate'[x] = gate[x] /\ target'[x] = target[x]
  BY <1>2, <1>3, <1>4, <1>5 DEF Types
<1>8. Types'
  BY <1>1, <1>2, <1>6, <1>7 DEF Types
<1>9. ASSUME NEW x \in {q, r} PROVE ReplicaOK(x)'
  <2>1. DiskOK(x)'
    BY <1>1, <1>2 DEF ReplicaOK, DiskOK
  <2>2. VoteOK(x)'
    BY <1>2, <1>3, <1>6, <1>8, FollowsOK
  <2>3. GateOK(x)'
    <3>1. CASE x = r
      <4>1. target'[r].i = i /\ target'[r] # NoTarget
        BY <1>5, <1>7 DEF NoTarget
      <4>. QED
        BY <1>1, <1>2, <1>5, <1>7, <3>1, <4>1 DEF ReplicaOK, GateOK
    <3>2. CASE x # r
      BY <1>1, <1>2, <1>7, <3>2 DEF ReplicaOK, GateOK
    <3>. QED
      BY <3>1, <3>2
  <2>. QED
    BY <2>1, <2>2, <2>3 DEF ReplicaOK
<1>10. \A x \in Replica \ {q, r} : Same(x)
  BY <1>1, <1>6, <1>7 DEF Same
<1>11. ToolOK' /\ HeldBefore
  BY <1>1, <1>2, HeldSame DEF IInv, ToolOK
<1>12. ClaimsKept
  <2>1. SUFFICES ASSUME NEW x \in Replica, NEW n \in Replica, NEW t \in Nat, Claim(t, n),
                        Reached(vote[x], t, n)
                 PROVE  Reached(vote'[x], t, n)
    BY DEF ClaimsKept
  <2>2. CASE x = q
    BY <1>2, <1>3, <1>6, <2>1, <2>2, AtMostRises, ReachedRises
  <2>3. CASE x = r /\ vote[r] = NoVote
    BY <1>2, <1>6, <2>1, <2>3, BarrierClaims
  <2>. QED
    BY <1>2, <1>6, <2>1, <2>2, <2>3
<1>13. FloorOK'
  BY <1>1, <1>3, <1>6, FloorKept DEF IInv
<1>14. \A x \in Replica : LeadsOn(x) /\ AsksOn(x)
  BY <1>1, <1>6, RoleOver, RoleKept
<1>15. {q, r} \in SUBSET Replica /\ \A x \in {q, r} : ReplicaOK(x)'
  BY <1>9
<1>. QED
  BY <1>1, <1>8, <1>10, <1>11, <1>12, <1>13, <1>14, <1>15, Quiet

-----------------------------------------------------------------------------
(* A lost disk. *)

LEMMA WipeStep ==
    ASSUME IInv, NEW r \in Replica, Wipe(r)
    PROVE  IInv'
<1>1. UNCHANGED <<tool, acked, writes>>
  BY DEF Wipe
<1>2. /\ Types /\ budget \in BudgetType /\ budget.wipes > 0 /\ <<>> \in Seq(Entries)
      /\ NoTarget \in [v : Votes, i : Nat]
  BY NoVoteType, EmptySeq DEF IInv, Types, Wipe, NoTarget, NoVote
<1>3. /\ budget' = [budget EXCEPT !.wipes = @ - 1]
      /\ commit' = [commit EXCEPT ![r] = 0]
      /\ state' = [state EXCEPT ![r] = "Empty"]
      /\ plan' = [plan EXCEPT ![r] = NoPlan]
      /\ gate' = [gate EXCEPT ![r] = "closed"]
      /\ target' = [target EXCEPT ![r] = NoTarget]
      /\ vote' = [x \in Replica |-> IF x \in {r} THEN NoVote ELSE vote[x]]
      /\ role' = [x \in Replica |-> IF x \in {r} THEN "follower" ELSE role[x]]
      /\ match' = [x \in Replica |-> IF x \in {r} THEN NoMatch ELSE match[x]]
      /\ grants' = [x \in Replica |-> IF x \in {r} THEN {} ELSE grants[x]]
      /\ Syncs(r, <<>>)
  BY DEF Wipe, Follow, StepDown
<1>4. budget' \in BudgetType /\ budget'.len = budget.len
  <2>1. budget.wipes - 1 \in Nat
    BY <1>2 DEF BudgetType
  <2>. QED
    BY <1>2, <1>3, <2>1 DEF BudgetType
<1>5. /\ log' \in [Replica -> Seq(Entries)] /\ log'[r] = <<>>
      /\ synced' \in [Replica -> Nat] /\ synced'[r] = 0
      /\ tails' \in [Replica -> SUBSET Seq(Entries)] /\ tails'[r] = {}
      /\ \A x \in Replica \ {r} : /\ log'[x] = log[x] /\ synced'[x] = synced[x]
                                  /\ tails'[x] = tails[x]
  BY <1>2, <1>3, SyncsGives, EntryType
<1>6. /\ commit' \in [Replica -> Nat] /\ commit'[r] = 0
      /\ state' \in [Replica -> {"Empty", "Initialized", "Recovering"}] /\ state'[r] = "Empty"
      /\ plan' \in [Replica -> Plans] /\ plan'[r] = NoPlan
      /\ gate' \in [Replica -> {"open", "closed", "catchup", "planned", "leads"}]
      /\ gate'[r] = "closed" /\ target' \in [Replica -> [v : Votes, i : Nat]]
      /\ target'[r] = NoTarget
      /\ \A x \in Replica \ {r} : /\ commit'[x] = commit[x] /\ state'[x] = state[x]
                                  /\ plan'[x] = plan[x] /\ gate'[x] = gate[x]
                                  /\ target'[x] = target[x]
  BY <1>2, <1>3, NoPlanType DEF Types
<1>7. /\ vote' \in [Replica -> Votes] /\ vote'[r] = NoVote
      /\ role' \in [Replica -> {"leader", "candidate", "follower"}] /\ role'[r] = "follower"
      /\ grants' \in [Replica -> SUBSET Replica]
      /\ match' \in [Replica -> [Replica -> Nat]] /\ match'[r] = NoMatch
      /\ \A x \in Replica \ {r} : /\ vote'[x] = vote[x] /\ role'[x] = role[x]
                                  /\ match'[x] = match[x] /\ grants'[x] = grants[x]
  BY <1>2, <1>3, NoMatchType, NoVoteType DEF Types
<1>8. Types'
  BY <1>1, <1>2, <1>4, <1>5, <1>6, <1>7 DEF Types
<1>9. ReplicaOK(r)'
  <2>1. Len(<<>>) = 0 /\ budget.len \in Nat /\ match'[r][r] = 0 /\ 0 # r
    BY <1>2, <1>7, NoMatchType, ReplicaNat DEF BudgetType
  <2>2. DiskOK(r)'
    BY <1>4, <1>5, <1>6, <2>1 DEF DiskOK
  <2>3. VoteOK(r)'
    BY <1>5, <1>6, <1>7, <2>1, NoVoteType DEF VoteOK
  <2>4. GateOK(r)'
    BY <1>5, <1>6, <2>1, NoPlanType DEF GateOK
  <2>. QED
    BY <2>2, <2>3, <2>4 DEF ReplicaOK
<1>10. \A x \in Replica \ {r} : Same(x)
  BY <1>5, <1>6, <1>7 DEF Same
<1>11. ToolOK'
  BY <1>1 DEF IInv, ToolOK
<1>12. HeldBefore
  <2>1. log[r] \in Held /\ log[r] \in Seq(Entries) /\ Len(log[r]) \in Nat /\ Len(<<>>) = 0
    BY <1>2, HeldType, EntryType
  <2>2. Len(log'[r]) <= Len(log[r]) /\ \A i \in 1 .. Len(log'[r]) : log'[r][i] = log[r][i]
    BY <1>5, <2>1
  <2>. QED
    BY <1>2, <1>5, <1>8, <2>1, <2>2, HeldOne
<1>13. ClaimsKept
  <2>1. \A x \in Replica : Rises(vote[x], vote'[x])
    <3>1. Rises(vote[r], vote'[r])
      BY <1>7 DEF Rises
    <3>. QED
      BY <1>2, <1>7, <3>1, SelfRises DEF Types
  <2>. QED
    BY <1>2, <1>8, <2>1, ClaimsRise
<1>14. FloorOK'
  <2>1. ~NoWipes
    BY <1>2 DEF IInv, FloorOK
  <2>. QED
    BY <2>1 DEF FloorOK, NoWipes
<1>15. \A x \in Replica : LeadsOn(x) /\ AsksOn(x)
  BY <1>5, <1>7, RoleOver, RoleKept
<1>. QED
  BY <1>4, <1>8, <1>9, <1>10, <1>11, <1>12, <1>13, <1>14, <1>15, QuietOne

-----------------------------------------------------------------------------
(* Replication: what a leader sends never cuts a committed entry. *)

LEMMA SentType ==
    ASSUME Types, NEW l \in Replica, NEW r \in Replica, Len(log[l]) >= 1
    PROVE  SentLengths(l, r) \subseteq 1 .. Len(log[l])
<1> DEFINE shared == {i \in 1 .. Min({Len(log[l]), Len(log[r])}) : log[l][i] # log[r][i]}
           first == IF shared = {} THEN Len(log[r]) + 1 ELSE Min(shared)
<1>1. Len(log[l]) \in Nat /\ Len(log[r]) \in Nat
  BY EntryType DEF Types
<1>2. first \in Nat /\ first >= 1
  <2>1. shared \in SUBSET Nat /\ \A i \in shared : i >= 1
    <3>1. Min({Len(log[l]), Len(log[r])}) \in Int
      BY <1>1, MinMax
    <3>. QED
      BY <3>1
  <2>2. shared # {} => Min(shared) \in shared
    <3> HIDE DEF shared
    <3>. QED
      BY <2>1, MinType
  <2>3. CASE shared = {}
    BY <1>1, <2>3
  <2>4. CASE shared # {}
    <3>1. first = Min(shared)
      BY <2>4
    <3>2. Min(shared) \in shared
      BY <2>2, <2>4
    <3> HIDE DEF shared, first
    <3>. QED
      BY <2>1, <3>1, <3>2
  <2>. QED
    BY <2>3, <2>4
<1>3. SentLengths(l, r) = {Min({first, Len(log[l])}), Len(log[l])}
  BY DEF SentLengths
<1>4. Min({first, Len(log[l])}) \in 1 .. Len(log[l])
  <2> HIDE DEF first
  <2>1. first \in Int /\ Len(log[l]) \in Int
    BY <1>1, <1>2
  <2>2. Min({first, Len(log[l])}) = IF first <= Len(log[l]) THEN first ELSE Len(log[l])
    BY <2>1, MinMax
  <2>. QED
    BY <1>1, <1>2, <2>2
<1>. QED
  BY <1>1, <1>3, <1>4

(* An append that is not what the replica holds reaches its marker. *)
LEMMA OverwritesNone ==
    ASSUME IInv, NEW l \in Replica, NEW r \in Replica, NEW n \in 1 .. Len(log[l]),
           ~CommittedOverwrite(r, log[l], n), ~IsPrefix(Prefix(log[l], n), log[r])
    PROVE  commit[r] <= n
<1>1. /\ Types /\ Unique /\ log[l] \in Seq(Entries) /\ log[r] \in Seq(Entries)
      /\ log[l] \in Held /\ log[r] \in Held
      /\ Len(log[l]) \in Nat /\ Len(log[r]) \in Nat /\ commit[r] \in Nat
      /\ commit[r] <= Len(log[r])
  BY HeldType, EntryType DEF IInv, Core, Types, ReplicaOK, DiskOK
<1>2. n \in Nat /\ n \in 0 .. Len(log[l])
  BY <1>1
<1>3. SUFFICES ASSUME n < commit[r] PROVE FALSE
  BY <1>1, <1>2
<1>4. Min({n, commit[r]}) = n
  <2>1. n \in Int /\ commit[r] \in Int
    BY <1>1, <1>2
  <2>. QED
    BY <1>3, <2>1, MinMax
<1>5. ASSUME NEW i \in 1 .. n PROVE log[l][i] = log[r][i]
  <2>1. SameId(log[l][i], log[r][i])
    BY <1>4 DEF CommittedOverwrite, SameId
  <2>2. i \in 1 .. Len(log[l]) /\ i <= Len(log[r])
    BY <1>1, <1>2, <1>3
  <2>. QED
    BY <1>1, <2>1, <2>2 DEF Unique
<1>6. /\ Prefix(log[l], n) \in Seq(Entries) /\ Len(Prefix(log[l], n)) = n
      /\ \A i \in 1 .. n : Prefix(log[l], n)[i] = log[l][i]
  BY <1>1, <1>2, PrefixType
<1>7. n <= Len(log[r])
  BY <1>1, <1>2, <1>3
<1>8. PICK sent : sent = Prefix(log[l], n)
  OBVIOUS
<1>9. sent \in Seq(Entries) /\ Len(sent) = n /\ \A i \in 1 .. n : sent[i] = log[r][i]
  BY <1>5, <1>6, <1>8
<1>10. Len(sent) <= Len(log[r]) /\ \A i \in 1 .. Len(sent) : sent[i] = log[r][i]
  BY <1>7, <1>9
<1>11. IsPrefix(sent, log[r])
  BY <1>1, <1>9, <1>10, IsPrefixIs
<1>. QED
  BY <1>8, <1>11

LEMMA AppendEntriesStep ==
    ASSUME IInv, NEW l \in Replica, NEW r \in Replica, AppendEntries(l, r)
    PROVE  IInv'
<1>1. UNCHANGED <<plan, gate, target, tool, acked, writes, budget>>
  BY DEF AppendEntries, ghosts
<1>2. /\ Types /\ ReplicaOK(l) /\ ReplicaOK(r) /\ role[l] = "leader" /\ r # l
      /\ vote[r] # NoVote /\ AtMost(vote[r], vote[l]) /\ vote[r] \in Votes
  BY DEF IInv, Types, AppendEntries, AdmitsLeader
<1>3. /\ vote[l][2] = l /\ vote[l] # NoVote /\ vote[l][1] >= 1 /\ vote[l] \in Votes
      /\ Len(log[l]) \in Nat /\ Len(log[l]) >= 1 /\ commit[l] \in Nat /\ commit[l] >= 1
      /\ log[l] \in Seq(Entries)
  <2>1. /\ vote[l] \in Votes /\ vote[l] # NoVote /\ vote[l][2] = l
        /\ Len(log[l]) \in Nat /\ commit[l] \in 1 .. Len(log[l]) /\ log[l] \in Seq(Entries)
    BY <1>2, LeaderHas
  <2>. QED
    BY <1>2, <2>1 DEF ReplicaOK, VoteOK
<1>4. PICK n \in SentLengths(l, r) :
        LET sent == Prefix(log[l], n)
            kept == IF IsPrefix(sent, log[r]) THEN log[r] ELSE sent
        IN /\ ~CommittedOverwrite(r, log[l], n)
           /\ IF kept = log[r] THEN UNCHANGED <<log, synced, tails>> ELSE Writes(r, kept)
           /\ commit' = [commit EXCEPT ![r] = Max({commit[r], Min({commit[l], n})})]
           /\ match' = [match EXCEPT ![l][r] = Max({match[l][r], n}), ![r] = NoMatch]
  BY DEF AppendEntries
<1>5. n \in 1 .. Len(log[l]) /\ n \in Nat /\ n >= 1 /\ n \in 0 .. Len(log[l])
  BY <1>2, <1>3, SentType
<1>6. PICK sent : sent = Prefix(log[l], n)
  OBVIOUS
<1>7. PICK kept : kept = IF IsPrefix(sent, log[r]) THEN log[r] ELSE sent
  OBVIOUS
<1>8. /\ ~CommittedOverwrite(r, log[l], n)
      /\ IF kept = log[r] THEN UNCHANGED <<log, synced, tails>> ELSE Writes(r, kept)
      /\ commit' = [commit EXCEPT ![r] = Max({commit[r], Min({commit[l], n})})]
      /\ match' = [match EXCEPT ![l][r] = Max({match[l][r], n}), ![r] = NoMatch]
  BY <1>4, <1>6, <1>7
<1>9. /\ sent \in Seq(Entries) /\ Len(sent) = n
      /\ \A i \in 1 .. n : sent[i] = log[l][i]
  BY <1>3, <1>5, <1>6, PrefixType
<1>10. /\ log[r] \in Seq(Entries) /\ Len(log[r]) \in Nat /\ commit[r] \in Nat
       /\ commit[r] <= Len(log[r]) /\ synced[r] \in Nat /\ synced[r] <= Len(log[r])
       /\ budget.len \in Nat /\ Len(log[r]) <= budget.len /\ Len(log[l]) <= budget.len
  BY <1>2, EntryType DEF ReplicaOK, DiskOK, Types, BudgetType
<1>11. /\ kept \in Seq(Entries) /\ Len(kept) \in Nat /\ n <= Len(kept)
       /\ commit[r] <= Len(kept) /\ Len(kept) <= budget.len
  <2>1. CASE IsPrefix(sent, log[r])
    BY <1>7, <1>9, <1>10, <2>1, IsPrefixIs
  <2>2. CASE ~IsPrefix(sent, log[r])
    <3>1. commit[r] <= n
      BY <1>5, <1>6, <1>8, <2>2, OverwritesNone
    <3>. QED
      BY <1>5, <1>7, <1>9, <1>10, <2>2, <3>1
  <2>. QED
    BY <2>1, <2>2
<1>12. kept # <<>>
  BY <1>5, <1>11, EntryType
<1>13. PICK c \in Nat : c = Max({commit[r], Min({commit[l], n})}) /\ c >= 1 /\ c <= Len(kept)
  <2>1. commit[l] \in Int /\ n \in Int /\ commit[r] \in Int
    BY <1>3, <1>5, <1>10
  <2>2. PICK k : k = Min({commit[l], n})
    OBVIOUS
  <2>3. k = IF commit[l] <= n THEN commit[l] ELSE n
    BY <2>1, <2>2, MinMax
  <2>4. k \in Int /\ k >= 1 /\ k <= n
    BY <1>3, <1>5, <2>1, <2>3
  <2>5. Max({commit[r], k}) = IF commit[r] >= k THEN commit[r] ELSE k
    BY <2>1, <2>4, MinMax
  <2>. QED
    BY <1>5, <1>10, <1>11, <2>2, <2>4, <2>5
<1>14. PICK m \in Nat : m = Max({match[l][r], n})
  <2>1. match[l][r] \in Nat
    BY <1>2 DEF Types
  <2>2. match[l][r] \in Int /\ n \in Int
    BY <1>5, <2>1
  <2>3. Max({match[l][r], n}) = IF match[l][r] >= n THEN match[l][r] ELSE n
    BY <2>2, MinMax
  <2>. QED
    BY <1>5, <2>1, <2>3
<1>15. /\ commit' \in [Replica -> Nat] /\ commit'[r] = c
       /\ \A x \in Replica \ {r} : commit'[x] = commit[x]
  BY <1>2, <1>8, <1>13 DEF Types
<1>16. /\ match' \in [Replica -> [Replica -> Nat]] /\ match'[r] = NoMatch
       /\ \A x \in Replica \ {r} : match'[x][x] = match[x][x]
  <2>1. match \in [Replica -> [Replica -> Nat]]
    BY <1>2 DEF Types
  <2>2. match' = [match EXCEPT ![l] = [match[l] EXCEPT ![r] = m], ![r] = NoMatch]
    BY <1>2, <1>8, <1>14, <2>1
  <2>3. match[l] \in [Replica -> Nat]
    BY <2>1
  <2>4. /\ [match[l] EXCEPT ![r] = m] \in [Replica -> Nat]
        /\ [match[l] EXCEPT ![r] = m][l] = match[l][l]
    BY <1>2, <2>3
  <2>. QED
    BY <1>2, <2>1, <2>2, <2>4, NoMatchType
<1>17. /\ log' \in [Replica -> Seq(Entries)] /\ log'[r] = kept
       /\ \A x \in Replica \ {r} : /\ log'[x] = log[x] /\ synced'[x] = synced[x]
                                   /\ tails'[x] = tails[x]
       /\ synced' \in [Replica -> Nat] /\ synced'[r] <= synced[r] /\ synced'[r] <= Len(kept)
       /\ tails' \in [Replica -> SUBSET Seq(Entries)]
       /\ tails'[r] \subseteq tails[r] \cup {log[r]}
  <2>1. CASE kept = log[r]
    BY <1>2, <1>8, <1>10, <2>1 DEF Types
  <2>2. CASE kept # log[r]
    <3>1. Writes(r, kept)
      BY <1>8, <2>2
    <3>2. log' = [log EXCEPT ![r] = kept]
      BY <1>2, <1>11, <3>1, WritesGives
    <3>3. PICK k \in Nat : k <= synced[r] /\ k <= Len(kept) /\ synced' = [synced EXCEPT ![r] = k]
      BY <1>2, <1>11, <3>1, WritesGives
    <3>4. PICK T \in {tails[r], tails[r] \cup {log[r]}} : tails' = [tails EXCEPT ![r] = T]
      BY <1>2, <1>11, <3>1, WritesGives
    <3>5. T \in SUBSET Seq(Entries) /\ T \subseteq tails[r] \cup {log[r]}
      BY <1>2, <1>10, <3>4 DEF Types
    <3>. QED
      BY <1>2, <1>11, <3>2, <3>3, <3>4, <3>5 DEF Types
  <2>. QED
    BY <2>1, <2>2
<1>18. /\ vote' = [x \in Replica |-> IF x \in {r} THEN vote[l] ELSE vote[x]]
       /\ role' = [x \in Replica |-> IF x \in {r} THEN "follower" ELSE role[x]]
       /\ grants' = [grants EXCEPT ![r] = {}]
       /\ state' = [state EXCEPT ![r] = IF @ = "Empty" THEN "Recovering" ELSE @]
  BY DEF AppendEntries, Follow
<1>19. /\ vote' \in [Replica -> Votes] /\ vote'[r] = vote[l]
       /\ role' \in [Replica -> {"leader", "candidate", "follower"}] /\ role'[r] = "follower"
       /\ grants' \in [Replica -> SUBSET Replica]
       /\ state' \in [Replica -> {"Empty", "Initialized", "Recovering"}] /\ state'[r] # "Empty"
       /\ \A x \in Replica \ {r} : /\ vote'[x] = vote[x] /\ role'[x] = role[x]
                                   /\ grants'[x] = grants[x] /\ state'[x] = state[x]
  BY <1>2, <1>3, <1>18 DEF Types
<1>20. Types'
  BY <1>1, <1>2, <1>15, <1>16, <1>17, <1>19 DEF Types
<1>21. ReplicaOK(r)'
  <2>1. ASSUME NEW u \in tails'[r] PROVE Len(u) >= synced'[r] /\ Len(u) <= budget.len
    <3>1. u \in tails[r] \/ u = log[r]
      BY <1>17
    <3>2. Len(u) \in Nat /\ Len(u) >= synced[r] /\ Len(u) <= budget.len
      BY <1>2, <1>10, <3>1, EntryType DEF ReplicaOK, DiskOK, Types
    <3>. QED
      BY <1>10, <1>17, <3>2
  <2>2. DiskOK(r)'
    BY <1>1, <1>11, <1>12, <1>13, <1>15, <1>17, <1>19, <2>1 DEF DiskOK
  <2>3. VoteOK(r)'
    <3>1. r # l /\ vote'[r][2] = l /\ vote'[r][1] >= 1 /\ role'[r] = "follower" /\ match'[r] = NoMatch
      BY <1>2, <1>3, <1>16, <1>19
    <3>. QED
      BY <3>1, <1>20, FollowsOK
  <2>4. GateOK(r)'
    BY <1>1, <1>2, <1>12, <1>17 DEF ReplicaOK, GateOK
  <2>. QED
    BY <2>2, <2>3, <2>4 DEF ReplicaOK
<1>22. \A x \in Replica \ {r} : Same(x)
  BY <1>1, <1>15, <1>16, <1>17, <1>19 DEF Same
<1>23. HeldBefore
  <2>1. \A x \in Replica : log[x] \in Held /\ \A u \in tails[x] : u \in Held
    BY <1>2, HeldType
  <2>2. \A u \in tails'[r] : u \in Held
    BY <1>17, <2>1
  <2>3. CASE kept = log[r]
    <3>1. Len(log'[r]) <= Len(log[r]) /\ \A i \in 1 .. Len(log'[r]) : log'[r][i] = log[r][i]
      BY <1>10, <1>17, <2>3
    <3>. QED
      BY <1>2, <1>17, <1>20, <2>1, <2>2, <3>1, HeldOne
  <2>4. CASE kept # log[r]
    <3>1. Len(log'[r]) <= Len(log[l]) /\ \A i \in 1 .. Len(log'[r]) : log'[r][i] = log[l][i]
      BY <1>3, <1>5, <1>7, <1>9, <1>17, <2>4
    <3>. QED
      BY <1>2, <1>17, <1>20, <2>1, <2>2, <3>1, HeldOne
  <2>. QED
    BY <2>3, <2>4
<1>24. ClaimsKept
  <2>1. \A x \in Replica : Rises(vote[x], vote'[x])
    BY <1>2, <1>3, <1>19, AtMostRises, SelfRises DEF Types
  <2>. QED
    BY <1>2, <1>20, <2>1, ClaimsRise
<1>25. FloorOK' /\ ToolOK'
  BY <1>1, <1>3, <1>19, FloorKept DEF IInv, ToolOK
<1>26. \A x \in Replica : LeadsOn(x) /\ AsksOn(x)
  BY <1>17, <1>19, RoleOver, RoleKept
<1>. QED
  BY <1>1, <1>20, <1>21, <1>22, <1>23, <1>24, <1>25, <1>26, QuietOne

-----------------------------------------------------------------------------
(* Starts. *)

LEMMA StartVoteGives ==
    ASSUME Types, NEW r \in Replica, VoteOK(r), NEW record \in Plans, NEW held,
           NEW clean \in BOOLEAN, record # NoPlan => vote[r] # NoVote,
           NEW v, v = StartVote(r, record, held, clean)
    PROVE  /\ v \in Votes /\ Rises(vote[r], v) /\ (v = NoVote <=> vote[r] = NoVote)
           /\ v # NoVote => v[1] >= 1
           /\ v[2] = r /\ v[3] = 1 =>
                clean /\ record = NoPlan /\ role[r] = "leader" /\ v = vote[r]
<1>1. /\ vote[r] \in Votes /\ vote[r][1] \in Nat /\ vote[r][2] \in {0} \cup Replica
      /\ vote[r][3] \in {0, 1} /\ vote[r][2] \in Nat
      /\ vote[r] = <<vote[r][1], vote[r][2], vote[r][3]>>
      /\ r \in Nat /\ r # 0 /\ record.term \in Nat
  BY VoteType, ReplicaNat DEF Types, Plans
<1>2. PICK f : f = StartAsFollower(r, vote[r])
  OBVIOUS
<1>3. /\ f \in Votes /\ f[1] = vote[r][1] /\ f[2] = vote[r][2] /\ (f[2] = r => f[3] = 0)
      /\ (f = NoVote <=> vote[r] = NoVote)
  <2>1. CASE vote[r][2] = r
    <3>1. f = <<vote[r][1], vote[r][2], 0>>
      BY <1>2, <2>1 DEF StartAsFollower
    <3>2. f \in Votes /\ f[1] = vote[r][1] /\ f[2] = vote[r][2] /\ f[3] = 0
      BY <1>1, <3>1, VoteMade
    <3>. QED
      BY <1>1, <2>1, <3>2, NoVoteType
  <2>2. CASE vote[r][2] # r
    BY <1>1, <1>2, <2>2 DEF StartAsFollower
  <2>. QED
    BY <2>1, <2>2
<1>4. PICK w : w = IF clean /\ record = NoPlan /\ held # "Recovering" THEN vote[r] ELSE f
  OBVIOUS
<1>5. /\ w \in Votes /\ w[1] = vote[r][1] /\ w[2] = vote[r][2]
      /\ (w = NoVote <=> vote[r] = NoVote)
      /\ w[2] = r /\ w[3] = 1 => clean /\ record = NoPlan /\ w = vote[r]
  BY <1>1, <1>3, <1>4
<1>6. v = IF record # NoPlan /\ held # "Recovering" /\ record.leader = r
          THEN Later(w, <<record.term, r, 0>>) ELSE w
  BY <1>2, <1>4 DEF StartVote
<1>7. Rises(vote[r], w)
  BY <1>1, <1>5 DEF Rises
<1>8. w # NoVote => w[1] >= 1
  BY <1>5 DEF VoteOK
<1>9. w[2] = r /\ w[3] = 1 => role[r] = "leader"
  BY <1>5 DEF VoteOK
<1>10. CASE v = w
  BY <1>5, <1>7, <1>8, <1>9, <1>10
<1>11. CASE v # w
  <2>1. v = <<record.term, r, 0>> /\ Before(w, v) /\ record # NoPlan
    BY <1>6, <1>11 DEF Later
  <2>2. v \in Votes /\ v[1] = record.term /\ v[2] = r /\ v[3] = 0
    <3>1. record.term \in Nat /\ r \in {0} \cup Replica /\ 0 \in {0, 1}
      BY <1>1
    <3>2. <<record.term, r, 0>> \in Votes
      BY <3>1, VoteMade
    <3>. QED
      BY <2>1, <3>2
  <2>3. vote[r] # NoVote /\ w # NoVote /\ v # NoVote
    BY <1>1, <1>5, <2>1, <2>2, NoVoteType
  <2>4. v[1] > vote[r][1] \/ (v[1] = vote[r][1] /\ v[2] >= vote[r][2])
    BY <1>1, <1>5, <2>1, <2>2 DEF Before
  <2>5. v[1] >= 1
    BY <1>1, <1>5, <1>8, <2>2, <2>3, <2>4
  <2>. QED
    BY <2>2, <2>3, <2>4, <2>5 DEF Rises
<1>. QED
  BY <1>10, <1>11

LEMMA StartGateGives ==
    ASSUME NEW r \in Replica, NEW record \in Plans,
           NEW held \in {"Empty", "Initialized", "Recovering"},
           NEW g, g = StartGate(r, record, held)
    PROVE  /\ g \in {"open", "closed", "planned", "leads"}
           /\ g \in {"planned", "leads"} => record # NoPlan
           /\ g = "leads" => record.leader = r
           /\ g = "open" => held = "Initialized"
<1>1. CASE record # NoPlan /\ held = "Recovering"
  BY <1>1 DEF StartGate
<1>2. CASE record # NoPlan /\ held # "Recovering"
  BY <1>2 DEF StartGate, PlannedGate
<1>3. CASE record = NoPlan
  BY <1>3 DEF StartGate
<1>. QED
  BY <1>1, <1>2, <1>3

LEMMA StartsGives ==
    ASSUME Types, NEW r \in Replica, VoteOK(r), NEW s \in Seq(Entries), NEW marker \in Nat,
           NEW record \in Plans, NEW held \in {"Empty", "Initialized", "Recovering"},
           NEW clean \in BOOLEAN, record # NoPlan => vote[r] # NoVote,
           Starts(r, s, marker, record, held, clean)
    PROVE  /\ commit' \in [Replica -> Nat] /\ commit'[r] = marker
           /\ vote' \in [Replica -> Votes] /\ Rises(vote[r], vote'[r])
           /\ vote'[r] = NoVote <=> vote[r] = NoVote
           /\ vote'[r] # NoVote => vote'[r][1] >= 1
           /\ state' \in [Replica -> {"Empty", "Initialized", "Recovering"}] /\ state'[r] = held
           /\ plan' \in [Replica -> Plans] /\ plan'[r] = record
           /\ gate' \in [Replica -> {"open", "closed", "catchup", "planned", "leads"}]
           /\ gate'[r] = StartGate(r, record, held)
           /\ target' \in [Replica -> [v : Votes, i : Nat]] /\ target'[r] = NoTarget
           /\ role' \in [Replica -> {"leader", "candidate", "follower"}]
           /\ role'[r] \in {"leader", "follower"}
           /\ role'[r] = "leader" <=> vote'[r][2] = r /\ vote'[r][3] = 1
           /\ role'[r] = "leader" =>
                clean /\ record = NoPlan /\ role[r] = "leader" /\ vote'[r] = vote[r]
           /\ match' \in [Replica -> [Replica -> Nat]]
           /\ match'[r][r] = IF role'[r] = "leader" THEN Len(s) ELSE 0
           /\ grants' \in [Replica -> SUBSET Replica]
           /\ \A x \in Replica \ {r} :
                /\ commit'[x] = commit[x] /\ vote'[x] = vote[x] /\ state'[x] = state[x]
                /\ plan'[x] = plan[x] /\ gate'[x] = gate[x] /\ target'[x] = target[x]
                /\ role'[x] = role[x] /\ match'[x] = match[x] /\ grants'[x] = grants[x]
<1>1. PICK v : v = StartVote(r, record, held, clean)
  OBVIOUS
<1>2. PICK g : g = StartGate(r, record, held)
  OBVIOUS
<1>3. PICK leads \in BOOLEAN : leads <=> v[2] = r /\ v[3] = 1
  OBVIOUS
<1>4. /\ commit' = [commit EXCEPT ![r] = marker]
      /\ vote' = [vote EXCEPT ![r] = v]
      /\ state' = [state EXCEPT ![r] = held]
      /\ plan' = [plan EXCEPT ![r] = record]
      /\ gate' = [gate EXCEPT ![r] = g]
      /\ target' = [target EXCEPT ![r] = NoTarget]
      /\ role' = [role EXCEPT ![r] = IF leads THEN "leader" ELSE "follower"]
      /\ grants' = [grants EXCEPT ![r] = {}]
      /\ match' = [match EXCEPT ![r] = IF leads THEN [NoMatch EXCEPT ![r] = Len(s)]
                                       ELSE NoMatch]
  BY <1>1, <1>2, <1>3 DEF Starts
<1>5. /\ v \in Votes /\ Rises(vote[r], v) /\ (v = NoVote <=> vote[r] = NoVote)
      /\ v # NoVote => v[1] >= 1
      /\ v[2] = r /\ v[3] = 1 =>
                clean /\ record = NoPlan /\ role[r] = "leader" /\ v = vote[r]
  BY <1>1, StartVoteGives
<1>6. g \in {"open", "closed", "planned", "leads"}
  BY <1>2, StartGateGives
<1>7. /\ commit' \in [Replica -> Nat] /\ commit'[r] = marker
      /\ vote' \in [Replica -> Votes] /\ vote'[r] = v
      /\ \A x \in Replica \ {r} : commit'[x] = commit[x] /\ vote'[x] = vote[x]
  BY <1>4, <1>5 DEF Types
<1>8. /\ state' \in [Replica -> {"Empty", "Initialized", "Recovering"}] /\ state'[r] = held
      /\ plan' \in [Replica -> Plans] /\ plan'[r] = record
      /\ gate' \in [Replica -> {"open", "closed", "catchup", "planned", "leads"}] /\ gate'[r] = g
      /\ \A x \in Replica \ {r} : state'[x] = state[x] /\ plan'[x] = plan[x] /\ gate'[x] = gate[x]
  BY <1>4, <1>6 DEF Types
<1>9. /\ target' \in [Replica -> [v : Votes, i : Nat]] /\ target'[r] = NoTarget
      /\ \A x \in Replica \ {r} : target'[x] = target[x]
  <2>1. NoTarget \in [v : Votes, i : Nat]
    BY NoVoteType DEF NoTarget, NoVote
  <2>. QED
    BY <1>4, <2>1 DEF Types
<1>10. /\ role' \in [Replica -> {"leader", "candidate", "follower"}]
       /\ role'[r] = IF leads THEN "leader" ELSE "follower"
       /\ grants' \in [Replica -> SUBSET Replica]
       /\ \A x \in Replica \ {r} : role'[x] = role[x] /\ grants'[x] = grants[x]
  BY <1>4 DEF Types
<1>11. /\ match' \in [Replica -> [Replica -> Nat]]
       /\ match'[r][r] = IF leads THEN Len(s) ELSE 0
       /\ \A x \in Replica \ {r} : match'[x] = match[x]
  <2>1. Len(s) \in Nat /\ NoMatch \in [Replica -> Nat] /\ NoMatch[r] = 0
    BY EntryType, NoMatchType
  <2>2. /\ [NoMatch EXCEPT ![r] = Len(s)] \in [Replica -> Nat]
        /\ [NoMatch EXCEPT ![r] = Len(s)][r] = Len(s)
    BY <2>1
  <2>. QED
    BY <1>4, <2>1, <2>2 DEF Types
<1>. QED
  BY <1>2, <1>3, <1>5, <1>7, <1>8, <1>9, <1>10, <1>11

\* A start over the journal s, a prefix of what a crash may have left.
StartsFrom(r, s, marker, record, held, clean, base) ==
  /\ Starts(r, s, marker, record, held, clean)
  /\ record # NoPlan => vote[r] # NoVote
  /\ log' \in [Replica -> Seq(Entries)] /\ log'[r] = s
  /\ synced' \in [Replica -> Nat] /\ synced'[r] <= Len(s)
  /\ tails' \in [Replica -> SUBSET Seq(Entries)]
  /\ \A u \in tails'[r] : u \in tails[r] /\ Len(u) >= synced'[r]
  /\ \A x \in Replica \ {r} :
       log'[x] = log[x] /\ synced'[x] = synced[x] /\ tails'[x] = tails[x]
  /\ s = <<>> => tails'[r] = {}
  /\ marker <= Len(s)
  /\ s # <<>> => marker >= 1
  /\ held = "Empty" <=> s = <<>>
  /\ record.leader = r => s # <<>>
  /\ clean /\ record = NoPlan => s = log[r]
  /\ base \in {log[r]} \cup tails[r] /\ Len(s) <= Len(base)
  /\ \A i \in 1 .. Len(s) : s[i] = base[i]

LEMMA StartStep ==
    ASSUME IInv, NEW r \in Replica, NEW s \in Seq(Entries), NEW marker \in Nat,
           NEW record \in Plans, NEW held \in {"Empty", "Initialized", "Recovering"},
           NEW clean \in BOOLEAN, NEW base,
           StartsFrom(r, s, marker, record, held, clean, base),
           ToolOK', writes' = writes, budget' \in BudgetType, budget'.len = budget.len,
           budget'.wipes = budget.wipes
    PROVE  IInv'
<1>0. /\ Starts(r, s, marker, record, held, clean)
      /\ record # NoPlan => vote[r] # NoVote
      /\ log' \in [Replica -> Seq(Entries)] /\ log'[r] = s
      /\ synced' \in [Replica -> Nat] /\ synced'[r] <= Len(s)
      /\ tails' \in [Replica -> SUBSET Seq(Entries)]
      /\ \A u \in tails'[r] : u \in tails[r] /\ Len(u) >= synced'[r]
      /\ \A x \in Replica \ {r} :
           log'[x] = log[x] /\ synced'[x] = synced[x] /\ tails'[x] = tails[x]
      /\ s = <<>> => tails'[r] = {}
      /\ marker <= Len(s)
      /\ s # <<>> => marker >= 1
      /\ held = "Empty" <=> s = <<>>
      /\ record.leader = r => s # <<>>
      /\ clean /\ record = NoPlan => s = log[r]
      /\ base \in {log[r]} \cup tails[r] /\ Len(s) <= Len(base)
      /\ \A i \in 1 .. Len(s) : s[i] = base[i]
  BY DEF StartsFrom
<1>1. /\ Types /\ ReplicaOK(r) /\ DiskOK(r) /\ VoteOK(r) /\ Len(s) \in Nat
      /\ base \in Seq(Entries) /\ Len(base) \in Nat /\ budget.len \in Nat
  <2>1. Types /\ ReplicaOK(r) /\ DiskOK(r) /\ VoteOK(r)
    BY DEF IInv, ReplicaOK
  <2>2. log[r] \in Seq(Entries) /\ tails[r] \in SUBSET Seq(Entries) /\ budget.len \in Nat
    BY <2>1 DEF Types, BudgetType
  <2>3. base \in Seq(Entries)
    BY <1>0, <2>2
  <2>. QED
    BY <2>1, <2>2, <2>3, EntryType
<1>2. /\ commit' \in [Replica -> Nat] /\ commit'[r] = marker
      /\ vote' \in [Replica -> Votes] /\ Rises(vote[r], vote'[r])
      /\ vote'[r] = NoVote <=> vote[r] = NoVote
      /\ vote'[r] # NoVote => vote'[r][1] >= 1
      /\ state' \in [Replica -> {"Empty", "Initialized", "Recovering"}] /\ state'[r] = held
      /\ plan' \in [Replica -> Plans] /\ plan'[r] = record
      /\ gate' \in [Replica -> {"open", "closed", "catchup", "planned", "leads"}]
      /\ gate'[r] = StartGate(r, record, held)
      /\ target' \in [Replica -> [v : Votes, i : Nat]] /\ target'[r] = NoTarget
      /\ role' \in [Replica -> {"leader", "candidate", "follower"}]
      /\ role'[r] \in {"leader", "follower"}
      /\ role'[r] = "leader" <=> vote'[r][2] = r /\ vote'[r][3] = 1
      /\ role'[r] = "leader" =>
           clean /\ record = NoPlan /\ role[r] = "leader" /\ vote'[r] = vote[r]
      /\ match' \in [Replica -> [Replica -> Nat]]
      /\ match'[r][r] = IF role'[r] = "leader" THEN Len(s) ELSE 0
      /\ grants' \in [Replica -> SUBSET Replica]
      /\ \A x \in Replica \ {r} :
           /\ commit'[x] = commit[x] /\ vote'[x] = vote[x] /\ state'[x] = state[x]
           /\ plan'[x] = plan[x] /\ gate'[x] = gate[x] /\ target'[x] = target[x]
           /\ role'[x] = role[x] /\ match'[x] = match[x] /\ grants'[x] = grants[x]
  BY <1>0, <1>1, StartsGives
<1>3. Types'
  BY <1>0, <1>1, <1>2 DEF Types
<1>4. DiskOK(r)'
  <2>1. Len(base) <= budget.len
    BY <1>0, <1>1 DEF DiskOK
  <2>2. Len(s) <= budget'.len
    BY <1>0, <1>1, <2>1
  <2>3. \A u \in tails'[r] : Len(u) >= synced'[r] /\ Len(u) <= budget'.len
    BY <1>0, <1>1 DEF DiskOK
  <2>. QED
    BY <1>0, <1>2, <2>2, <2>3 DEF DiskOK
<1>5. VoteOK(r)'
  <2>1. role'[r] = "leader" => s # <<>> /\ Len(s) >= 1
    BY <1>0, <1>1, <1>2, EntryType DEF VoteOK
  <2>2. match'[r][r] <= Len(log'[r]) /\ (role'[r] = "leader" => match'[r][r] >= 1)
    BY <1>0, <1>1, <1>2, <2>1
  <2>. QED
    BY <1>0, <1>2, <2>1, <2>2 DEF VoteOK
<1>6. GateOK(r)'
  <2>1. PICK g : g = StartGate(r, record, held)
    OBVIOUS
  <2>2. /\ g \in {"open", "closed", "planned", "leads"}
        /\ g \in {"planned", "leads"} => record # NoPlan
        /\ g = "leads" => record.leader = r
        /\ g = "open" => held = "Initialized"
    BY <2>1, StartGateGives
  <2>. QED
    BY <1>0, <1>2, <2>1, <2>2 DEF GateOK
<1>7. ReplicaOK(r)'
  BY <1>4, <1>5, <1>6 DEF ReplicaOK
<1>8. ASSUME NEW x \in Replica \ {r} PROVE Same(x)
  <2>1. x \in Replica /\ x # r
    OBVIOUS
  <2>. QED
    BY <1>0, <1>2, <2>1 DEF Same
<1>9. HeldBefore
  <2>1. base \in Held /\ \A u \in tails'[r] : u \in Held
    BY <1>0, <1>1, HeldType
  <2>. QED
    BY <1>0, <1>1, <1>3, <2>1, HeldOne
<1>10. ClaimsKept
  <2>1. \A x \in Replica : Rises(vote[x], vote'[x])
    BY <1>1, <1>2, SelfRises DEF Types
  <2>. QED
    BY <1>1, <1>3, <2>1, ClaimsRise
<1>11. FloorOK'
  BY <1>2, FloorKept DEF IInv
<1>12. \A x \in Replica : LeadsOn(x) /\ AsksOn(x)
  <2>1. LeadsOn(r) /\ AsksOn(r)
    BY <1>0, <1>2 DEF LeadsOn, AsksOn
  <2>2. ASSUME NEW x \in Replica \ {r} PROVE LeadsOn(x) /\ AsksOn(x)
    <3>1. x \in Replica /\ x # r
      OBVIOUS
    <3>2. /\ role'[x] = role[x] /\ vote'[x] = vote[x] /\ log'[x] = log[x]
          /\ grants'[x] = grants[x]
      BY <1>0, <1>2, <3>1
    <3>. QED
      BY <3>1, <3>2, RoleKept
  <2>. QED
    BY <2>1, <2>2
<1>. QED
  BY <1>3, <1>7, <1>8, <1>9, <1>10, <1>11, <1>12, QuietOne

LEMMA RestartedGives ==
    ASSUME Types, NEW r, NEW how, Restarted(r, how)
    PROVE  /\ budget' \in BudgetType /\ budget'.len = budget.len
           /\ budget'.wipes = budget.wipes
<1>1. budget \in BudgetType /\ budget.restarts > 0
      /\ budget' = [budget EXCEPT !.restarts = @ - 1]
  BY DEF Types, Restarted
<1>2. budget.restarts - 1 \in Nat
  BY <1>1 DEF BudgetType
<1>. QED
  BY <1>1, <1>2 DEF BudgetType

(* What every replica's journal, marker and plan are. *)
LEMMA ReplicaHas ==
    ASSUME IInv, NEW r \in Replica
    PROVE  /\ Types /\ log[r] \in Seq(Entries) /\ Len(log[r]) \in Nat
           /\ (log[r] = <<>> <=> Len(log[r]) = 0)
           /\ commit[r] \in Nat /\ commit[r] <= Len(log[r])
           /\ (log[r] # <<>> => commit[r] >= 1)
           /\ synced[r] \in Nat /\ synced[r] <= Len(log[r])
           /\ plan[r] \in Plans /\ (plan[r] # NoPlan => vote[r] # NoVote)
           /\ (plan[r].leader = r => log[r] # <<>>)
           /\ state[r] \in {"Empty", "Initialized", "Recovering"}
           /\ (state[r] = "Empty" <=> log[r] = <<>>)
           /\ (log[r] = <<>> => tails[r] = {})
           /\ \A u \in tails[r] : u \in Seq(Entries) /\ Len(u) \in Nat /\ Len(u) >= synced[r]
           /\ log \in [Replica -> Seq(Entries)] /\ synced \in [Replica -> Nat]
           /\ tails \in [Replica -> SUBSET Seq(Entries)]
<1>1. Types /\ DiskOK(r) /\ VoteOK(r) /\ GateOK(r)
  BY DEF IInv, ReplicaOK
<1>2. /\ log[r] \in Seq(Entries) /\ tails[r] \in SUBSET Seq(Entries) /\ commit[r] \in Nat
      /\ synced[r] \in Nat /\ plan[r] \in Plans
      /\ state[r] \in {"Empty", "Initialized", "Recovering"}
  BY <1>1 DEF Types
<1>3. Len(log[r]) \in Nat /\ (log[r] = <<>> <=> Len(log[r]) = 0)
  BY <1>2, EntryType
<1>4. \A u \in tails[r] : u \in Seq(Entries) /\ Len(u) \in Nat
  BY <1>2, EntryType
<1>5. /\ log \in [Replica -> Seq(Entries)] /\ synced \in [Replica -> Nat]
      /\ tails \in [Replica -> SUBSET Seq(Entries)]
  BY <1>1 DEF Types
<1>. QED
  BY <1>1, <1>2, <1>3, <1>4, <1>5 DEF DiskOK, VoteOK, GateOK

LEMMA StopStep ==
    ASSUME IInv, NEW r \in Replica, Stop(r)
    PROVE  IInv'
<1>1. UNCHANGED <<log, synced, tails, tool, writes>> /\ Restarted(r, "stop")
  BY DEF Stop
<1>2. PICK clean \in BOOLEAN : clean = TRUE
  OBVIOUS
<1>3. Starts(r, log[r], commit[r], plan[r], state[r], clean)
  BY <1>2 DEF Stop
<1>4. Types /\ budget' \in BudgetType /\ budget'.len = budget.len /\ budget'.wipes = budget.wipes
  BY <1>1, RestartedGives DEF IInv
<1>5. ToolOK'
  BY <1>1 DEF IInv, ToolOK
<1>6. log[r] \in {log[r]} \cup tails[r] /\ Len(log[r]) <= Len(log[r])
      /\ \A i \in 1 .. Len(log[r]) : log[r][i] = log[r][i]
  BY ReplicaHas
<1>7. /\ log[r] \in Seq(Entries) /\ commit[r] \in Nat /\ plan[r] \in Plans
      /\ state[r] \in {"Empty", "Initialized", "Recovering"}
      /\ (plan[r] # NoPlan => vote[r] # NoVote)
      /\ synced[r] <= Len(log[r]) /\ commit[r] <= Len(log[r])
      /\ (log[r] = <<>> => tails[r] = {}) /\ (log[r] # <<>> => commit[r] >= 1)
      /\ (state[r] = "Empty" <=> log[r] = <<>>)
      /\ (plan[r].leader = r => log[r] # <<>>)
      /\ \A u \in tails[r] : u \in tails[r] /\ Len(u) >= synced[r]
      /\ log \in [Replica -> Seq(Entries)] /\ synced \in [Replica -> Nat]
      /\ tails \in [Replica -> SUBSET Seq(Entries)]
  BY ReplicaHas
<1>8. /\ log' = log /\ synced' = synced /\ tails' = tails /\ writes' = writes
  BY <1>1
<1>9. StartsFrom(r, log[r], commit[r], plan[r], state[r], clean, log[r])
  BY <1>3, <1>6, <1>7, <1>8 DEF StartsFrom
<1>. QED
  BY <1>4, <1>5, <1>7, <1>8, <1>9, StartStep

LEMMA KillStep ==
    ASSUME IInv, NEW r \in Replica, Kill(r)
    PROVE  IInv'
<1>1. UNCHANGED <<synced, tails, tool, writes>> /\ Restarted(r, "kill")
  BY DEF Kill
<1>2. PICK clean \in BOOLEAN : clean = FALSE
  OBVIOUS
<1> DEFINE written == IF role[r] = "leader" THEN Max({match[r][r], synced[r]}) ELSE Len(log[r])
<1>3. PICK n \in written .. Len(log[r]) :
        /\ Starts(r, Prefix(log[r], n), Min({commit[r], n}), plan[r], state[r], clean)
        /\ log' = [log EXCEPT ![r] = Prefix(@, n)]
  BY <1>2 DEF Kill
<1>4. /\ log[r] \in Seq(Entries) /\ commit[r] \in Nat /\ plan[r] \in Plans
      /\ Len(log[r]) \in Nat /\ synced[r] \in Nat
      /\ (log[r] = <<>> <=> Len(log[r]) = 0)
      /\ state[r] \in {"Empty", "Initialized", "Recovering"}
      /\ (plan[r] # NoPlan => vote[r] # NoVote)
      /\ synced[r] <= Len(log[r]) /\ commit[r] <= Len(log[r])
      /\ (log[r] = <<>> => tails[r] = {}) /\ (log[r] # <<>> => commit[r] >= 1)
      /\ (state[r] = "Empty" <=> log[r] = <<>>)
      /\ (plan[r].leader = r => log[r] # <<>>)
      /\ \A u \in tails[r] : u \in tails[r] /\ Len(u) >= synced[r]
      /\ log \in [Replica -> Seq(Entries)] /\ synced \in [Replica -> Nat]
      /\ tails \in [Replica -> SUBSET Seq(Entries)]
  BY ReplicaHas
<1>5. written \in Nat /\ written >= synced[r] /\ (log[r] # <<>> => written >= 1)
  <2>1. CASE role[r] = "leader"
    <3>1. match[r][r] \in 1 .. Len(log[r])
      BY <2>1, LeaderHas
    <3>2. match[r][r] \in Int /\ synced[r] \in Int
      BY <1>4, <3>1
    <3>3. Max({match[r][r], synced[r]}) = IF match[r][r] >= synced[r] THEN match[r][r] ELSE synced[r]
      BY <3>2, MinMax
    <3>. QED
      BY <1>4, <2>1, <3>1, <3>3
  <2>2. CASE role[r] # "leader"
    BY <1>4, <2>2
  <2>. QED
    BY <2>1, <2>2
<1>6. n \in Nat /\ n \in 0 .. Len(log[r]) /\ n >= synced[r] /\ (log[r] # <<>> => n >= 1)
  <2> HIDE DEF written
  <2>. QED
    BY <1>3, <1>4, <1>5
<1>7. PICK s : s = Prefix(log[r], n)
  OBVIOUS
<1>8. s \in Seq(Entries) /\ Len(s) = n /\ (\A i \in 1 .. Len(s) : s[i] = log[r][i])
      /\ (s = <<>> <=> log[r] = <<>>)
  <2>1. s \in Seq(Entries) /\ Len(s) = n /\ \A i \in 1 .. n : s[i] = log[r][i]
    BY <1>4, <1>6, <1>7, PrefixType
  <2>2. s = <<>> <=> n = 0
    BY <2>1, EntryType
  <2>. QED
    BY <1>4, <1>6, <2>1, <2>2
<1>9. PICK marker \in Nat : marker = Min({commit[r], n}) /\ marker <= n
                            /\ (log[r] # <<>> => marker >= 1)
  <2>1. commit[r] \in Int /\ n \in Int
    BY <1>4, <1>6
  <2>2. Min({commit[r], n}) = IF commit[r] <= n THEN commit[r] ELSE n
    BY <2>1, MinMax
  <2>. QED
    BY <1>4, <1>6, <2>2
<1>10. Starts(r, s, marker, plan[r], state[r], clean)
  BY <1>3, <1>7, <1>9
<1>11. /\ log' \in [Replica -> Seq(Entries)] /\ log'[r] = s
       /\ \A x \in Replica \ {r} : log'[x] = log[x]
  BY <1>3, <1>4, <1>7, <1>8
<1>12. Types /\ budget' \in BudgetType /\ budget'.len = budget.len /\ budget'.wipes = budget.wipes
  BY <1>1, RestartedGives DEF IInv
<1>13. ToolOK'
  BY <1>1 DEF IInv, ToolOK
<1>14. /\ synced' = synced /\ tails' = tails /\ writes' = writes
  BY <1>1
<1>15. log[r] \in {log[r]} \cup tails[r] /\ Len(s) <= Len(log[r]) /\ synced[r] <= Len(s)
       /\ marker <= Len(s)
  BY <1>4, <1>6, <1>8, <1>9
<1>16. StartsFrom(r, s, marker, plan[r], state[r], clean, log[r])
  BY <1>2, <1>4, <1>8, <1>9, <1>10, <1>11, <1>14, <1>15 DEF StartsFrom
<1>. QED
  BY <1>4, <1>8, <1>12, <1>13, <1>14, <1>16, StartStep

LEMMA HostCrashStep ==
    ASSUME IInv, NEW r \in Replica, HostCrash(r)
    PROVE  IInv'
<1>1. UNCHANGED <<tool, writes>> /\ Restarted(r, "host")
  BY DEF HostCrash
<1>2. PICK clean \in BOOLEAN : clean = FALSE
  OBVIOUS
<1>3. PICK held : held = IF state[r] = "Initialized" THEN "Recovering" ELSE state[r]
  OBVIOUS
<1>4. PICK s \in Survivors(r) : \E marker \in Min({1, commit[r]}) .. Min({commit[r], Len(s)}) :
        Starts(r, s, marker, plan[r], held, clean) /\ Syncs(r, s)
  BY <1>2, <1>3 DEF HostCrash
<1>5. PICK marker \in Min({1, commit[r]}) .. Min({commit[r], Len(s)}) :
        Starts(r, s, marker, plan[r], held, clean) /\ Syncs(r, s)
  BY <1>4
<1>6. /\ Types /\ log[r] \in Seq(Entries) /\ commit[r] \in Nat /\ plan[r] \in Plans
      /\ Len(log[r]) \in Nat /\ synced[r] \in Nat
      /\ (log[r] = <<>> <=> Len(log[r]) = 0)
      /\ state[r] \in {"Empty", "Initialized", "Recovering"}
      /\ (plan[r] # NoPlan => vote[r] # NoVote)
      /\ synced[r] <= Len(log[r]) /\ commit[r] <= Len(log[r])
      /\ (log[r] = <<>> => tails[r] = {}) /\ (log[r] # <<>> => commit[r] >= 1)
      /\ (state[r] = "Empty" <=> log[r] = <<>>)
      /\ (plan[r].leader = r => log[r] # <<>>)
      /\ \A u \in tails[r] : u \in Seq(Entries) /\ Len(u) \in Nat /\ Len(u) >= synced[r]
  BY ReplicaHas
<1>7. PICK base \in {log[r]} \cup tails[r] :
        \E n \in synced[r] .. Len(base) : s = Prefix(base, n)
  BY <1>4 DEF Survivors
<1>8. PICK n \in synced[r] .. Len(base) : s = Prefix(base, n)
  BY <1>7
<1>9. base \in Seq(Entries) /\ Len(base) \in Nat
  BY <1>6, <1>7
<1>10. n \in Nat /\ n \in 0 .. Len(base) /\ n <= Len(base)
  BY <1>6, <1>8, <1>9
<1>11. s \in Seq(Entries) /\ Len(s) = n /\ \A i \in 1 .. Len(s) : s[i] = base[i]
  BY <1>8, <1>9, <1>10, PrefixType
<1>12. /\ marker \in Nat /\ marker <= Len(s) /\ marker <= commit[r]
       /\ (log[r] # <<>> => marker >= 1)
  <2>1. 1 \in Int /\ commit[r] \in Int /\ Len(s) \in Int
    BY <1>6, <1>10, <1>11
  <2>2. /\ Min({1, commit[r]}) = IF 1 <= commit[r] THEN 1 ELSE commit[r]
        /\ Min({commit[r], Len(s)}) = IF commit[r] <= Len(s) THEN commit[r] ELSE Len(s)
    BY <2>1, MinMax
  <2>. QED
    BY <1>5, <1>6, <1>10, <1>11, <2>2
<1>13. s = <<>> <=> log[r] = <<>>
  <2>1. s = <<>> <=> Len(s) = 0
    BY <1>11, EntryType
  <2>2. CASE log[r] = <<>>
    BY <1>6, <1>7, <1>10, <1>11, <2>1, <2>2
  <2>3. CASE log[r] # <<>>
    BY <1>10, <1>11, <1>12, <2>1, <2>3
  <2>. QED
    BY <2>2, <2>3
<1>14. held \in {"Empty", "Initialized", "Recovering"} /\ (held = "Empty" <=> state[r] = "Empty")
  BY <1>3, <1>6
<1>15. /\ log' \in [Replica -> Seq(Entries)] /\ log'[r] = s
       /\ synced' \in [Replica -> Nat] /\ synced'[r] = Len(s)
       /\ tails' \in [Replica -> SUBSET Seq(Entries)] /\ tails'[r] = {}
       /\ \A x \in Replica \ {r} : /\ log'[x] = log[x] /\ synced'[x] = synced[x]
                                   /\ tails'[x] = tails[x]
  BY <1>5, <1>6, <1>11, SyncsGives
<1>16. budget' \in BudgetType /\ budget'.len = budget.len /\ budget'.wipes = budget.wipes
  BY <1>1, <1>6, RestartedGives
<1>17. ToolOK' /\ writes' = writes
  BY <1>1 DEF IInv, ToolOK
<1>18. synced'[r] <= Len(s) /\ Len(s) <= Len(base) /\ (s # <<>> => marker >= 1)
       /\ \A u \in tails'[r] : u \in tails[r] /\ Len(u) >= synced'[r]
  BY <1>10, <1>11, <1>12, <1>13, <1>15
<1>19. StartsFrom(r, s, marker, plan[r], held, clean, base)
  BY <1>2, <1>5, <1>6, <1>7, <1>11, <1>12, <1>13, <1>14, <1>15, <1>18 DEF StartsFrom
<1>. QED
  BY <1>6, <1>11, <1>12, <1>14, <1>16, <1>17, <1>19, StartStep

-----------------------------------------------------------------------------
(* The operator's tool. *)

LEMMA TakePlanStep ==
    ASSUME IInv, NEW r \in Replica, NEW record \in Plans, NEW restart \in BOOLEAN,
           record.leader # 0, vote[r] # NoVote, tool.cut => commit[r] > 0,
           tool.cut => restart, record.leader = r => log[r] # <<>>,
           TakePlan(r, record, restart), ToolOK', writes' = writes, budget' = budget
    PROVE  IInv'
<1>1. /\ Types /\ log[r] \in Seq(Entries) /\ commit[r] \in Nat
      /\ Len(log[r]) \in Nat /\ synced[r] \in Nat
      /\ (log[r] = <<>> <=> Len(log[r]) = 0)
      /\ state[r] \in {"Empty", "Initialized", "Recovering"}
      /\ commit[r] <= Len(log[r])
      /\ (log[r] # <<>> => commit[r] >= 1)
      /\ (state[r] = "Empty" <=> log[r] = <<>>)
  BY ReplicaHas
<1>2. PICK kept : kept = IF tool.cut THEN Prefix(log[r], commit[r]) ELSE log[r]
  OBVIOUS
<1>3. PICK held : held = IF state[r] = "Recovering" THEN "Initialized" ELSE state[r]
  OBVIOUS
<1>4. /\ Syncs(r, kept)
      /\ IF restart
         THEN Starts(r, kept, commit[r], record, held, TRUE)
         ELSE /\ state' = [state EXCEPT ![r] = held]
              /\ plan' = [plan EXCEPT ![r] = record]
              /\ gate' = [gate EXCEPT ![r] = PlannedGate(r, record)]
              /\ target' = [target EXCEPT ![r] = NoTarget]
              /\ UNCHANGED <<commit, vote, role, elections>>
  BY <1>2, <1>3 DEF TakePlan
<1>5. /\ kept \in Seq(Entries) /\ commit[r] <= Len(kept) /\ Len(kept) <= Len(log[r])
      /\ \A i \in 1 .. Len(kept) : kept[i] = log[r][i]
      /\ (kept = <<>> <=> log[r] = <<>>) /\ Len(kept) \in Nat
  <2>1. CASE tool.cut
    <3>1. commit[r] \in 0 .. Len(log[r]) /\ commit[r] > 0
      BY <1>1, <2>1
    <3>2. kept \in Seq(Entries) /\ Len(kept) = commit[r]
          /\ \A i \in 1 .. commit[r] : kept[i] = log[r][i]
      BY <1>1, <1>2, <2>1, <3>1, PrefixType
    <3>3. kept # <<>>
      BY <3>1, <3>2, EntryType
    <3>. QED
      BY <1>1, <3>1, <3>2, <3>3
  <2>2. CASE ~tool.cut
    BY <1>1, <1>2, <2>2
  <2>. QED
    BY <2>1, <2>2
<1>6. /\ log' \in [Replica -> Seq(Entries)] /\ log'[r] = kept
      /\ synced' \in [Replica -> Nat] /\ synced'[r] = Len(kept)
      /\ tails' \in [Replica -> SUBSET Seq(Entries)] /\ tails'[r] = {}
      /\ \A x \in Replica \ {r} : /\ log'[x] = log[x] /\ synced'[x] = synced[x]
                                  /\ tails'[x] = tails[x]
  BY <1>1, <1>4, <1>5, SyncsGives
<1>7. held \in {"Empty", "Initialized", "Recovering"} /\ (held = "Empty" <=> state[r] = "Empty")
  BY <1>1, <1>3
<1>8. record # NoPlan
  BY NoPlanType
<1>9. budget' \in BudgetType /\ budget'.len = budget.len /\ budget'.wipes = budget.wipes
  BY <1>1 DEF Types
<1>10. CASE restart
  <2>1. PICK clean \in BOOLEAN : clean = TRUE
    OBVIOUS
  <2>2. Starts(r, kept, commit[r], record, held, clean)
    BY <1>4, <1>10, <2>1
  <2>3. synced'[r] <= Len(kept) /\ log[r] \in {log[r]} \cup tails[r]
    BY <1>5, <1>6
  <2>4. StartsFrom(r, kept, commit[r], record, held, clean, log[r])
    BY <1>1, <1>5, <1>6, <1>7, <1>8, <2>2, <2>3 DEF StartsFrom
  <2>. QED
    BY <1>1, <1>5, <1>7, <1>9, <2>4, StartStep
<1>11. CASE ~restart
  <2>1. /\ state' = [state EXCEPT ![r] = held]
        /\ plan' = [plan EXCEPT ![r] = record]
        /\ gate' = [gate EXCEPT ![r] = PlannedGate(r, record)]
        /\ target' = [target EXCEPT ![r] = NoTarget]
        /\ UNCHANGED <<commit, vote, role, match, grants>>
    BY <1>4, <1>11 DEF elections
  <2>2. log'[r] = log[r]
    BY <1>2, <1>6, <1>11
  <2>3. /\ PlannedGate(r, record) \in {"planned", "leads"}
        /\ PlannedGate(r, record) = "leads" => record.leader = r
    BY DEF PlannedGate
  <2>4. NoTarget \in [v : Votes, i : Nat]
    BY NoVoteType DEF NoTarget, NoVote
  <2>5. /\ state' \in [Replica -> {"Empty", "Initialized", "Recovering"}] /\ state'[r] = held
        /\ plan' \in [Replica -> Plans] /\ plan'[r] = record
        /\ gate' \in [Replica -> {"open", "closed", "catchup", "planned", "leads"}]
        /\ gate'[r] = PlannedGate(r, record)
        /\ target' \in [Replica -> [v : Votes, i : Nat]] /\ target'[r] = NoTarget
        /\ \A x \in Replica \ {r} : /\ state'[x] = state[x] /\ plan'[x] = plan[x]
                                    /\ gate'[x] = gate[x] /\ target'[x] = target[x]
    BY <1>1, <1>7, <2>1, <2>3, <2>4 DEF Types
  <2>6. Types'
    BY <1>1, <1>6, <1>9, <2>1, <2>5 DEF Types
  <2>7. ReplicaOK(r)'
    <3>1. DiskOK(r) /\ VoteOK(r) /\ Len(log[r]) <= Len(log[r])
      BY <1>1 DEF IInv, ReplicaOK
    <3>2. DiskOK(r)'
      BY <1>6, <1>7, <1>9, <2>1, <2>2, <2>5, <3>1 DEF DiskOK
    <3>3. VoteOK(r)'
      BY <2>1, <2>2, <2>5, <3>1 DEF VoteOK
    <3>4. GateOK(r)'
      BY <1>8, <2>2, <2>3, <2>5 DEF GateOK
    <3>. QED
      BY <3>2, <3>3, <3>4 DEF ReplicaOK
  <2>8. \A x \in Replica \ {r} : Same(x)
    BY <1>6, <2>1, <2>5 DEF Same
  <2>9. HeldBefore
    <3>1. log[r] \in Held /\ Len(log'[r]) <= Len(log[r])
          /\ \A i \in 1 .. Len(log'[r]) : log'[r][i] = log[r][i]
      BY <1>1, <2>2, HeldType
    <3>. QED
      BY <1>1, <1>6, <2>6, <3>1, HeldOne
  <2>10. FloorOK' /\ ClaimsKept
    BY <1>1, <1>9, <2>1, <2>6, VotesKept, FloorKept DEF IInv
  <2>11. \A x \in Replica : LeadsOn(x) /\ AsksOn(x)
    BY <1>6, <2>1, <2>2, RoleKept
  <2>. QED
    BY <1>9, <2>6, <2>7, <2>8, <2>9, <2>10, <2>11, QuietOne
<1>. QED
  BY <1>10, <1>11

LEMMA TakeLeadStep ==
    ASSUME IInv, NEW r \in Replica, TakeLead(r)
    PROVE  IInv'
<1>1. /\ Types /\ ToolOK /\ vote[r] \in Votes /\ vote[r][1] \in Nat /\ commit[r] \in Nat
      /\ log[r] \in Seq(Entries) /\ Len(log[r]) \in Nat /\ (log[r] = <<>> <=> Len(log[r]) = 0)
      /\ commit[r] <= Len(log[r])
  <2>1. Types /\ ToolOK /\ vote[r] \in Votes /\ log[r] \in Seq(Entries)
    BY DEF IInv, Types
  <2>2. vote[r][1] \in Nat
    BY <2>1, VoteType
  <2>. QED
    BY <2>1, <2>2, ReplicaHas
<1>2. /\ tool.leader = r /\ tool.term = 0 /\ vote[r] # NoVote /\ (tool.cut => commit[r] > 0)
      /\ tool.point = IF tool.cut THEN commit[r] ELSE Len(log[r])
      /\ writes' = writes /\ budget' = budget
  BY DEF TakeLead, Unchanged, ghosts
<1>3. vote[r][1] >= 1
  BY <1>2 DEF IInv, ReplicaOK, VoteOK
<1>4. PICK term : term = Max({tool.highest, vote[r][1]})
  OBVIOUS
<1>5. term \in Nat /\ term >= 1
  <2>1. tool.highest \in Int /\ vote[r][1] \in Int /\ tool.highest \in Nat
    BY <1>1 DEF ToolOK
  <2>2. term = IF tool.highest >= vote[r][1] THEN tool.highest ELSE vote[r][1]
    BY <1>4, <2>1, MinMax
  <2>. QED
    BY <1>1, <1>3, <2>1, <2>2
<1>6. PICK record : record = [leader |-> r, point |-> tool.point, term |-> term]
  OBVIOUS
<1>7. record \in Plans /\ record.leader = r /\ r # 0
  BY <1>1, <1>2, <1>5, <1>6, ReplicaNat DEF Plans
<1>8. PICK restart \in BOOLEAN :
        restart <=> (tool.cut \/ role[r] # "follower" \/ vote[r][1] < term)
  OBVIOUS
<1>9. TakePlan(r, record, restart) /\ tool' = [tool EXCEPT !.term = term]
  <2>1. TakePlan(r, record, tool.cut \/ role[r] # "follower" \/ vote[r][1] < term)
        /\ tool' = [tool EXCEPT !.term = term]
    BY <1>4, <1>6 DEF TakeLead
  <2>. QED
    BY <1>8, <2>1 DEF TakePlan
<1>10. log[r] # <<>>
  BY <1>1, <1>2 DEF ToolOK
<1>11. ToolOK'
  BY <1>1, <1>2, <1>5, <1>9 DEF ToolOK
<1>. QED
  BY <1>2, <1>7, <1>8, <1>9, <1>10, <1>11, TakePlanStep

LEMMA TakeFollowStep ==
    ASSUME IInv, NEW r \in Replica, TakeFollow(r)
    PROVE  IInv'
<1>1. /\ tool' = tool /\ writes' = writes /\ budget' = budget /\ tool.term > 0
      /\ r # tool.leader /\ vote[r] # NoVote /\ (tool.cut => commit[r] > 0)
  BY DEF TakeFollow, Unchanged, ghosts
<1>2. ToolOK /\ tool.term \in Nat /\ tool.leader \in Replica /\ tool.point \in Nat
  BY <1>1 DEF IInv, ToolOK
<1>3. PICK record : record = [leader |-> tool.leader, point |-> tool.point, term |-> tool.term]
  OBVIOUS
<1>4. record \in Plans /\ record.leader # 0 /\ record.leader # r
  BY <1>1, <1>2, <1>3, ReplicaNat DEF Plans
<1>5. PICK restart \in BOOLEAN : restart <=> (tool.cut \/ role[r] = "leader")
  OBVIOUS
<1>6. TakePlan(r, record, restart)
  <2>1. TakePlan(r, record, tool.cut \/ role[r] = "leader")
    BY <1>3 DEF TakeFollow
  <2>. QED
    BY <1>5, <2>1 DEF TakePlan
<1>7. ToolOK'
  BY <1>1, <1>2 DEF ToolOK
<1>. QED
  BY <1>1, <1>4, <1>5, <1>6, <1>7, TakePlanStep

(* Among some replicas one has the longest log. *)
LEMMA LongestExists ==
    ASSUME Types, NEW P \in SUBSET Replica, P # {}
    PROVE  \E r \in P : \A s \in P \ {r} : Longer(r, s)
<1>1. IsFiniteSet(P) /\ \A x \in P : x \in Nat
  BY ReplicaNat, FS_Subset
<1>2. \A x \in P : LastTerm(log[x]) \in Nat /\ Len(log[x]) \in Nat
  <2>1. SUFFICES ASSUME NEW x \in P PROVE LastTerm(log[x]) \in Nat /\ Len(log[x]) \in Nat
    OBVIOUS
  <2>2. log[x] \in Seq(Entries)
    BY DEF Types
  <2>3. Len(log[x]) \in Nat /\ (log[x] = <<>> <=> Len(log[x]) = 0)
        /\ \A i \in 1 .. Len(log[x]) : log[x][i].t \in Nat
    BY <2>2, EntryType
  <2>4. log[x] # <<>> => Len(log[x]) \in 1 .. Len(log[x])
    BY <2>3
  <2>. QED
    BY <2>3, <2>4 DEF LastTerm, Last
<1> DEFINE f == [x \in P |-> LastTerm(log[x])]
<1>3. PICK a \in P : \A y \in P : LastTerm(log[y]) <= LastTerm(log[a])
  <2>1. f \in [P -> Nat]
    BY <1>2
  <2>2. \E a \in P : \A y \in P : f[y] <= f[a]
    <3> HIDE DEF f
    <3>. QED
      BY <1>1, <2>1, LargestValue
  <2>. QED
    BY <2>2
<1> DEFINE A == {x \in P : LastTerm(log[x]) = LastTerm(log[a])}
           g == [x \in A |-> Len(log[x])]
<1>4. IsFiniteSet(A) /\ A # {} /\ A \in SUBSET P /\ g \in [A -> Nat]
  <2>1. A \in SUBSET P /\ a \in A
    OBVIOUS
  <2>2. IsFiniteSet(A)
    BY <1>1, <2>1, FS_Subset
  <2>. QED
    BY <1>2, <2>1, <2>2
<1>5. PICK b \in A : \A y \in A : Len(log[y]) <= Len(log[b])
  <2>1. \E b \in A : \A y \in A : g[y] <= g[b]
    <3> HIDE DEF g, A
    <3>. QED
      BY <1>4, LargestValue
  <2>. QED
    BY <2>1
<1> DEFINE B == {x \in A : Len(log[x]) = Len(log[b])}
           h == [x \in B |-> x]
<1>6. IsFiniteSet(B) /\ B # {} /\ B \in SUBSET A /\ h \in [B -> Nat]
  <2>1. B \in SUBSET A /\ b \in B
    OBVIOUS
  <2>2. IsFiniteSet(B)
    <3> HIDE DEF A, B
    <3>. QED
      BY <1>4, <2>1, FS_Subset
  <2>3. \A x \in B : x \in Nat
    BY <1>1
  <2>. QED
    BY <2>1, <2>2, <2>3
<1>7. PICK c \in B : \A y \in B : y <= c
  <2>1. \E c \in B : \A y \in B : h[y] <= h[c]
    <3> HIDE DEF h, B
    <3>. QED
      BY <1>6, LargestValue
  <2>. QED
    BY <2>1
<1>8. ASSUME NEW s \in P \ {c} PROVE Longer(c, s)
  <2>1. /\ LastTerm(log[c]) = LastTerm(log[a]) /\ Len(log[c]) = Len(log[b]) /\ c \in P
        /\ LastTerm(log[s]) <= LastTerm(log[c])
    BY <1>3, <1>7
  <2>2. LastTerm(log[s]) = LastTerm(log[c]) => Len(log[s]) <= Len(log[c])
    BY <1>5, <2>1
  <2>3. LastTerm(log[s]) = LastTerm(log[c]) /\ Len(log[s]) = Len(log[c]) => s <= c
    BY <1>7, <2>1
  <2>4. /\ LastTerm(log[s]) \in Nat /\ LastTerm(log[c]) \in Nat /\ Len(log[s]) \in Nat
        /\ Len(log[c]) \in Nat /\ s \in Nat /\ c \in Nat /\ s # c
    BY <1>1, <1>2, <2>1
  <2> HIDE DEF A, B
  <2>5. Before(<<LastTerm(log[s]), Len(log[s]), s>>, <<LastTerm(log[c]), Len(log[c]), c>>)
    BY <2>1, <2>2, <2>3, <2>4 DEF Before
  <2>. QED
    BY <2>5 DEF Longer
<1>9. c \in P
  BY <1>7
<1>. QED
  BY <1>8, <1>9

LEMMA MakePlanStep ==
    ASSUME IInv, NEW S \in budget.reached, MakePlan(S)
    PROVE  IInv'
<1>1. UNCHANGED <<log, commit, synced, tails, vote, state, plan, gate, target, role, match,
                  grants, acked, writes>>
  BY DEF MakePlan, disks, meta, elections
<1>2. Types /\ budget \in BudgetType /\ S \in SUBSET Replica /\ budget.plans > 0
  BY DEF IInv, Types, BudgetType, MakePlan
<1>3. budget' \in BudgetType /\ budget'.len = budget.len /\ budget'.wipes = budget.wipes
  <2>1. budget.plans - 1 \in Nat /\ budget' = [budget EXCEPT !.plans = @ - 1]
    BY <1>2 DEF BudgetType, MakePlan
  <2>. QED
    BY <1>2, <2>1 DEF BudgetType
<1>4. PICK planned : planned = {r \in S : vote[r] # NoVote}
  OBVIOUS
<1>5. PICK longest : longest = CHOOSE r \in planned : \A s \in planned \ {r} : Longer(r, s)
  OBVIOUS
<1>6. PICK known : known = CHOOSE r \in planned : \A s \in planned \ {r} : FurthestCommit(r, s)
  OBVIOUS
<1>7. PICK votes : votes = {vote[r][1] : r \in {s \in planned : Restricted(s)}}
  OBVIOUS
<1>8. PICK floor : floor = Max({0} \cup votes)
  OBVIOUS
<1>9. PICK cut \in BOOLEAN : cut <=> StalePossible(longest, floor)
  BY DEF StalePossible
<1>10. PICK highest : highest = Max({vote[r][1] : r \in planned})
  OBVIOUS
<1>11. /\ IsQuorum(planned)
       /\ tool'.leader = IF cut THEN known ELSE longest
       /\ tool'.point = IF cut THEN commit[known] ELSE Len(log[longest])
       /\ tool'.cut <=> cut
       /\ tool'.highest = highest /\ tool'.term = 0
       /\ tool' = [leader |-> tool'.leader, point |-> tool'.point, cut |-> tool'.cut,
                   highest |-> tool'.highest, term |-> tool'.term, seen |-> tool'.seen]
  BY <1>4, <1>5, <1>6, <1>7, <1>8, <1>9, <1>10 DEF MakePlan
<1>12. planned \in SUBSET Replica /\ planned # {} /\ IsFiniteSet(planned)
  BY <1>2, <1>4, <1>11, QuorumNonempty
<1>13. \A r \in planned : vote[r][1] \in Nat /\ vote[r] # NoVote
  BY <1>2, <1>4, <1>12, VoteType DEF Types
<1>14. highest \in Nat /\ \A r \in planned : vote[r][1] <= highest
  <2> DEFINE f == [r \in planned |-> vote[r][1]]
  <2>1. f \in [planned -> Nat] /\ {f[r] : r \in planned} = {vote[r][1] : r \in planned}
    BY <1>13
  <2>2. /\ Max({f[r] : r \in planned}) \in {f[r] : r \in planned}
        /\ \A r \in planned : f[r] <= Max({f[y] : y \in planned})
    <3> HIDE DEF f
    <3>. QED
      BY <1>12, <2>1, MaxOfValues
  <2>3. highest \in {vote[r][1] : r \in planned} /\ \A r \in planned : f[r] <= highest
    BY <1>10, <2>1, <2>2
  <2>. QED
    BY <1>13, <2>3
<1>15. longest \in planned
  <2>1. \E r \in planned : \A s \in planned \ {r} : Longer(r, s)
    BY <1>2, <1>12, LongestExists
  <2>. QED
    BY <1>5, <2>1
<1>16. ASSUME ~cut PROVE Len(log[longest]) # 0
  <2>1. SUFFICES ASSUME Len(log[longest]) = 0 PROVE FALSE
    OBVIOUS
  <2>2. longest \in Replica /\ ReplicaOK(longest)
    BY <1>12, <1>15 DEF IInv
  <2>3. log[longest] = <<>>
    BY <1>2, <2>1, <2>2, EntryType DEF Types
  <2>4. Restricted(longest) /\ vote[longest][1] >= 1 /\ vote[longest][1] \in Nat
    BY <1>13, <1>15, <2>2, <2>3 DEF ReplicaOK, GateOK, VoteOK, Restricted
  <2>5. vote[longest][1] \in votes
    BY <1>7, <1>15, <2>4
  <2>6. {0} \cup votes \in SUBSET Nat /\ \A n \in {0} \cup votes : n <= highest
    BY <1>7, <1>13, <1>14
  <2>7. IsFiniteSet({0} \cup votes)
    BY <1>14, <2>6, FS_BoundedSetOfNaturals
  <2>8. floor \in Nat /\ \A n \in {0} \cup votes : n <= floor
    BY <1>8, <2>6, <2>7, MaxType
  <2>9. floor >= 1
    BY <2>4, <2>5, <2>8
  <2>10. LastTerm(log[longest]) = 0
    BY <2>3 DEF LastTerm
  <2>. QED
    BY <1>9, <1>16, <2>8, <2>9, <2>10 DEF StalePossible
<1>17. ToolOK'
  BY <1>11, <1>14, <1>16 DEF ToolOK
<1>18. Types'
  BY <1>1, <1>2, <1>3 DEF Types
<1>19. \A x \in Replica : Same(x)
  BY <1>1 DEF Same
<1>20. FloorOK' /\ HeldBefore /\ ClaimsKept
  BY <1>1, <1>2, <1>3, <1>18, HeldSame, VotesKept, FloorKept DEF IInv
<1>21. \A x \in Replica : LeadsOn(x) /\ AsksOn(x)
  BY <1>1, RoleKept
<1>22. {} \in SUBSET Replica /\ (\A x \in Replica \ {} : Same(x)) /\ \A x \in {} : ReplicaOK(x)'
  BY <1>19
<1>. QED
  BY <1>3, <1>17, <1>18, <1>20, <1>21, <1>22, Quiet

-----------------------------------------------------------------------------
(* The invariant holds, and with it the types and the log ids. *)

LEMMA InitOK == Init => IInv
<1>1. SUFFICES ASSUME Init PROVE IInv
  OBVIOUS
<1>2. PICK first : first = Min(Replica)
  OBVIOUS
<1>3. first \in Replica /\ first \in Nat /\ first # 0
  BY <1>2, MinType, ReplicaNat
<1>4. PICK one : one = <<Genesis>>
  OBVIOUS
<1>5. /\ Genesis \in Entries /\ Genesis.t = 1 /\ Genesis.n = first
  <2>1. MaxWrites \in Nat /\ <<1, first>>[1] = 1 /\ <<1, first>>[2] = first
    BY GateConstants
  <2>. QED
    BY <1>2, <1>3, <2>1 DEF Genesis, Entry, Entries
<1>6. one \in Seq(Entries) /\ Len(one) = 1 /\ one[1] = Genesis /\ one # <<>>
  BY <1>4, <1>5
<1>7. PICK v : v = <<1, first, 1>>
  OBVIOUS
<1>8. v \in Votes /\ v[1] = 1 /\ v[2] = first /\ v[3] = 1 /\ v # NoVote
  <2>1. PICK unit : unit = 1
    OBVIOUS
  <2>2. unit \in Nat /\ first \in {0} \cup Replica /\ unit \in {0, 1}
    BY <1>3, <2>1
  <2>3. /\ <<unit, first, unit>> \in Votes
        /\ <<unit, first, unit>>[1] = unit /\ <<unit, first, unit>>[2] = first
        /\ <<unit, first, unit>>[3] = unit
    BY <2>2, VoteMade
  <2>4. v = <<unit, first, unit>>
    BY <1>7, <2>1
  <2>. QED
    BY <2>1, <2>3, <2>4, NoVoteType
<1>9. /\ log = [r \in Replica |-> one]
      /\ synced = [r \in Replica |-> 1]
      /\ tails = [r \in Replica |-> {}]
      /\ commit = [r \in Replica |-> 1]
      /\ vote = [r \in Replica |-> v]
      /\ state = [r \in Replica |-> "Initialized"]
      /\ plan = [r \in Replica |-> NoPlan]
      /\ gate = [r \in Replica |-> "open"]
      /\ target = [r \in Replica |-> NoTarget]
      /\ role = [r \in Replica |-> IF r = first THEN "leader" ELSE "follower"]
      /\ match = [r \in Replica |-> IF r = first THEN [s \in Replica |-> 1] ELSE NoMatch]
      /\ grants = [r \in Replica |-> {}]
      /\ tool = NoTool /\ writes = 0 /\ budget \in Budgets
  BY <1>1, <1>2, <1>4, <1>7 DEF Init
<1>10. budget \in BudgetType /\ budget.len \in Nat /\ budget.len >= 1 /\ MaxWrites \in Nat
  BY <1>9, GateConstants DEF BudgetType
<1>11. Types
  <2>1. NoTarget \in [v : Votes, i : Nat]
    BY NoVoteType DEF NoTarget, NoVote
  <2>2. /\ log \in [Replica -> Seq(Entries)] /\ commit \in [Replica -> Nat]
        /\ synced \in [Replica -> Nat] /\ tails \in [Replica -> SUBSET Seq(Entries)]
        /\ vote \in [Replica -> Votes]
    BY <1>6, <1>8, <1>9
  <2>3. /\ state \in [Replica -> {"Empty", "Initialized", "Recovering"}]
        /\ plan \in [Replica -> Plans]
        /\ gate \in [Replica -> {"open", "closed", "catchup", "planned", "leads"}]
        /\ target \in [Replica -> [v : Votes, i : Nat]]
    BY <1>9, <2>1, NoPlanType
  <2>4. /\ role \in [Replica -> {"leader", "candidate", "follower"}]
        /\ grants \in [Replica -> SUBSET Replica]
        /\ writes \in 0 .. MaxWrites
    BY <1>9, <1>10
  <2>5. match \in [Replica -> [Replica -> Nat]]
    BY <1>9, NoMatchType
  <2>. QED
    BY <1>10, <2>2, <2>3, <2>4, <2>5 DEF Types
<1>12. ASSUME NEW r \in Replica PROVE ReplicaOK(r)
  <2>1. /\ log[r] = one /\ synced[r] = 1 /\ tails[r] = {} /\ commit[r] = 1 /\ vote[r] = v
        /\ state[r] = "Initialized" /\ plan[r] = NoPlan /\ gate[r] = "open"
        /\ target[r] = NoTarget
        /\ role[r] = IF r = first THEN "leader" ELSE "follower"
        /\ match[r][r] = IF r = first THEN 1 ELSE 0
    BY <1>9, NoMatchType
  <2>2. DiskOK(r)
    <3>1. Len(log[r]) = 1 /\ log[r] # <<>>
      BY <1>6, <2>1
    <3>2. state[r] # "Empty" /\ tails[r] = {}
      BY <2>1
    <3>3. Len(log[r]) <= budget.len /\ synced[r] <= Len(log[r]) /\ commit[r] <= Len(log[r])
      BY <1>10, <2>1, <3>1
    <3>4. commit[r] >= 1
      BY <2>1
    <3>. QED
      BY <3>1, <3>2, <3>3, <3>4 DEF DiskOK
  <2>3. VoteOK(r)
    BY <1>6, <1>8, <2>1 DEF VoteOK
  <2>4. GateOK(r)
    BY <1>6, <2>1 DEF GateOK
  <2>. QED
    BY <2>2, <2>3, <2>4 DEF ReplicaOK
<1>13. ToolOK
  BY <1>9, ReplicaNat DEF ToolOK, NoTool
<1>14. FloorOK
  BY <1>8, <1>9 DEF FloorOK, NoWipes
<1>15. Core
  <2>1. \A s \in Held : s = one
    BY <1>9 DEF Held
  <2>2. Backed(1, first)
    <3>1. {x \in Replica : Reached(vote[x], 1, first)} = Replica
      BY <1>3, <1>8, <1>9 DEF Reached
    <3>2. Cardinality(Replica) \in Nat /\ Cardinality(Replica) # 0
      BY ReplicaNat, FS_CardinalityType, FS_EmptySet
    <3>. QED
      BY <3>1, <3>2 DEF Backed, IsQuorum
  <2>3. Unique
    BY <2>1 DEF Unique
  <2>4. EntriesOK
    <3>1. EntryOK(1, Genesis)
      BY <1>3, <1>5, <1>6, <1>8, <1>9, <2>2 DEF EntryOK, Reached
    <3>2. \A i \in 1 .. Len(one) : i = 1
      BY <1>6
    <3>. QED
      BY <1>6, <2>1, <3>1, <3>2 DEF EntriesOK
  <2>5. LeadersOK /\ CandidatesOK
    BY <1>8, <1>9, <2>2 DEF LeadersOK, CandidatesOK
  <2>. QED
    BY <2>3, <2>4, <2>5 DEF Core
<1>. QED
  BY <1>11, <1>12, <1>13, <1>14, <1>15 DEF IInv

LEMMA StutterOK ==
    ASSUME IInv, UNCHANGED vars
    PROVE  IInv'
<1>1. UNCHANGED <<log, commit, synced, tails, vote, state, plan, gate, target, role, match,
                  grants, tool, writes, budget>>
  BY DEF vars
<1>2. Types /\ Types'
  BY <1>1 DEF IInv, Types
<1>3. ToolOK'
  BY <1>1 DEF IInv, ToolOK
<1>4. \A x \in Replica : Same(x)
  BY <1>1 DEF Same
<1>5. FloorOK' /\ HeldBefore /\ ClaimsKept
  BY <1>1, <1>2, HeldSame, VotesKept, FloorKept DEF IInv
<1>6. \A x \in Replica : LeadsOn(x) /\ AsksOn(x)
  BY <1>1, RoleKept
<1>7. {} \in SUBSET Replica /\ (\A x \in Replica \ {} : Same(x)) /\ \A x \in {} : ReplicaOK(x)'
  BY <1>4
<1>. QED
  BY <1>1, <1>2, <1>3, <1>5, <1>6, <1>7, Quiet

LEMMA NextOK ==
    ASSUME Keeps, IInv, [Next]_vars
    PROVE  IInv'
<1>1. ASSUME NEW r \in Replica,
             \/ Propose(r) \/ Commit(r) \/ Campaign(r) \/ BecomeLeader(r)
             \/ TryOpen(r) \/ Stall(r) \/ Stop(r) \/ Kill(r) \/ HostCrash(r) \/ Wipe(r)
             \/ TakeLead(r) \/ TakeFollow(r) \/ ProposeHistory(r) \/ RetirePlan(r)
      PROVE  IInv'
  BY <1>1, ProposeStep, CommitStep, CampaignStep, BecomeLeaderStep, TryOpenStep, StallStep,
     StopStep, KillStep, HostCrashStep, WipeStep, TakeLeadStep, TakeFollowStep,
     ProposeHistoryStep, RetirePlanStep
<1>2. ASSUME NEW r \in Replica, NEW s \in Replica,
             GrantVote(r, s) \/ AppendEntries(r, s) \/ \E q \in Replica : Barrier(r, s, q)
      PROVE  IInv'
  BY <1>2, GrantVoteStep, AppendEntriesStep, BarrierStep
<1>3. ASSUME NEW S \in budget.reached, MakePlan(S) PROVE IInv'
  BY <1>3, MakePlanStep
<1>. QED
  BY <1>1, <1>2, <1>3, StutterOK DEF Next

LEMMA InvariantAlways ==
    ASSUME Keeps
    PROVE  Spec => []IInv
<1>1. Init => IInv
  BY InitOK
<1>2. IInv /\ [Next]_vars => IInv'
  BY NextOK
<1>. QED
  BY <1>1, <1>2, PTL DEF Spec

\* Every replica's journal, marker, vote, log state, gate and role keep their
\* types and agree with each other: no sync or marker above the log's end, no
\* replica with a log that is recorded Empty, no gate that holds a plan without
\* one, no leader without a committed vote for itself (rejoin.rs, file.rs).
THEOREM GateTypeCorrect ==
    ASSUME Keeps
    PROVE  Spec => []TypeOK
<1>1. IInv => TypeOK
  <2>1. SUFFICES ASSUME IInv, NEW r \in Replica
                 PROVE
       /\ log[r] \in Seq(Entries) /\ Len(log[r]) <= budget.len
       /\ synced[r] \in 0 .. Len(log[r])
       /\ \A s \in tails[r] : s \in Seq(Entries) /\ Len(s) >= synced[r]
       /\ commit[r] \in 0 .. Len(log[r])
       /\ vote[r] \in Votes
       /\ state[r] \in {"Empty", "Initialized", "Recovering"}
       /\ state[r] = "Empty" <=> log[r] = <<>>
       /\ gate[r] \in {"open", "closed", "catchup", "planned", "leads"}
       /\ gate[r] \in {"planned", "leads"} => plan[r] # NoPlan
       /\ gate[r] = "catchup" <=> target[r] # NoTarget
       /\ role[r] \in {"leader", "candidate", "follower"}
       /\ role[r] = "leader" <=> vote[r][2] = r /\ vote[r][3] = 1
       /\ match[r][r] <= Len(log[r])
       /\ grants[r] \subseteq Replica
    BY DEF TypeOK
  <2>2. DiskOK(r) /\ VoteOK(r) /\ GateOK(r)
    BY <2>1 DEF IInv, ReplicaOK
  <2>3. /\ log[r] \in Seq(Entries) /\ vote[r] \in Votes
        /\ state[r] \in {"Empty", "Initialized", "Recovering"}
        /\ gate[r] \in {"open", "closed", "catchup", "planned", "leads"}
        /\ role[r] \in {"leader", "candidate", "follower"} /\ grants[r] \subseteq Replica
        /\ \A s \in tails[r] : s \in Seq(Entries)
    BY <2>1 DEF IInv, Types
  <2>4. synced[r] \in 0 .. Len(log[r]) /\ commit[r] \in 0 .. Len(log[r])
    BY <2>1, ReplicaHas
  <2>. QED
    BY <2>2, <2>3, <2>4 DEF DiskOK, VoteOK, GateOK
<1>. QED
  BY <1>1, InvariantAlways, PTL

\* No log id names two entries, in whatever order replicas stop, are killed,
\* crash with unsynced journals, lose their disks, rejoin, are elected and take
\* recovery plans (prevent_crashed_leader_resume, confirm_recovery_barrier).
THEOREM LogIdsUniqueAlways ==
    ASSUME Keeps
    PROVE  Spec => []LogIdsUnique
<1>1. IInv => LogIdsUnique
  <2>1. SUFFICES ASSUME IInv, NEW r \in Replica, NEW s \in Replica,
                        NEW i \in DOMAIN log[r] \cap DOMAIN log[s],
                        log[r][i].t = log[s][i].t, log[r][i].n = log[s][i].n
                 PROVE  log[r][i] = log[s][i]
    BY DEF LogIdsUnique
  <2>2. Types /\ Unique
    BY <2>1 DEF IInv, Core
  <2>3. log[r] \in Held /\ log[s] \in Held
    BY <2>2, HeldType
  <2>4. i \in 1 .. Len(log[r]) /\ i <= Len(log[s])
    BY <2>2, EntryType DEF Types
  <2>. QED
    BY <2>1, <2>2, <2>3, <2>4 DEF Unique, SameId
<1>. QED
  BY <1>1, InvariantAlways, PTL
=============================================================================

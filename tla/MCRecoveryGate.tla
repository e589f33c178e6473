--------------------------- MODULE MCRecoveryGate ---------------------------
(* Instances of RecoveryGate for TLC. *)
EXTENDS RecoveryGate

Budget(campaigns, restarts, wipes, plans, reached, len, faulty, crashes) ==
  [campaigns |-> campaigns, restarts |-> restarts, wipes |-> wipes, plans |-> plans,
   reached |-> reached, len |-> len, faulty |-> faulty, crashes |-> crashes]

\* A crash of any kind and a lost disk, on any replica, and one election of
\* any; and a host crash that costs a follower its log, then a recovery plan
\* that does not reach the leader: the third replica, elected before it, or
\* the first one, which leads on.
Once(c) == [r \in Replica |-> IF r = c THEN 1 ELSE 0]
LossAndPlan ==
  {Budget(Once(c), 1, 1, 0, {}, 3, {1, 2, 3}, {"stop", "kill", "host"}) : c \in Replica}
    \cup {Budget(<<1, 0, 1>>, 1, 0, 1, {{1, 2}}, 4, {2}, {"host"}),
          Budget(<<0, 0, 1>>, 1, 0, 1, {{2, 3}}, 4, {2}, {"host"})}
=============================================================================

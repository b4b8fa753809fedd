----------------------------- MODULE ShardSplit -----------------------------
(***************************************************************************)
(* The loop of splitEven (internal/coordinator/shard.go), one step per     *)
(* iteration.  A shard is the slice ts[from:to] of the shuffled targets,   *)
(* so it is kept as the pair of its bounds.                                *)
(***************************************************************************)
EXTENDS Shards

CONSTANTS MaxLen, MaxWorkers    \* bounds on the inputs of a run

ASSUME ShardSplitAssumption == MaxLen \in Nat /\ MaxWorkers \in Nat

VARIABLES len,     \* len(ts)
          n,       \* the number of shards asked for
          i,       \* the loop index
          start,   \* where the next shard begins
          shards   \* the shards made so far; <<0, 0>> is the nil slice

vars == <<len, n, i, start, shards>>

base == len \div n

(* Mutant of excess: the size is rounded up for every shard. *)
excess_RoundedUp == n

excess == len % n

Init ==
    /\ len \in 0..MaxLen
    /\ n \in 0..MaxWorkers
    /\ i = 0
    /\ start = 0
    /\ shards = [k \in Slots(n) |-> <<0, 0>>]

(* Mutants of MakeShard: i <= n; start advanced without the extra element; *)
(* i <= excess.                                                            *)
MakeShard_OnePastEnd ==
    /\ n # 0
    /\ i <= n
    /\ LET size == base + (IF i < excess THEN 1 ELSE 0)
       IN  /\ shards' = [shards EXCEPT ![i] = <<start, start + size>>]
           /\ start' = start + size
    /\ i' = i + 1
    /\ UNCHANGED <<len, n>>

MakeShard_StartMissesExtra ==
    /\ n # 0
    /\ i < n
    /\ LET size == base + (IF i < excess THEN 1 ELSE 0)
       IN  /\ shards' = [shards EXCEPT ![i] = <<start, start + size>>]
           /\ start' = start + base
    /\ i' = i + 1
    /\ UNCHANGED <<len, n>>

MakeShard_ExtraToOneMore ==
    /\ n # 0
    /\ i < n
    /\ LET size == base + (IF i <= excess THEN 1 ELSE 0)
       IN  /\ shards' = [shards EXCEPT ![i] = <<start, start + size>>]
           /\ start' = start + size
    /\ i' = i + 1
    /\ UNCHANGED <<len, n>>

(* With n = 0 the function returns before it divides; the loop runs i < n. *)
MakeShard ==
    /\ n # 0
    /\ i < n
    /\ LET size == base + (IF i < excess THEN 1 ELSE 0)
       IN  /\ shards' = [shards EXCEPT ![i] = <<start, start + size>>]
           /\ start' = start + size
    /\ i' = i + 1
    /\ UNCHANGED <<len, n>>

Returned == n = 0 \/ i = n

Return == Returned /\ UNCHANGED vars

Next == MakeShard \/ Return

Spec == Init /\ [][Next]_vars /\ WF_vars(MakeShard)
-----------------------------------------------------------------------------
TypeOK ==
    /\ len \in Nat
    /\ n \in Nat
    /\ i \in 0..n
    /\ start \in Nat
    /\ shards \in [Slots(n) -> Nat \X Nat]

(* No slice expression of the loop goes past the end of ts, which would    *)
(* panic while register holds the coordinator's mutex.                     *)
InBounds == \A k \in Slots(n) : shards[k][1] <= shards[k][2] /\ shards[k][2] <= len

(* Each shard starts where the one before it ended: no target is skipped   *)
(* between two workers, and none is given to both.                         *)
Contiguous ==
    /\ i > 0 => shards[0][1] = 0 /\ shards[i - 1][2] = start
    /\ \A k \in Slots(i) : k > 0 => shards[k][1] = shards[k - 1][2]

(* The positions a shard holds, as the coordinator's model has them. *)
Result == [k \in Slots(n) |-> (shards[k][1] + 1)..shards[k][2]]

(* What the loop computes is what the coordinator's specification assumes  *)
(* of it, for fewer targets than workers and for more.                     *)
ImplementsEvenShards == i = n /\ n # 0 => Result \in EvenShards(1..len, n)
=============================================================================

------------------------------- MODULE Shards -------------------------------
(***************************************************************************)
(* What splitEven (internal/coordinator/shard.go) promises: the targets    *)
(* divided among n workers, none twice, none forgotten, no two shards      *)
(* differing by more than one target, the larger ones first.  The targets  *)
(* are shuffled before they are split, so a shard is a set.                *)
(***************************************************************************)
EXTENDS Naturals, FiniteSets

Slots(n) == 0..(n - 1)

(* The first len % n shards get the extra element. *)
ShardSize(len, n, i) == len \div n + (IF i < len % n THEN 1 ELSE 0)

EvenShards(D, n) ==
    {f \in [Slots(n) -> SUBSET D] :
        /\ \A t \in D : \E i \in Slots(n) : t \in f[i]
        /\ \A i, j \in Slots(n) : i # j => f[i] \cap f[j] = {}
        /\ \A i \in Slots(n) : Cardinality(f[i]) = ShardSize(Cardinality(D), n, i)}
=============================================================================

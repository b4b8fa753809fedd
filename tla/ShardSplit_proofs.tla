------------------------- MODULE ShardSplit_proofs -------------------------
(***************************************************************************)
(* Proofs about the loop of splitEven, for any number of targets and of    *)
(* workers: it stays within the slice, its shards are contiguous, and they *)
(* are the even shards the coordinator's specification assumes.            *)
(***************************************************************************)
EXTENDS ShardSplit, FiniteSetTheorems, TLAPS

(* Where shard k begins. *)
Offset(k) == k * base + (IF k <= excess THEN k ELSE excess)

(* The invariant of the loop: start is the offset of shard i, the shards   *)
(* made so far tile the positions before it, each of its own size.         *)
Tiled ==
    /\ \A k \in Slots(i) : /\ 0 <= shards[k][1]
                           /\ shards[k][2] = shards[k][1] + ShardSize(len, n, k)
                           /\ shards[k][2] <= start
    /\ \A j, k \in Slots(i) : j < k => shards[j][2] <= shards[k][1]
    /\ \A p \in 1..start : \E k \in Slots(i) : p \in (shards[k][1] + 1)..shards[k][2]

LoopInv ==
    /\ TypeOK
    /\ n # 0 => start = Offset(i)
    /\ Tiled
    /\ \A k \in i..(n - 1) : shards[k] = <<0, 0>>
    /\ Contiguous
-----------------------------------------------------------------------------
LEMMA DivMod ==
    ASSUME NEW l \in Nat, NEW m \in Nat, m # 0
    PROVE  /\ l \div m \in Nat
           /\ l % m \in 0..(m - 1)
           /\ l = m * (l \div m) + (l % m)
OBVIOUS

LEMMA MulMono ==
    ASSUME NEW a \in Nat, NEW b \in Nat, NEW c \in Nat, a <= b
    PROVE  a * c <= b * c
<1>1. (b - a) * c >= 0
    OBVIOUS
<1>2. (b - a) * c = b * c - a * c
    OBVIOUS
<1> QED
    BY <1>1, <1>2, a * c \in Nat, b * c \in Nat

LEMMA BaseExcess ==
    ASSUME len \in Nat, n \in Nat, n # 0
    PROVE  /\ base \in Nat
           /\ excess \in Nat
           /\ excess < n
           /\ len = n * base + excess
BY DivMod DEF base, excess

(* The size splitEven gives shard k, and where the next one begins. *)
LEMMA NextOffset ==
    ASSUME len \in Nat, n \in Nat, n # 0, NEW k \in Nat
    PROVE  /\ ShardSize(len, n, k) \in Nat
           /\ ShardSize(len, n, k) = base + (IF k < excess THEN 1 ELSE 0)
           /\ Offset(k + 1) = Offset(k) + ShardSize(len, n, k)
<1>1. /\ base \in Nat
      /\ excess \in Nat
    BY BaseExcess
<1>2. ShardSize(len, n, k) = base + (IF k < excess THEN 1 ELSE 0)
    BY DEF ShardSize, base, excess
<1>3. (k + 1) * base = k * base + base
    BY <1>1
<1>4. k * base \in Nat
    BY <1>1
<1> QED
    BY <1>1, <1>2, <1>3, <1>4 DEF Offset

(* No shard begins after the end of the targets; the one after the last    *)
(* would begin exactly there.                                              *)
LEMMA OffsetBound ==
    ASSUME len \in Nat, n \in Nat, n # 0, NEW k \in 0..n
    PROVE  /\ Offset(k) \in Nat
           /\ Offset(k) <= len
           /\ Offset(n) = len
<1>1. /\ base \in Nat
      /\ excess \in Nat
      /\ excess < n
      /\ len = n * base + excess
    BY BaseExcess
<1>2. k * base <= n * base
    BY <1>1, MulMono
<1>3. k * base \in Nat /\ n * base \in Nat
    BY <1>1
<1> QED
    BY <1>1, <1>2, <1>3 DEF Offset

-----------------------------------------------------------------------------
LEMMA LoopInvInit ==
    ASSUME ShardSplitAssumption, Init
    PROVE  LoopInv
<1>1. TypeOK
    BY DEF ShardSplitAssumption, Init, TypeOK, Slots
<1>2. ASSUME n # 0
      PROVE  start = Offset(i)
    BY <1>2, BaseExcess, <1>1 DEF Init, Offset, TypeOK
<1>3. Tiled
    BY DEF Init, Tiled, Slots
<1>4. \A k \in i..(n - 1) : shards[k] = <<0, 0>>
    BY <1>1 DEF Init, Slots, TypeOK
<1>5. Contiguous
    BY DEF Init, Contiguous, Slots
<1> QED
    BY <1>1, <1>2, <1>3, <1>4, <1>5 DEF LoopInv, Init

LEMMA LoopInvNext ==
    ASSUME LoopInv, [Next]_vars
    PROVE  LoopInv'
<1>1. CASE UNCHANGED vars \/ Return
    <2>1. UNCHANGED vars
        BY <1>1 DEF Return
    <2> QED
        BY <2>1 DEF vars, LoopInv, TypeOK, Tiled, Contiguous, Offset, base, excess
<1>2. CASE MakeShard
    <2> DEFINE size == ShardSize(len, n, i)
    <2>1. /\ TypeOK
          /\ n # 0 /\ n \in Nat /\ len \in Nat /\ i \in 0..(n - 1) /\ start \in Nat
          /\ start = Offset(i)
        BY <1>2 DEF MakeShard, LoopInv, TypeOK
    <2>2. /\ size \in Nat
          /\ size = base + (IF i < excess THEN 1 ELSE 0)
          /\ Offset(i + 1) = Offset(i) + size
        BY <2>1, NextOffset
    <2>3. /\ shards' = [shards EXCEPT ![i] = <<start, start + size>>]
          /\ start' = start + size
          /\ i' = i + 1
          /\ len' = len /\ n' = n
        BY <1>2, <2>2 DEF MakeShard
    <2> HIDE DEF size
    <2>4. TypeOK'
        <3>1. <<start, start + size>> \in Nat \X Nat
            BY <2>1, <2>2
        <3>2. shards' \in [Slots(n') -> Nat \X Nat]
            BY <3>1, <2>1, <2>3 DEF TypeOK
        <3> QED
            BY <3>2, <2>1, <2>2, <2>3 DEF TypeOK
    <2>5. (n # 0 => start = Offset(i))'
        BY <2>1, <2>2, <2>3 DEF Offset, base, excess
    <2>6. \A k \in Slots(i) : shards'[k] = shards[k]
        BY <2>1, <2>3 DEF TypeOK, Slots
    <2>7. shards'[i] = <<start, start + size>>
        BY <2>1, <2>3 DEF TypeOK, Slots
    <2>8. \A k \in Slots(i') : k \in Slots(i) \/ k = i
        BY <2>1, <2>3 DEF Slots
    <2>9. \A k \in Slots(i) : shards[k] \in Nat \X Nat
        BY <2>1 DEF TypeOK, Slots
    <2>10. Tiled'
        <3>1. ASSUME NEW k \in Slots(i')
              PROVE  /\ 0 <= shards'[k][1]
                     /\ shards'[k][2] = shards'[k][1] + ShardSize(len, n, k)
                     /\ shards'[k][2] <= start'
            <4>1. CASE k \in Slots(i)
                BY <4>1, <2>1, <2>2, <2>3, <2>6, <2>9 DEF LoopInv, Tiled
            <4>2. CASE k = i
                BY <4>2, <2>1, <2>2, <2>3, <2>7 DEF size
            <4> QED
                BY <4>1, <4>2, <2>8
        <3>2. ASSUME NEW j \in Slots(i'), NEW k \in Slots(i'), j < k
              PROVE  shards'[j][2] <= shards'[k][1]
            <4>1. CASE j \in Slots(i) /\ k \in Slots(i)
                BY <4>1, <3>2, <2>6 DEF LoopInv, Tiled
            <4>2. CASE j \in Slots(i) /\ k = i
                BY <4>2, <2>6, <2>7 DEF LoopInv, Tiled
            <4>3. j # i
                BY <3>2, <2>1, <2>3 DEF Slots
            <4> QED
                BY <4>1, <4>2, <4>3, <2>8
        <3>3. ASSUME NEW p \in 1..start'
              PROVE  \E k \in Slots(i') : p \in (shards'[k][1] + 1)..shards'[k][2]
            <4>0. i \in Slots(i') /\ \A k \in Slots(i) : k \in Slots(i')
                BY <2>1, <2>3 DEF Slots
            <4>1. CASE p \in 1..start
                <5>1. PICK k \in Slots(i) : p \in (shards[k][1] + 1)..shards[k][2]
                    BY <4>1 DEF LoopInv, Tiled
                <5> QED
                    BY <5>1, <4>0, <2>6
            <4>2. CASE p \in (start + 1)..(start + size)
                BY <4>0, <4>2, <2>7
            <4> QED
                BY <4>1, <4>2, <2>1, <2>2, <2>3
        <3> QED
            BY <3>1, <3>2, <3>3, <2>3 DEF Tiled
    <2>11. (\A k \in i..(n - 1) : shards[k] = <<0, 0>>)'
        BY <2>1, <2>3 DEF LoopInv, TypeOK, Slots
    <2>12. Contiguous'
        <3>1. shards'[0][1] = 0 /\ shards'[i' - 1][2] = start'
            <4>1. CASE i = 0
                BY <4>1, <2>1, <2>3, <2>7, BaseExcess DEF Offset
            <4>2. CASE i > 0
                BY <4>2, <2>1, <2>3, <2>6, <2>7 DEF LoopInv, Contiguous, Slots
            <4> QED
                BY <4>1, <4>2, <2>1
        <3>2. ASSUME NEW k \in Slots(i'), k > 0
              PROVE  shards'[k][1] = shards'[k - 1][2]
            <4>1. CASE k \in Slots(i)
                <5>1. k - 1 \in Slots(i)
                    BY <4>1, <3>2, <2>1 DEF Slots
                <5> QED
                    BY <4>1, <5>1, <3>2, <2>6 DEF LoopInv, Contiguous
            <4>2. CASE k = i
                <5>1. k - 1 \in Slots(i) /\ i > 0
                    BY <4>2, <3>2, <2>1 DEF Slots
                <5> QED
                    BY <4>2, <5>1, <2>6, <2>7 DEF LoopInv, Contiguous
            <4> QED
                BY <4>1, <4>2, <2>8
        <3> QED
            BY <3>1, <3>2 DEF Contiguous
    <2> QED
        BY <2>1, <2>3, <2>4, <2>5, <2>10, <2>11, <2>12 DEF LoopInv
<1> QED
    BY <1>1, <1>2 DEF Next
-----------------------------------------------------------------------------
(* The size of a shard, as a set of positions. *)
LEMMA ShardCardinality ==
    ASSUME NEW a \in Nat, NEW b \in Nat, a <= b
    PROVE  Cardinality((a + 1)..b) = b - a
<1>1. CASE a = b
    <2>1. (a + 1)..b = {}
        BY <1>1
    <2> QED
        BY <1>1, <2>1, FS_EmptySet
<1>2. CASE a < b
    BY <1>2, FS_Interval
<1> QED
    BY <1>1, <1>2

LEMMA LoopInvImplies ==
    ASSUME LoopInv
    PROVE  InBounds /\ Contiguous /\ ImplementsEvenShards
<1>1. TypeOK
    BY DEF LoopInv
<1>2. InBounds
    <2> SUFFICES ASSUME NEW k \in Slots(n)
                 PROVE  shards[k][1] <= shards[k][2] /\ shards[k][2] <= len
        BY DEF InBounds
    <2>1. n # 0 /\ n \in Nat /\ len \in Nat /\ k \in Nat /\ i \in 0..n
        BY <1>1 DEF TypeOK, Slots
    <2>2. shards[k] \in Nat \X Nat
        BY <1>1 DEF TypeOK
    <2>3. CASE k \in Slots(i)
        <3>1. start = Offset(i) /\ start <= len /\ start \in Nat
            BY <2>1, OffsetBound DEF LoopInv
        <3>2. ShardSize(len, n, k) \in Nat
            BY <2>1, NextOffset
        <3> QED
            BY <2>1, <2>2, <2>3, <3>1, <3>2 DEF LoopInv, Tiled
    <2>4. CASE k \in i..(n - 1)
        BY <2>1, <2>4 DEF LoopInv
    <2> QED
        BY <2>1, <2>3, <2>4 DEF Slots
<1>3. ImplementsEvenShards
    <2> SUFFICES ASSUME i = n, n # 0
                 PROVE  Result \in EvenShards(1..len, n)
        BY DEF ImplementsEvenShards
    <2>1. n \in Nat /\ len \in Nat /\ start = len
        BY <1>1, OffsetBound DEF LoopInv, TypeOK
    <2>2. Cardinality(1..len) = len
        BY <2>1, ShardCardinality
    <2>3. \A k \in Slots(n) : /\ shards[k] \in Nat \X Nat
                              /\ shards[k][1] <= shards[k][2]
                              /\ shards[k][2] <= len
        BY <1>1, <1>2 DEF TypeOK, InBounds
    <2>4. Result \in [Slots(n) -> SUBSET (1..len)]
        BY <2>1, <2>3 DEF Result
    <2>5. \A t \in 1..len : \E k \in Slots(n) : t \in Result[k]
        BY <2>1 DEF LoopInv, Tiled, Result
    <2>6. ASSUME NEW j \in Slots(n), NEW k \in Slots(n), j < k
          PROVE  Result[j] \cap Result[k] = {}
        BY <2>3, <2>6 DEF LoopInv, Tiled, Result
    <2>7. \A j, k \in Slots(n) : j # k => Result[j] \cap Result[k] = {}
        BY <2>1, <2>6 DEF Slots
    <2>8. ASSUME NEW k \in Slots(n)
          PROVE  Cardinality(Result[k]) = ShardSize(Cardinality(1..len), n, k)
        <3>1. shards[k][2] = shards[k][1] + ShardSize(len, n, k)
            BY DEF LoopInv, Tiled
        <3>2. ShardSize(len, n, k) \in Nat
            BY <2>1, NextOffset DEF Slots
        <3>3. Cardinality(Result[k]) = shards[k][2] - shards[k][1]
            BY <2>3, ShardCardinality DEF Result
        <3> QED
            BY <2>2, <2>3, <3>1, <3>2, <3>3
    <2> QED
        BY <2>4, <2>5, <2>7, <2>8 DEF EvenShards
<1> QED
    BY <1>2, <1>3 DEF LoopInv

(* splitEven never slices past the end of the targets, leaves none between *)
(* two shards, and returns even shards: the loop (shard.go) computes what  *)
(* register's specification in module Coordinator takes for granted.       *)
THEOREM SplitEvenCorrect ==
    Spec => [](TypeOK /\ InBounds /\ Contiguous /\ ImplementsEvenShards)
<1>1. Init => LoopInv
    BY LoopInvInit, ShardSplitAssumption
<1>2. LoopInv /\ [Next]_vars => LoopInv'
    BY LoopInvNext
<1>3. LoopInv => TypeOK /\ InBounds /\ Contiguous /\ ImplementsEvenShards
    BY LoopInvImplies DEF LoopInv
<1> QED
    BY <1>1, <1>2, <1>3, PTL DEF Spec

(* The loop's variables keep their types. *)
THEOREM SplitTyped == Spec => []TypeOK
BY SplitEvenCorrect, PTL

(* No slice expression panics. *)
THEOREM SlicesInBounds == Spec => []InBounds
BY SplitEvenCorrect, PTL

(* Shards meet: no target falls between two, and none is in both. *)
THEOREM ShardsMeet == Spec => []Contiguous
BY SplitEvenCorrect, PTL
=============================================================================

--------------------------- MODULE RoomHubProofs ---------------------------
(* What the hub's operations on a room do to it, for any batch and any     *)
(* compaction threshold: the facts the proofs about replication and about  *)
(* the client share.                                                       *)
EXTENDS RoomHub, FiniteSetTheorems, TLAPS

(* A room the hub can hold: its head counts the ops folded into it.        *)
SoundRoom(r) ==
    /\ r \in Room
    /\ IsFiniteSet(r.seen)
    /\ RoomHead(r) = Cardinality(r.seen)
    /\ Range(r.log) \subseteq r.seen
-----------------------------------------------------------------------------
(* What a concatenation and a subsequence are made of.                     *)
LEMMA ConcatRange ==
  ASSUME NEW S, NEW s \in Seq(S), NEW t \in Seq(S)
  PROVE  /\ s \o t \in Seq(S)
         /\ Len(s \o t) = Len(s) + Len(t)
         /\ Range(s \o t) = Range(s) \union Range(t)
<1>1. s \o t \in Seq(S) /\ Len(s \o t) = Len(s) + Len(t)
  OBVIOUS
<1>2. /\ DOMAIN (s \o t) = 1 .. Len(s) + Len(t)
      /\ DOMAIN s = 1 .. Len(s) /\ DOMAIN t = 1 .. Len(t)
      /\ Len(s) \in Nat /\ Len(t) \in Nat
  OBVIOUS
<1>3. ASSUME NEW k \in DOMAIN (s \o t) PROVE (s \o t)[k] \in Range(s) \union Range(t)
  <2>1. CASE k <= Len(s)
    <3>1. k \in DOMAIN s /\ (s \o t)[k] = s[k]
      BY <1>2, <2>1
    <3> QED BY <3>1 DEF Range
  <2>2. CASE k > Len(s)
    <3>1. k - Len(s) \in DOMAIN t /\ (s \o t)[k] = t[k - Len(s)]
      BY <1>2, <2>2
    <3> QED BY <3>1 DEF Range
  <2> QED BY <1>2, <2>1, <2>2
<1>4. ASSUME NEW k \in DOMAIN s PROVE s[k] \in Range(s \o t)
  <2>1. k \in DOMAIN (s \o t) /\ (s \o t)[k] = s[k]
    BY <1>2
  <2> QED BY <2>1 DEF Range
<1>5. ASSUME NEW k \in DOMAIN t PROVE t[k] \in Range(s \o t)
  <2>1. Len(s) + k \in DOMAIN (s \o t) /\ (s \o t)[Len(s) + k] = t[k]
    BY <1>2
  <2> QED BY <2>1 DEF Range
<1> QED BY <1>1, <1>3, <1>4, <1>5 DEF Range

LEMMA SubSeqRange ==
  ASSUME NEW S, NEW s \in Seq(S), NEW i \in Nat \ {0}, NEW j \in Nat, j <= Len(s)
  PROVE  /\ SubSeq(s, i, j) \in Seq(S)
         /\ Len(SubSeq(s, i, j)) = IF i <= j THEN j - i + 1 ELSE 0
         /\ \A k \in 1 .. Len(SubSeq(s, i, j)) : SubSeq(s, i, j)[k] = s[i + k - 1]
         /\ Range(SubSeq(s, i, j)) \subseteq Range(s)
<1>1. /\ SubSeq(s, i, j) \in Seq(S)
      /\ Len(SubSeq(s, i, j)) = IF i <= j THEN j - i + 1 ELSE 0
      /\ \A k \in 1 .. Len(SubSeq(s, i, j)) : SubSeq(s, i, j)[k] = s[i + k - 1]
  OBVIOUS
<1>2. \A k \in 1 .. Len(SubSeq(s, i, j)) : i + k - 1 \in DOMAIN s
  BY <1>1
<1>3. DOMAIN SubSeq(s, i, j) = 1 .. Len(SubSeq(s, i, j))
  BY <1>1
<1> QED BY <1>1, <1>2, <1>3 DEF Range

(* The head of a queue and what is behind it.                              *)
LEMMA ReadFacts ==
  ASSUME NEW S, NEW q \in Seq(S), q # <<>>
  PROVE  /\ Head(q) = q[1] /\ Head(q) \in Range(q) /\ Head(q) \in S
         /\ Tail(q) \in Seq(S)
         /\ Len(q) \in Nat \ {0} /\ Len(Tail(q)) = Len(q) - 1
         /\ \A i \in DOMAIN Tail(q) : i + 1 \in DOMAIN q /\ i \in Nat /\ Tail(q)[i] = q[i + 1]
         /\ Range(Tail(q)) \subseteq Range(q)
<1>1. /\ Head(q) = q[1] /\ Tail(q) \in Seq(S) /\ Head(q) \in S
      /\ Len(q) \in Nat \ {0} /\ Len(Tail(q)) = Len(q) - 1
      /\ DOMAIN q = 1 .. Len(q) /\ DOMAIN Tail(q) = 1 .. Len(q) - 1
      /\ \A i \in DOMAIN Tail(q) : Tail(q)[i] = q[i + 1]
  OBVIOUS
<1>2. \A i \in DOMAIN Tail(q) : i + 1 \in DOMAIN q /\ i \in Nat
  BY <1>1
<1>3. 1 \in DOMAIN q
  BY <1>1
<1> QED BY <1>1, <1>2, <1>3 DEF Range

(* What joins a queue stands last in it.                                   *)
LEMMA AppendFacts ==
  ASSUME NEW S, NEW q \in Seq(S), NEW f \in S
  PROVE  /\ q \o <<f>> = Append(q, f)
         /\ Append(q, f) \in Seq(S) /\ Len(Append(q, f)) = Len(q) + 1
         /\ DOMAIN Append(q, f) = 1 .. Len(q) + 1 /\ Len(q) \in Nat /\ DOMAIN q = 1 .. Len(q)
         /\ \A i \in 1 .. Len(q) : Append(q, f)[i] = q[i]
         /\ Append(q, f)[Len(q) + 1] = f
         /\ Range(Append(q, f)) = Range(q) \union {f}
<1>1. /\ Append(q, f) \in Seq(S) /\ Len(Append(q, f)) = Len(q) + 1
      /\ DOMAIN Append(q, f) = 1 .. Len(q) + 1 /\ Len(q) \in Nat /\ DOMAIN q = 1 .. Len(q)
      /\ \A i \in 1 .. Len(q) : Append(q, f)[i] = q[i]
      /\ Append(q, f)[Len(q) + 1] = f
  OBVIOUS
<1>2. 1 .. Len(q) + 1 = 1 .. Len(q) \union {Len(q) + 1}
  BY <1>1
<1>3. Range(Append(q, f)) = Range(q) \union {f}
  <2>1. \A i \in 1 .. Len(q) + 1 : Append(q, f)[i] \in Range(q) \union {f}
    BY <1>1, <1>2 DEF Range
  <2>2. \A i \in 1 .. Len(q) : q[i] \in Range(Append(q, f))
    BY <1>1, <1>2 DEF Range
  <2>3. f \in Range(Append(q, f))
    BY <1>1, <1>2 DEF Range
  <2> QED BY <1>1, <2>1, <2>2, <2>3 DEF Range
<1>4. q \o <<f>> = Append(q, f)
  OBVIOUS
<1> QED BY <1>1, <1>3, <1>4
-----------------------------------------------------------------------------
(* The positions below i in a finite set of them: how far i ranks.         *)
LEMMA RankIsBijective ==
  ASSUME NEW at, IsFiniteSet(at), at \subseteq Nat
  PROVE  /\ Cardinality(at) \in Nat
         /\ \A k \in 1 .. Cardinality(at) :
               \E i \in at : Cardinality({j \in at : j <= i}) = k
         /\ \A i, k \in at :
               Cardinality({j \in at : j <= i}) = Cardinality({j \in at : j <= k}) => i = k
<1> DEFINE N == Cardinality(at)
           Below(i) == {j \in at : j <= i}
           rank == [i \in at |-> Cardinality(Below(i))]
<1>1. N \in Nat /\ IsFiniteSet(1 .. N) /\ Cardinality(1 .. N) = N
  <2>1. N \in Nat
    BY FS_CardinalityType
  <2>2. IsFiniteSet(1 .. N) /\ Cardinality(1 .. N) = IF 1 > N THEN 0 ELSE N - 1 + 1
    <3> HIDE DEF N
    <3>1. 1 \in Int /\ N \in Int
      BY <2>1
    <3> QED BY <3>1, FS_Interval
  <2> QED BY <2>1, <2>2
<1>2. ASSUME NEW i \in at
      PROVE  /\ IsFiniteSet(Below(i))
             /\ Cardinality(Below(i)) \in 1 .. N
  <2>1. Below(i) \in SUBSET at /\ i \in Below(i)
    OBVIOUS
  <2>2. IsFiniteSet(Below(i)) /\ Cardinality(Below(i)) <= N
    BY <2>1, FS_Subset
  <2>3. Cardinality(Below(i)) \in Nat /\ Cardinality(Below(i)) # 0
    BY <2>1, <2>2, FS_CardinalityType, FS_EmptySet
  <2> HIDE DEF N, Below
  <2> QED BY <2>2, <2>3, <1>1
<1>3. ASSUME NEW i \in at, NEW k \in at, i < k
      PROVE  Cardinality(Below(i)) # Cardinality(Below(k))
  <2>1. Below(i) \in SUBSET Below(k) /\ k \in Below(k) /\ k \notin Below(i)
    <3>1. i \in Nat /\ k \in Nat /\ \A j \in at : j \in Nat
      OBVIOUS
    <3>2. k <= k /\ ~(k <= i) /\ \A j \in Nat : j <= i => j <= k
      BY <1>3, <3>1
    <3> QED BY <3>1, <3>2
  <2>2. Below(i) # Below(k)
    BY <2>1
  <2>3. IsFiniteSet(Below(k))
    BY <1>2
  <2> HIDE DEF Below
  <2> QED BY <2>1, <2>2, <2>3, FS_Subset
<1>4. \A i, k \in at : Cardinality(Below(i)) = Cardinality(Below(k)) => i = k
  BY <1>3
<1>5. rank \in Injection(at, 1 .. N)
  <2> HIDE DEF N, Below
  <2> QED BY <1>2, <1>4 DEF Injection, IsInjective
<1>6. rank \in Surjection(at, 1 .. N)
  <2> HIDE DEF rank
  <2> QED BY <1>1, <1>5, FS_Injection DEF N
<1>7. \A k \in 1 .. N : \E i \in at : rank[i] = k
  BY <1>6 DEF Surjection
<1> QED BY <1>1, <1>4, <1>7

(* Picking positions of a sequence yields what stands there, and as many.  *)
LEMMA PickedElements ==
  ASSUME NEW S, NEW s \in Seq(S), NEW at, at \subseteq DOMAIN s
  PROVE  /\ IsFiniteSet(at)
         /\ Picked(s, at) \in Seq(S)
         /\ Len(Picked(s, at)) = Cardinality(at)
         /\ Range(Picked(s, at)) = {s[i] : i \in at}
<1>1. DOMAIN s = 1 .. Len(s) /\ Len(s) \in Nat /\ \A i \in 1 .. Len(s) : s[i] \in S
  OBVIOUS
<1>2. at \subseteq Nat /\ IsFiniteSet(at)
  <2>1. IsFiniteSet(1 .. Len(s))
    BY <1>1, FS_Interval
  <2> QED BY <1>1, <2>1, FS_Subset
<1> DEFINE N == Cardinality(at)
           Rank(i) == Cardinality({j \in at : j <= i})
           pos == [k \in 1 .. N |-> CHOOSE i \in at : Rank(i) = k]
<1>3. /\ N \in Nat
      /\ \A k \in 1 .. N : \E i \in at : Rank(i) = k
      /\ \A i, k \in at : Rank(i) = Rank(k) => i = k
  BY <1>2, RankIsBijective
<1>4. \A i \in at : Rank(i) \in 1 .. N
  <2> TAKE i \in at
  <2>1. {j \in at : j <= i} \in SUBSET at /\ i \in {j \in at : j <= i}
    BY <1>2
  <2>2. IsFiniteSet({j \in at : j <= i}) /\ Rank(i) <= N
    BY <1>2, <2>1, FS_Subset
  <2>3. Rank(i) \in Nat /\ Rank(i) # 0
    BY <2>1, <2>2, FS_CardinalityType, FS_EmptySet
  <2> HIDE DEF Rank, N
  <2> QED BY <2>2, <2>3, <1>3
<1>5. Picked(s, at) = [k \in 1 .. N |-> s[pos[k]]]
  BY DEF Picked
<1> HIDE DEF N, Rank
<1>6. \A k \in 1 .. N : pos[k] \in at /\ Rank(pos[k]) = k
  BY <1>3
<1>7. \A i \in at : pos[Rank(i)] = i
  BY <1>3, <1>4, <1>6
<1> HIDE DEF pos
<1>8. \A k \in 1 .. N : s[pos[k]] \in S
  BY <1>1, <1>6
<1>9. Picked(s, at) \in Seq(S) /\ Len(Picked(s, at)) = N /\ DOMAIN Picked(s, at) = 1 .. N
  BY <1>3, <1>5, <1>8
<1>10. \A k \in 1 .. N : Picked(s, at)[k] = s[pos[k]]
  BY <1>5
<1> HIDE DEF Picked
<1>11. Range(Picked(s, at)) = {s[i] : i \in at}
  <2>1. Range(Picked(s, at)) = {Picked(s, at)[k] : k \in 1 .. N}
    BY <1>9 DEF Range
  <2>2. \A k \in 1 .. N : Picked(s, at)[k] \in {s[i] : i \in at}
    BY <1>6, <1>10
  <2>3. \A i \in at : s[i] \in {Picked(s, at)[k] : k \in 1 .. N}
    BY <1>4, <1>7, <1>10
  <2> QED BY <2>1, <2>2, <2>3
<1> QED BY <1>2, <1>9, <1>11 DEF N
-----------------------------------------------------------------------------
(* Every op of a batch is named first somewhere.                           *)
LEMMA FirstNaming ==
  ASSUME NEW ops \in Seq(Op), NEW i \in DOMAIN ops
  PROVE  \E k \in FirstNamed(ops) : ops[k] = ops[i]
<1> DEFINE T == {k \in Nat : k \in DOMAIN ops /\ ops[k] = ops[i]}
<1>1. DOMAIN ops = 1 .. Len(ops) /\ Len(ops) \in Nat
  OBVIOUS
<1>2. T \subseteq Nat /\ T # {}
  BY <1>1
<1>3. PICK k \in T : \A y \in T : ~(<<y, k>> \in OpToRel(<, Nat))
  <2> HIDE DEF T
  <2> QED BY <1>2, NatLessThanWellFounded, WFMin
<1>4. \A y \in T : ~(y < k)
  BY <1>2, <1>3 DEF OpToRel
<1>5. \A j \in 1 .. k - 1 : ops[j] # ops[k]
  <2>1. k \in Nat /\ k \in 1 .. Len(ops) /\ ops[k] = ops[i]
    BY <1>1
  <2> TAKE j \in 1 .. k - 1
  <2>2. j \in Nat /\ j < k /\ j \in DOMAIN ops
    BY <1>1, <2>1
  <2> QED BY <1>4, <2>1, <2>2
<1>6. k \in FirstNamed(ops)
  BY <1>5 DEF FirstNamed
<1> QED BY <1>6

(* Dedup: the fresh ops of a batch are those the room lacks, each once.    *)
LEMMA FreshOps ==
  ASSUME NEW r, NEW ops \in Seq(Op)
  PROVE  /\ Fresh(r, ops) \in Seq(Op)
         /\ Range(Fresh(r, ops)) = Range(ops) \ r.seen
         /\ IsFiniteSet(Range(Fresh(r, ops)))
         /\ Len(Fresh(r, ops)) = Cardinality(Range(Fresh(r, ops)))
<1> DEFINE at == {i \in FirstNamed(ops) : ops[i] \notin r.seen}
<1>1. at \subseteq DOMAIN ops /\ DOMAIN ops = 1 .. Len(ops) /\ Len(ops) \in Nat
  BY DEF FirstNamed
<1>2. Fresh(r, ops) = Picked(ops, at)
  BY DEF Fresh
<1>3. \A i, k \in at : ops[i] = ops[k] => i = k
  <2>1. \A i, k \in DOMAIN ops : i < k => i \in 1 .. k - 1
    BY <1>1
  <2>2. \A i, k \in at : i < k => ops[i] # ops[k]
    BY <1>1, <2>1 DEF FirstNamed
  <2>3. \A i, k \in at : i < k \/ k < i \/ i = k
    BY <1>1
  <2> HIDE DEF at
  <2> QED BY <2>2, <2>3
<1>4. {ops[i] : i \in at} = Range(ops) \ r.seen
  <2>1. \A i \in at : ops[i] \in Range(ops) \ r.seen
    BY <1>1 DEF Range
  <2>2. \A i \in DOMAIN ops : ops[i] \notin r.seen => \E k \in at : ops[k] = ops[i]
    BY FirstNaming
  <2>3. \A o \in Range(ops) \ r.seen : \E k \in at : o = ops[k]
    BY <2>2 DEF Range
  <2> HIDE DEF at
  <2> QED BY <2>1, <2>3
<1> HIDE DEF at
<1>5. /\ IsFiniteSet(at)
      /\ Picked(ops, at) \in Seq(Op)
      /\ Len(Picked(ops, at)) = Cardinality(at)
      /\ Range(Picked(ops, at)) = {ops[i] : i \in at}
  BY <1>1, PickedElements
<1>6. IsFiniteSet({ops[i] : i \in at}) /\ Cardinality({ops[i] : i \in at}) = Cardinality(at)
  <2> DEFINE f == [i \in at |-> ops[i]]
             T == {ops[i] : i \in at}
  <2>1. f \in Injection(at, T) /\ f \in Surjection(at, T)
    BY <1>3 DEF Injection, IsInjective, Surjection
  <2> HIDE DEF f, T
  <2>2. IsFiniteSet(T) /\ (Cardinality(T) = Cardinality(at) <=> f \in Injection(at, T))
    BY <1>5, <2>1, FS_Surjection
  <2> QED BY <2>1, <2>2 DEF T
<1> QED BY <1>2, <1>4, <1>5, <1>6

(* A room nobody has written is sound.                                     *)
LEMMA EmptyRoomSound == SoundRoom(EmptyRoom)
<1>1. EmptyRoom \in Room /\ Range(EmptyRoom.log) = {} /\ RoomHead(EmptyRoom) = 0
  BY DEF EmptyRoom, Room, Range, RoomHead
<1> QED BY <1>1, FS_EmptySet DEF SoundRoom, EmptyRoom

(* Compaction moves the floor to the head and forgets no op.               *)
LEMMA CompactSound ==
  ASSUME NEW r, SoundRoom(r)
  PROVE  /\ SoundRoom(Compact(r))
         /\ Compact(r).seen = r.seen
         /\ RoomHead(Compact(r)) = RoomHead(r)
<1>1. r \in Room /\ RoomHead(r) \in Nat
  BY DEF SoundRoom, Room, RoomHead
<1>2. Compact(r) = [base |-> RoomHead(r), log |-> <<>>, seen |-> r.seen]
  BY DEF Compact
<1>3. Compact(r) \in Room /\ Range(Compact(r).log) = {} /\ RoomHead(Compact(r)) = RoomHead(r)
  BY <1>1, <1>2 DEF Room, Range, RoomHead
<1> QED BY <1>2, <1>3 DEF SoundRoom

(* Taking in the fresh ops of a batch counts each of them once.            *)
LEMMA GrownSound ==
  ASSUME NEW r, SoundRoom(r), NEW ops \in Seq(Op)
  PROVE  LET fresh == Fresh(r, ops)
             grown == [base |-> r.base, log |-> r.log \o fresh, seen |-> r.seen \union Range(fresh)]
         IN /\ SoundRoom(grown)
            /\ grown.seen = r.seen \union Range(ops)
            /\ RoomHead(grown) = RoomHead(r) + Len(fresh)
<1> DEFINE fresh == Fresh(r, ops)
           grown == [base |-> r.base, log |-> r.log \o fresh, seen |-> r.seen \union Range(fresh)]
<1>1. /\ fresh \in Seq(Op)
      /\ Range(fresh) = Range(ops) \ r.seen
      /\ IsFiniteSet(Range(fresh))
      /\ Len(fresh) = Cardinality(Range(fresh))
  BY FreshOps
<1>2. r \in Room /\ r.base \in Nat /\ r.log \in Seq(Op) /\ r.seen \in SUBSET Op
  BY DEF SoundRoom, Room
<1> HIDE DEF fresh
<1>3. /\ Range(fresh) \subseteq Op
      /\ r.log \o fresh \in Seq(Op)
      /\ Len(r.log \o fresh) = Len(r.log) + Len(fresh)
      /\ Range(r.log \o fresh) = Range(r.log) \union Range(fresh)
  <2>1. Range(fresh) \subseteq Op
    BY <1>1 DEF Range
  <2>2. \A s, t \in Seq(Op) : /\ s \o t \in Seq(Op)
                               /\ Len(s \o t) = Len(s) + Len(t)
                               /\ Range(s \o t) = Range(s) \union Range(t)
    BY ConcatRange
  <2> QED BY <1>1, <1>2, <2>1, <2>2
<1>4. /\ grown.base = r.base
      /\ grown.log = r.log \o fresh
      /\ grown.seen = r.seen \union Range(fresh)
  OBVIOUS
<1>5. /\ IsFiniteSet(r.seen \union Range(fresh))
      /\ Cardinality(r.seen \union Range(fresh)) = Cardinality(r.seen) + Cardinality(Range(fresh))
  <2>1. r.seen \intersect Range(fresh) = {} /\ IsFiniteSet(r.seen)
    BY <1>1 DEF SoundRoom
  <2>2. Cardinality(r.seen) \in Nat /\ Cardinality(Range(fresh)) \in Nat
    BY <1>1, <2>1, FS_CardinalityType
  <2>3. /\ IsFiniteSet(r.seen \union Range(fresh))
        /\ Cardinality(r.seen \union Range(fresh)) =
              Cardinality(r.seen) + Cardinality(Range(fresh)) - Cardinality(r.seen \intersect Range(fresh))
    BY <1>1, <2>1, FS_Union
  <2>4. Cardinality(r.seen \intersect Range(fresh)) = 0
    BY <2>1, FS_EmptySet
  <2> QED BY <2>2, <2>3, <2>4
<1>6. grown \in Room /\ RoomHead(grown) = RoomHead(r) + Len(fresh)
  <2>1. Len(r.log) \in Nat /\ Len(fresh) \in Nat
    BY <1>1, <1>2
  <2>2. grown.base + Len(grown.log) = (r.base + Len(r.log)) + Len(fresh)
    BY <1>2, <1>3, <1>4, <2>1
  <2>3. grown \in Room
    BY <1>2, <1>3, <1>4 DEF Room
  <2> QED BY <2>2, <2>3 DEF RoomHead
<1>7. SoundRoom(grown) /\ grown.seen = r.seen \union Range(ops)
  <2>1. grown.seen = r.seen \union Range(fresh) /\ grown.log = r.log \o fresh
    BY <1>4
  <2>2. Range(grown.log) \subseteq grown.seen
    BY <1>3, <2>1 DEF SoundRoom
  <2>3. IsFiniteSet(grown.seen) /\ RoomHead(grown) = Cardinality(grown.seen)
    BY <1>1, <1>5, <1>6, <2>1 DEF SoundRoom
  <2> HIDE DEF grown
  <2> QED BY <1>1, <1>6, <2>1, <2>2, <2>3 DEF SoundRoom
<1> HIDE DEF grown
<1> QED BY <1>6, <1>7 DEF fresh, grown

(* Committing them does too, compacted on the way or not.                  *)
LEMMA CommitSound ==
  ASSUME NEW r, SoundRoom(r), NEW ops \in Seq(Op)
  PROVE  LET fresh == Fresh(r, ops) IN
         /\ SoundRoom(Commit(r, fresh))
         /\ Commit(r, fresh).seen = r.seen \union Range(ops)
         /\ RoomHead(Commit(r, fresh)) = RoomHead(r) + Len(fresh)
<1> DEFINE fresh == Fresh(r, ops)
           grown == [base |-> r.base, log |-> r.log \o fresh, seen |-> r.seen \union Range(fresh)]
<1>1. SoundRoom(grown) /\ grown.seen = r.seen \union Range(ops) /\ RoomHead(grown) = RoomHead(r) + Len(fresh)
  BY GrownSound
<1>2. Commit(r, fresh) = IF CompactionThreshold > 0 /\ Len(grown.log) >= CompactionThreshold
                         THEN Compact(grown) ELSE grown
  BY DEF Commit
<1> HIDE DEF fresh, grown
<1> QED BY <1>1, <1>2, CompactSound DEF fresh

(* What catching up hands a reader belongs to the room, and a snapshot     *)
(* names its own size.                                                     *)
LEMMA CatchUpSound ==
  ASSUME NEW r, SoundRoom(r), NEW floor \in Nat
  PROVE  LET c == CatchUp(r, floor) IN
         \/ /\ c.kind = "snapshot"
            /\ c.state = r.seen
            /\ c.seq = Cardinality(c.state)
         \/ /\ c.kind = "ops"
            /\ floor >= r.base
            /\ c.ops = SubSeq(r.log, floor - r.base + 1, Len(r.log))
            /\ c.ops \in Seq(Op)
            /\ Range(c.ops) \subseteq r.seen
<1>1. r.base \in Nat /\ r.log \in Seq(Op) /\ Range(r.log) \subseteq r.seen
  BY DEF SoundRoom, Room
<1>2. CASE floor < r.base
  BY <1>2 DEF CatchUp, SoundRoom
<1>3. CASE ~(floor < r.base)
  <2> DEFINE ops == SubSeq(r.log, floor - r.base + 1, Len(r.log))
  <2>1. floor - r.base + 1 \in Nat \ {0} /\ Len(r.log) \in Nat
    BY <1>1, <1>3
  <2>2. ops \in Seq(Op) /\ Range(ops) \subseteq Range(r.log)
    BY <1>1, <2>1, SubSeqRange
  <2>3. Range(ops) \subseteq r.seen
    BY <1>1, <2>2
  <2>4. floor >= r.base /\ CatchUp(r, floor) = [kind |-> "ops", ops |-> ops]
    BY <1>1, <1>3 DEF CatchUp
  <2> HIDE DEF ops
  <2> QED BY <2>2, <2>3, <2>4 DEF ops
<1> QED BY <1>2, <1>3

(* A snapshot that names its own size leaves a sound room.                 *)
LEMMA InstallSound ==
  ASSUME NEW state, state \subseteq Op, IsFiniteSet(state)
  PROVE  /\ SoundRoom(InstallSnapshot(state, Cardinality(state)))
         /\ InstallSnapshot(state, Cardinality(state)).seen = state
         /\ RoomHead(InstallSnapshot(state, Cardinality(state))) = Cardinality(state)
<1> DEFINE r == InstallSnapshot(state, Cardinality(state))
<1>1. Cardinality(state) \in Nat
  BY FS_CardinalityType
<1>2. r = [base |-> Cardinality(state), log |-> <<>>, seen |-> state]
  BY DEF InstallSnapshot
<1>3. r \in Room /\ RoomHead(r) = Cardinality(state) /\ Range(r.log) = {} /\ r.seen = state
  BY <1>1, <1>2 DEF Room, RoomHead, Range
<1> QED BY <1>3 DEF SoundRoom
=============================================================================

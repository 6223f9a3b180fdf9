----------------------- MODULE RoomReplicationProofs -----------------------
(* The epochs of room replication and the replicated room itself, for any  *)
(* replica set, any placement, any batches, any queue capacity and any     *)
(* number of link drops, restarts and lost disks.                          *)
EXTENDS RoomReplication, RoomHubProofs

(* The epochs a node keeps are the ones on its disk.                       *)
EpochTypes ==
    /\ seenEpoch \in [Node -> Nat]
    /\ led \in [Node -> Nat]
    /\ epochFile = seenEpoch
    /\ stamped \in [Node -> SUBSET Nat]

(* A queue whose frames all carry epochs of st, head reports aside.        *)
Good(st, q) ==
    /\ q \in Seq(Range(q))
    /\ \A f \in Range(q) : f.kind # "FollowerHeads" => f.epoch \in st

Grid(q) == DOMAIN q = Node /\ \A n \in Node : DOMAIN q[n] = Node

FramesStamped ==
    /\ Grid(queue) /\ Grid(stray)
    /\ \A n, m \in Node : Good(stamped[n], queue[n][m]) /\ Good(stamped[n], stray[n][m])

EpochIInv == EpochTypes /\ FramesStamped

EpochStep == [Epochs!Next]_(Epochs!vars)
-----------------------------------------------------------------------------
(* A sequence is one over the values it takes, whatever set it was drawn   *)
(* from.                                                                   *)
LEMMA SeqOverRange ==
  ASSUME NEW S, NEW s \in Seq(S)
  PROVE  Range(s) \subseteq S /\ s \in Seq(Range(s))
<1>1. Len(s) \in Nat /\ DOMAIN s = 1 .. Len(s) /\ \A k \in 1 .. Len(s) : s[k] \in S
  OBVIOUS
<1>2. Range(s) \subseteq S /\ \A k \in 1 .. Len(s) : s[k] \in Range(s)
  BY <1>1 DEF Range
<1>3. s \in Seq(Range(s))
  BY <1>1, <1>2
<1> QED BY <1>2, <1>3

(* The empty queue carries no epoch at all.                                *)
LEMMA GoodEmpty == ASSUME NEW st PROVE Good(st, <<>>)
  BY DEF Good, Range

(* More stamps make no queue bad.                                          *)
LEMMA GoodGrows ==
  ASSUME NEW st, NEW st2, st \subseteq st2, NEW q, Good(st, q)
  PROVE  Good(st2, q)
  BY DEF Good

(* The frame a receiver reads next was stamped by its sender.              *)
LEMMA GoodHead ==
  ASSUME NEW st, NEW q, Good(st, q), q # <<>>
  PROVE  Head(q).kind # "FollowerHeads" => Head(q).epoch \in st
<1>1. Len(q) \in Nat /\ Len(q) > 0 /\ DOMAIN q = 1 .. Len(q) /\ Head(q) = q[1]
  BY DEF Good
<1>2. Head(q) \in Range(q)
  BY <1>1 DEF Range
<1> QED BY <1>2 DEF Good

(* What a lost socket leaves of a queue, or takes from it, is good.        *)
LEMMA GoodSub ==
  ASSUME NEW st, NEW q, Good(st, q), NEW i \in Nat \ {0}, NEW j \in Nat, j <= Len(q)
  PROVE  Good(st, SubSeq(q, i, j))
<1>1. SubSeq(q, i, j) \in Seq(Range(q))
  BY DEF Good
<1>2. /\ Range(SubSeq(q, i, j)) \subseteq Range(q)
      /\ SubSeq(q, i, j) \in Seq(Range(SubSeq(q, i, j)))
  BY <1>1, SeqOverRange
<1> QED BY <1>2 DEF Good

(* Reading a frame leaves a good queue.                                    *)
LEMMA GoodTail ==
  ASSUME NEW st, NEW q, Good(st, q), q # <<>>
  PROVE  Good(st, Tail(q))
<1>1. Tail(q) \in Seq(Range(q))
  BY DEF Good
<1>2. Range(Tail(q)) \subseteq Range(q) /\ Tail(q) \in Seq(Range(Tail(q)))
  BY <1>1, SeqOverRange
<1> QED BY <1>2 DEF Good

(* Strays of two dropped sockets add up to a good queue.                   *)
LEMMA GoodConcat ==
  ASSUME NEW st, NEW p, NEW q, Good(st, p), Good(st, q)
  PROVE  Good(st, p \o q)
<1>1. p \o q \in Seq(Range(p) \union Range(q))
  BY DEF Good
<1>2. /\ Range(p \o q) \subseteq Range(p) \union Range(q)
      /\ p \o q \in Seq(Range(p \o q))
  BY <1>1, SeqOverRange
<1> QED BY <1>2 DEF Good

(* Queueing a stamped frame, or dropping it, keeps the queue good.         *)
LEMMA GoodSend ==
  ASSUME NEW st, NEW q, Good(st, q), NEW f,
         f.kind # "FollowerHeads" => f.epoch \in st
  PROVE  Good(st, TrySend(q, f))
<1>1. Append(q, f) \in Seq(Range(q) \union {f})
  BY DEF Good
<1>2. /\ Range(Append(q, f)) \subseteq Range(q) \union {f}
      /\ Append(q, f) \in Seq(Range(Append(q, f)))
  BY <1>1, SeqOverRange
<1>3. Good(st, Append(q, f))
  BY <1>2 DEF Good
<1> QED BY <1>3 DEF TrySend
-----------------------------------------------------------------------------
(* claim_and_persist_epoch is the abstract claim.                          *)
LEMMA ClaimIsClaim ==
  ASSUME NEW n \in Node, EpochTypes, ClaimAndPersistEpoch(n)
  PROVE  /\ Epochs!ClaimLeadership(n)
         /\ EpochTypes'
         /\ \A k \in Node : stamped[k] \subseteq stamped'[k]
         /\ Epochs!ClaimedEpoch(seenEpoch[n], led[n]) \in stamped'[n]
  BY DEF EpochTypes, ClaimAndPersistEpoch, Epochs!ClaimLeadership,
         Epochs!ClaimedEpoch, Epochs!Observed

(* Passing the gate and deferring is the abstract application of a frame.  *)
LEMMA DeferIsApply ==
  ASSUME NEW n \in Node, NEW m \in Node \ {n}, NEW e \in stamped[n],
         EpochTypes, ReplicaGate(m, e) = "Apply", Defer(m, e)
  PROVE  /\ Epochs!ApplyFrame(m, n, e)
         /\ EpochTypes'
         /\ stamped' = stamped
  BY DEF EpochTypes, ReplicaGate, Defer, Epochs!ApplyFrame,
         Epochs!Observed, Epochs!Superseded

(* A step that leaves the epochs alone stutters in the abstract fence.     *)
LEMMA StutterStep ==
  ASSUME EpochTypes, UNCHANGED epochVars
  PROVE  EpochStep /\ EpochTypes' /\ stamped' = stamped
  BY DEF EpochTypes, epochVars, EpochStep, Epochs!vars

(* A claim is a step of the abstract fence.                                *)
LEMMA ClaimStep ==
  ASSUME NEW n \in Node, EpochTypes, ClaimAndPersistEpoch(n)
  PROVE  EpochStep
  BY ClaimIsClaim DEF EpochStep, Epochs!Next

(* So is deferring to an admitted frame.                                   *)
LEMMA DeferStep ==
  ASSUME NEW n \in Node, NEW m \in Node \ {n}, NEW e \in stamped[n],
         EpochTypes, ReplicaGate(m, e) = "Apply", Defer(m, e)
  PROVE  EpochStep
<1>1. m \in Node /\ n \in Node \ {m} /\ Epochs!ApplyFrame(m, n, e)
  BY DeferIsApply
<1> QED BY <1>1 DEF EpochStep, Epochs!Next

(* And so is building a catch-up, which claims when there is a frame.      *)
LEMMA ClaimIfStep ==
  ASSUME NEW n \in Node, NEW frames, EpochTypes, ClaimIf(n, frames)
  PROVE  /\ EpochStep
         /\ EpochTypes'
         /\ \A k \in Node : stamped[k] \subseteq stamped'[k]
         /\ frames # {} => Epochs!ClaimedEpoch(seenEpoch[n], led[n]) \in stamped'[n]
<1>1. CASE frames = {}
  BY <1>1, StutterStep DEF ClaimIf
<1>2. CASE frames # {}
  BY <1>2, ClaimIsClaim, ClaimStep DEF ClaimIf
<1> QED BY <1>1, <1>2

(* A catch-up frame carries the epoch its sender has just claimed.         *)
LEMMA CatchUpFramesStamped ==
  ASSUME NEW n \in Node, NEW floor, NEW f \in CatchUpFrames(n, floor)
  PROVE  f.epoch = Epochs!ClaimedEpoch(seenEpoch[n], led[n])
<1> DEFINE e == Epochs!ClaimedEpoch(seenEpoch[n], led[n])
           c == CatchUp(room[n], floor)
<1>1. \/ f = [kind |-> "ReplicateSnapshot", seq |-> c.seq, state |-> c.state, epoch |-> e]
      \/ f = [kind |-> "Replicate", ops |-> c.ops, epoch |-> e]
      \/ f = [kind |-> "ReplicateMeta", epoch |-> e]
  <2> HIDE DEF e, c
  <2> QED BY DEF CatchUpFrames, e, c
<1> HIDE DEF e, c
<1>2. f.epoch = e
  BY <1>1
<1> QED BY <1>2 DEF e

(* Queueing a catch-up keeps the queue good.                               *)
LEMMA GoodCatchUp ==
  ASSUME NEW st, NEW q, Good(st, q), NEW frames, \A f \in frames : f.epoch \in st
  PROVE  Good(st, SendCatchUp(q, frames))
<1>1. CASE frames = {}
  BY <1>1 DEF SendCatchUp
<1>2. CASE frames # {}
  <2> DEFINE g == CHOOSE f \in frames : TRUE
  <2>1. g \in frames
    BY <1>2
  <2>2. Good(st, TrySend(q, g))
    BY <2>1, GoodSend
  <2> QED BY <1>2, <2>2 DEF SendCatchUp
<1> QED BY <1>1, <1>2
-----------------------------------------------------------------------------
(* What every frame handler does to the epochs and the queues.             *)
LEMMA ReceiveStep ==
  ASSUME NEW n \in Node, NEW m \in Node \ {n}, NEW f, NEW q, NEW live,
         f.kind # "FollowerHeads" => f.epoch \in stamped[n],
         EpochTypes, Grid(q),
         \A a, b \in Node : Good(stamped[a], q[a][b]),
         Receive(n, m, f, q, live)
  PROVE  /\ EpochStep
         /\ EpochTypes'
         /\ \A k \in Node : stamped[k] \subseteq stamped'[k]
         /\ Grid(queue')
         /\ \A a, b \in Node : Good(stamped'[a], queue'[a][b])
<1>1. ASSUME f.kind # "FollowerHeads", queue' = q,
             \/ UNCHANGED epochVars
             \/ ReplicaGate(m, f.epoch) = "Apply" /\ Defer(m, f.epoch)
      PROVE  /\ EpochStep
             /\ EpochTypes'
             /\ \A k \in Node : stamped[k] \subseteq stamped'[k]
             /\ Grid(queue')
             /\ \A a, b \in Node : Good(stamped'[a], queue'[a][b])
  <2>1. EpochStep /\ EpochTypes' /\ stamped' = stamped
    BY <1>1, StutterStep, DeferStep, DeferIsApply
  <2> QED BY <2>1, <1>1
<1>2. CASE ApplyReplicate(n, m, f, live) /\ queue' = q
  BY <1>2, <1>1 DEF ApplyReplicate
<1>3. CASE ApplyReplicateSnapshot(n, m, f, live) /\ queue' = q
  BY <1>3, <1>1 DEF ApplyReplicateSnapshot
<1>4. CASE ApplyReplicateMeta(n, m, f, live) /\ queue' = q
  BY <1>4, <1>1 DEF ApplyReplicateMeta
<1>5. CASE ApplyFollowerHeads(n, m, f, q)
  <2>1. CASE queue' = q /\ UNCHANGED epochVars
    BY <2>1, StutterStep
  <2>2. ASSUME NEW floor,
               queue' = [q EXCEPT ![m][n] = SendCatchUp(@, CatchUpFrames(m, floor))],
               ClaimIf(m, CatchUpFrames(m, floor))
        PROVE  /\ EpochStep
               /\ EpochTypes'
               /\ \A k \in Node : stamped[k] \subseteq stamped'[k]
               /\ Grid(queue')
               /\ \A a, b \in Node : Good(stamped'[a], queue'[a][b])
    <3> DEFINE frames == CatchUpFrames(m, floor)
    <3>1. /\ EpochStep
          /\ EpochTypes'
          /\ \A k \in Node : stamped[k] \subseteq stamped'[k]
          /\ frames # {} => Epochs!ClaimedEpoch(seenEpoch[m], led[m]) \in stamped'[m]
      BY <2>2, ClaimIfStep
    <3>2. \A g \in frames : g.epoch \in stamped'[m]
      BY <3>1, CatchUpFramesStamped
    <3> HIDE DEF frames
    <3>3. \A a, b \in Node : Good(stamped'[a], q[a][b])
      BY <3>1, GoodGrows
    <3>4. Good(stamped'[m], SendCatchUp(q[m][n], frames))
      BY <3>2, <3>3, GoodCatchUp
    <3>5. queue' = [q EXCEPT ![m][n] = SendCatchUp(@, frames)]
      BY <2>2 DEF frames
    <3>6. Grid(queue')
      BY <3>5 DEF Grid
    <3>7. \A a, b \in Node : Good(stamped'[a], queue'[a][b])
      <4> TAKE a, b \in Node
      <4>1. CASE a = m /\ b = n
        BY <4>1, <3>4, <3>5 DEF Grid
      <4>2. CASE ~(a = m /\ b = n)
        <5>1. queue'[a][b] = q[a][b]
          BY <4>2, <3>5 DEF Grid
        <5> QED BY <5>1, <3>3
      <4> QED BY <4>1, <4>2
    <3> QED BY <3>1, <3>6, <3>7
  <2> QED BY <1>5, <2>1, <2>2 DEF ApplyFollowerHeads
<1> QED BY <1>2, <1>3, <1>4, <1>5 DEF Receive

(* Queues of one sender changed, everything else of the queues kept.       *)
LEMMA FramesOneLink ==
  ASSUME NEW n \in Node, NEW m \in Node, NEW x,
         FramesStamped, stray' = stray,
         \A k \in Node : stamped[k] \subseteq stamped'[k],
         queue' = [queue EXCEPT ![n][m] = x],
         Good(stamped'[n], x)
  PROVE  FramesStamped'
<1>1. Grid(queue') /\ Grid(stray')
  BY DEF FramesStamped, Grid
<1>2. ASSUME NEW a \in Node, NEW b \in Node
      PROVE  Good(stamped'[a], queue'[a][b]) /\ Good(stamped'[a], stray'[a][b])
  <2>1. Good(stamped'[a], queue[a][b]) /\ Good(stamped'[a], stray[a][b])
    BY GoodGrows DEF FramesStamped
  <2>2. queue'[a][b] = IF a = n /\ b = m THEN x ELSE queue[a][b]
    BY DEF FramesStamped, Grid
  <2> QED BY <2>1, <2>2
<1> QED BY <1>1, <1>2 DEF FramesStamped

(* Queues untouched, or only shortened by a step that keeps the stamps.    *)
LEMMA FramesSame ==
  ASSUME FramesStamped, queue' = queue, stray' = stray, stamped' = stamped
  PROVE  FramesStamped'
  BY DEF FramesStamped, Grid

(* A client's write claims, then fans out under the claimed epoch.         *)
LEMMA WriteStep ==
  ASSUME EpochIInv, NEW n \in Node, NEW batch \in Batch, ClientWrite(n, batch)
  PROVE  EpochStep /\ EpochIInv'
<1> DEFINE fresh == Fresh(room[n], batch)
           e == Epochs!ClaimedEpoch(seenEpoch[n], led[n])
           frame == [kind |-> "Replicate", ops |-> fresh, epoch |-> e]
<1>1. /\ ClaimAndPersistEpoch(n)
      /\ stray' = stray
      /\ queue' = [queue EXCEPT ![n] = [m \in Node |->
                     IF <<n, m>> \in Dialed THEN TrySend(@[m], frame) ELSE @[m]]]
  BY DEF ClientWrite, linkVars
<1>2. /\ EpochStep /\ EpochTypes'
      /\ \A k \in Node : stamped[k] \subseteq stamped'[k]
      /\ e \in stamped'[n]
  BY <1>1, ClaimStep, ClaimIsClaim DEF EpochIInv
<1>3. frame.epoch \in stamped'[n]
  BY <1>2
<1> HIDE DEF frame, e
<1>4. Grid(queue') /\ Grid(stray')
  BY <1>1 DEF EpochIInv, FramesStamped, Grid
<1>5. ASSUME NEW a \in Node, NEW b \in Node
      PROVE  Good(stamped'[a], queue'[a][b]) /\ Good(stamped'[a], stray'[a][b])
  <2>1. Good(stamped'[a], queue[a][b]) /\ Good(stamped'[a], stray[a][b])
    BY <1>2, GoodGrows DEF EpochIInv, FramesStamped
  <2>2. Good(stamped'[n], TrySend(queue[n][b], frame))
    <3>1. Good(stamped'[n], queue[n][b])
      BY <1>2, GoodGrows DEF EpochIInv, FramesStamped
    <3> QED BY <3>1, <1>3, GoodSend
  <2>3. \/ queue'[a][b] = queue[a][b]
        \/ a = n /\ queue'[a][b] = TrySend(queue[n][b], frame)
    BY <1>1 DEF EpochIInv, FramesStamped, Grid
  <2> QED BY <1>1, <2>1, <2>2, <2>3
<1> QED BY <1>2, <1>4, <1>5 DEF EpochIInv, FramesStamped

(* A frame is read off a live socket.                                      *)
LEMMA DeliverStep ==
  ASSUME EpochIInv, NEW n \in Node, NEW m \in Node \ {n}, Deliver(n, m)
  PROVE  EpochStep /\ EpochIInv'
<1> DEFINE q == [queue EXCEPT ![n][m] = Tail(@)]
           f == Head(queue[n][m])
<1>1. queue[n][m] # <<>> /\ Receive(n, m, f, q, TRUE) /\ stray' = stray
  BY DEF Deliver
<1>2. f.kind # "FollowerHeads" => f.epoch \in stamped[n]
  BY <1>1, GoodHead DEF EpochIInv, FramesStamped
<1>3. Grid(q) /\ \A a, b \in Node : Good(stamped[a], q[a][b])
  <2>1. Grid(q)
    BY DEF EpochIInv, FramesStamped, Grid
  <2>2. Good(stamped[n], Tail(queue[n][m]))
    BY <1>1, GoodTail DEF EpochIInv, FramesStamped
  <2>3. ASSUME NEW a \in Node, NEW b \in Node
        PROVE  Good(stamped[a], q[a][b])
    <3>1. q[a][b] = IF a = n /\ b = m THEN Tail(queue[n][m]) ELSE queue[a][b]
      BY DEF EpochIInv, FramesStamped, Grid
    <3> QED BY <3>1, <2>2 DEF EpochIInv, FramesStamped
  <2> QED BY <2>1, <2>3
<1> HIDE DEF q, f
<1>4. /\ EpochStep
      /\ EpochTypes'
      /\ \A k \in Node : stamped[k] \subseteq stamped'[k]
      /\ Grid(queue')
      /\ \A a, b \in Node : Good(stamped'[a], queue'[a][b])
  BY <1>1, <1>2, <1>3, ReceiveStep DEF EpochIInv
<1>5. \A a, b \in Node : Good(stamped'[a], stray[a][b])
  BY <1>4, GoodGrows DEF EpochIInv, FramesStamped
<1> QED BY <1>1, <1>4, <1>5 DEF EpochIInv, FramesStamped, Grid

(* A frame is read off a socket its sender has given up.                   *)
LEMMA StrayStep ==
  ASSUME EpochIInv, NEW n \in Node, NEW m \in Node \ {n}, DeliverStray(n, m)
  PROVE  EpochStep /\ EpochIInv'
<1> DEFINE f == Head(stray[n][m])
<1>1. stray[n][m] # <<>> /\ Receive(n, m, f, queue, FALSE)
  BY DEF DeliverStray
<1>2. PICK x : x \in {<<>>, Tail(stray[n][m])} /\ stray' = [stray EXCEPT ![n][m] = x]
  <2> DEFINE y == IF Rejects(m, f) THEN <<>> ELSE Tail(stray[n][m])
  <2>1. stray' = [stray EXCEPT ![n][m] = y]
    BY DEF DeliverStray
  <2>2. y \in {<<>>, Tail(stray[n][m])}
    OBVIOUS
  <2> QED BY <2>1, <2>2
<1>3. f.kind # "FollowerHeads" => f.epoch \in stamped[n]
  BY <1>1, GoodHead DEF EpochIInv, FramesStamped
<1> HIDE DEF f
<1>4. /\ EpochStep
      /\ EpochTypes'
      /\ \A k \in Node : stamped[k] \subseteq stamped'[k]
      /\ Grid(queue')
      /\ \A a, b \in Node : Good(stamped'[a], queue'[a][b])
  BY <1>1, <1>3, ReceiveStep DEF EpochIInv, FramesStamped
<1>5. Good(stamped[n], x)
  BY <1>1, <1>2, GoodTail, GoodEmpty DEF EpochIInv, FramesStamped
<1>6. Grid(stray')
  BY <1>2 DEF EpochIInv, FramesStamped, Grid
<1>7. ASSUME NEW a \in Node, NEW b \in Node
      PROVE  Good(stamped'[a], stray'[a][b])
  <2>1. stray'[a][b] = IF a = n /\ b = m THEN x ELSE stray[a][b]
    BY <1>2 DEF EpochIInv, FramesStamped, Grid
  <2>2. Good(stamped[a], stray'[a][b])
    BY <2>1, <1>5 DEF EpochIInv, FramesStamped
  <2> QED BY <2>2, <1>4, GoodGrows
<1> QED BY <1>4, <1>6, <1>7 DEF EpochIInv, FramesStamped

(* A dial that succeeds queues a catch-up and a head report.               *)
LEMMA PeerUpStep ==
  ASSUME EpochIInv, NEW n \in Node, NEW m \in Node \ {n}, PeerUp(n, m)
  PROVE  EpochStep /\ EpochIInv'
<1> DEFINE up == EffectivePrimary(n, relayDown[n] \ {m}) = n /\ room[n] # EmptyRoom
           frames == IF up THEN CatchUpFrames(n, watermark[n][m]) ELSE {}
           heads == [kind |-> "FollowerHeads", head |-> RoomHead(room[n])]
           x == TrySend(SendCatchUp(queue[n][m], frames), heads)
<1>1. queue' = [queue EXCEPT ![n][m] = x] /\ ClaimIf(n, frames) /\ stray' = stray
  BY DEF PeerUp
<1>2. /\ EpochStep
      /\ EpochTypes'
      /\ \A k \in Node : stamped[k] \subseteq stamped'[k]
      /\ frames # {} => Epochs!ClaimedEpoch(seenEpoch[n], led[n]) \in stamped'[n]
  <2> HIDE DEF frames
  <2> QED BY <1>1, ClaimIfStep DEF EpochIInv
<1>3. \A g \in frames : g.epoch \in stamped'[n]
  <2> SUFFICES ASSUME NEW g \in frames PROVE g.epoch \in stamped'[n]
    OBVIOUS
  <2>1. g \in CatchUpFrames(n, watermark[n][m])
    OBVIOUS
  <2>2. g.epoch = Epochs!ClaimedEpoch(seenEpoch[n], led[n])
    BY <2>1, CatchUpFramesStamped
  <2> QED BY <2>2, <1>2
<1> HIDE DEF frames
<1>4. Good(stamped'[n], x)
  <2>1. Good(stamped'[n], queue[n][m])
    BY <1>2, GoodGrows DEF EpochIInv, FramesStamped
  <2>2. Good(stamped'[n], SendCatchUp(queue[n][m], frames))
    BY <2>1, <1>3, GoodCatchUp
  <2>3. heads.kind = "FollowerHeads"
    OBVIOUS
  <2> HIDE DEF heads
  <2> QED BY <2>2, <2>3, GoodSend
<1> HIDE DEF x
<1>5. FramesStamped'
  BY <1>1, <1>2, <1>4, FramesOneLink DEF EpochIInv
<1> QED BY <1>2, <1>5 DEF EpochIInv

(* A lost socket moves frames about and stamps none.                       *)
LEMMA SocketLostStep ==
  ASSUME EpochIInv, NEW n \in Node, NEW m \in Node \ {n},
         NEW k \in 0 .. Len(queue[n][m]), SocketLost(n, m, k),
         \/ stray' = stray
         \/ stray' = [stray EXCEPT ![n][m] = @ \o SubSeq(queue[n][m], 1, k)]
  PROVE  EpochStep /\ EpochIInv'
<1> DEFINE kept == SubSeq(queue[n][m], k + 1, Len(queue[n][m]))
           lost == SubSeq(queue[n][m], 1, k)
<1>1. UNCHANGED epochVars /\ queue' = [queue EXCEPT ![n][m] = kept]
  BY DEF SocketLost
<1>2. EpochStep /\ EpochTypes' /\ stamped' = stamped
  BY <1>1, StutterStep DEF EpochIInv
<1>3. /\ Good(stamped[n], queue[n][m])
      /\ Good(stamped[n], stray[n][m])
      /\ Len(queue[n][m]) \in Nat
  BY DEF EpochIInv, FramesStamped, Good
<1>4. Good(stamped[n], kept)
  <2>1. k + 1 \in Nat \ {0} /\ Len(queue[n][m]) <= Len(queue[n][m])
    BY <1>3
  <2> QED BY <1>3, <2>1, GoodSub
<1>5. Good(stamped[n], stray[n][m] \o lost)
  <2>1. Good(stamped[n], lost)
    <3>1. 1 \in Nat \ {0} /\ k \in Nat /\ k <= Len(queue[n][m])
      BY <1>3
    <3> QED BY <1>3, <3>1, GoodSub
  <2> QED BY <1>3, <2>1, GoodConcat
<1>6. PICK y : /\ Good(stamped[n], y)
               /\ Grid(stray')
               /\ \A a, b \in Node :
                     stray'[a][b] = IF a = n /\ b = m THEN y ELSE stray[a][b]
  <2>1. CASE stray' = [stray EXCEPT ![n][m] = @ \o lost]
    <3> DEFINE z == stray[n][m] \o lost
    <3>1. stray' = [stray EXCEPT ![n][m] = z]
      BY <2>1
    <3> HIDE DEF z
    <3>2. /\ Grid(stray')
          /\ \A a, b \in Node :
                stray'[a][b] = IF a = n /\ b = m THEN z ELSE stray[a][b]
      BY <3>1 DEF EpochIInv, FramesStamped, Grid
    <3> QED BY <1>5, <3>2 DEF z
  <2>2. CASE stray' = stray
    BY <2>2, <1>3 DEF EpochIInv, FramesStamped, Grid
  <2> QED BY <2>1, <2>2
<1> HIDE DEF kept, lost
<1>7. Grid(queue') /\ Grid(stray')
  BY <1>1, <1>6 DEF EpochIInv, FramesStamped, Grid
<1>8. ASSUME NEW a \in Node, NEW b \in Node
      PROVE  Good(stamped[a], queue'[a][b]) /\ Good(stamped[a], stray'[a][b])
  <2>1. /\ queue'[a][b] = IF a = n /\ b = m THEN kept ELSE queue[a][b]
        /\ stray'[a][b] = IF a = n /\ b = m THEN y ELSE stray[a][b]
    BY <1>1, <1>6 DEF EpochIInv, FramesStamped, Grid
  <2> QED BY <2>1, <1>4, <1>6 DEF EpochIInv, FramesStamped
<1> QED BY <1>2, <1>7, <1>8 DEF EpochIInv, FramesStamped

(* Unread strays are given up.                                             *)
LEMMA DropStrayStep ==
  ASSUME EpochIInv, NEW n \in Node, NEW m \in Node \ {n}, DropStray(n, m)
  PROVE  EpochStep /\ EpochIInv'
<1>1. /\ UNCHANGED epochVars
      /\ queue' = queue
      /\ stray' = [stray EXCEPT ![n][m] = <<>>]
  BY DEF DropStray
<1>2. EpochStep /\ EpochTypes' /\ stamped' = stamped
  BY <1>1, StutterStep DEF EpochIInv
<1>3. ASSUME NEW a \in Node, NEW b \in Node
      PROVE  Good(stamped[a], stray'[a][b])
  <2>1. stray'[a][b] = IF a = n /\ b = m THEN <<>> ELSE stray[a][b]
    BY <1>1 DEF EpochIInv, FramesStamped, Grid
  <2> QED BY <2>1, GoodEmpty DEF EpochIInv, FramesStamped
<1>4. Grid(queue') /\ Grid(stray')
  BY <1>1 DEF EpochIInv, FramesStamped, Grid
<1> QED BY <1>1, <1>2, <1>3, <1>4 DEF EpochIInv, FramesStamped

(* The restart that reads the epoch back is the abstract restart: this is  *)
(* where epochFile = seenEpoch is needed.                                  *)
(* A reboot empties n's queues and its strays, so no unstamped frame is    *)
(* left behind, whatever disk n comes back with.                           *)
LEMMA RebootFrames ==
  ASSUME EpochIInv, NEW n \in Node, NEW r, NEW e, Reboot(n, r, e)
  PROVE  FramesStamped'
<1>1. /\ stamped' = stamped
      /\ queue' = [queue EXCEPT ![n] = [m \in Node |-> <<>>]]
      /\ stray' = [a \in Node |-> [stray[a] EXCEPT ![n] = <<>>]]
  BY DEF Reboot
<1>2. ASSUME NEW a \in Node, NEW b \in Node
      PROVE  Good(stamped[a], queue'[a][b]) /\ Good(stamped[a], stray'[a][b])
  <2>1. /\ queue'[a][b] \in {<<>>, queue[a][b]}
        /\ stray'[a][b] \in {<<>>, stray[a][b]}
    BY <1>1 DEF EpochIInv, FramesStamped, Grid
  <2> QED BY <2>1, GoodEmpty DEF EpochIInv, FramesStamped
<1>3. Grid(queue') /\ Grid(stray')
  BY <1>1 DEF EpochIInv, FramesStamped, Grid
<1> QED BY <1>1, <1>2, <1>3 DEF FramesStamped

(* A restart reads back the fence in force.                                *)
LEMMA RestartStep ==
  ASSUME EpochIInv, NEW n \in Node, Restart(n)
  PROVE  EpochStep /\ EpochIInv'
<1>1. /\ seenEpoch' = [seenEpoch EXCEPT ![n] = epochFile[n]]
      /\ epochFile' = [epochFile EXCEPT ![n] = epochFile[n]]
      /\ led' = [led EXCEPT ![n] = 0]
      /\ stamped' = stamped
  BY DEF Restart, Reboot
<1>2. EpochTypes' /\ seenEpoch' = seenEpoch
  BY <1>1 DEF EpochIInv, EpochTypes
<1>3. EpochStep
  BY <1>1, <1>2 DEF EpochStep, Epochs!Next, Epochs!Restart
<1>4. FramesStamped'
  BY RebootFrames DEF Restart
<1> QED BY <1>2, <1>3, <1>4 DEF EpochIInv

(* A restart on an empty disk is the abstract wipe.                        *)
LEMMA WipeStep ==
  ASSUME EpochIInv, NEW n \in Node, RestartWiped(n)
  PROVE  EpochStep /\ EpochIInv'
<1>1. /\ n \in Wipeable
      /\ seenEpoch' = [seenEpoch EXCEPT ![n] = 0]
      /\ epochFile' = [epochFile EXCEPT ![n] = 0]
      /\ led' = [led EXCEPT ![n] = 0]
      /\ stamped' = stamped
  BY DEF RestartWiped, Reboot
<1>2. EpochTypes'
  BY <1>1 DEF EpochIInv, EpochTypes
<1>3. EpochStep
  BY <1>1 DEF EpochStep, Epochs!Next, Epochs!Wipe
<1>4. FramesStamped'
  BY RebootFrames DEF RestartWiped
<1> QED BY <1>2, <1>3, <1>4 DEF EpochIInv

(* The steps that touch neither epochs nor queues.                         *)
LEMMA OtherStep ==
  ASSUME EpochIInv, UNCHANGED epochVars, queue' = queue, stray' = stray
  PROVE  EpochStep /\ EpochIInv'
  BY StutterStep, FramesSame DEF EpochIInv
-----------------------------------------------------------------------------
(* Every step of the cluster is one of the abstract fence, or a stutter.   *)
LEMMA NextStep ==
  ASSUME EpochIInv, [Next]_vars
  PROVE  EpochStep /\ EpochIInv'
<1>1. ASSUME NEW n \in Node, NEW batch \in Batch, ClientWrite(n, batch)
      PROVE  EpochStep /\ EpochIInv'
  BY <1>1, WriteStep
<1>2. ASSUME NEW n \in Node, NEW batch \in Batch, ClientResend(n, batch)
      PROVE  EpochStep /\ EpochIInv'
  BY <1>2, OtherStep DEF ClientResend, linkVars
<1>3. ASSUME NEW n \in Node, NEW entry \in pending[n], ClientDisconnect(n, entry)
      PROVE  EpochStep /\ EpochIInv'
  BY <1>3, OtherStep DEF ClientDisconnect, linkVars
<1>4. ASSUME NEW n \in Node, NEW m \in Node \ {n}, Deliver(n, m)
      PROVE  EpochStep /\ EpochIInv'
  BY <1>4, DeliverStep
<1>5. ASSUME NEW n \in Node, NEW m \in Node \ {n}, DeliverStray(n, m)
      PROVE  EpochStep /\ EpochIInv'
  BY <1>5, StrayStep
<1>6. ASSUME NEW n \in Node, NEW m \in Node \ {n}, DropStray(n, m)
      PROVE  EpochStep /\ EpochIInv'
  BY <1>6, DropStrayStep
<1>7. ASSUME NEW n \in Node, NEW m \in Node \ {n}, RecordReplicaAck(n, m)
      PROVE  EpochStep /\ EpochIInv'
  BY <1>7, OtherStep DEF RecordReplicaAck, linkVars
<1>8. ASSUME NEW n \in Node, NEW m \in Node \ {n}, PeerUp(n, m)
      PROVE  EpochStep /\ EpochIInv'
  BY <1>8, PeerUpStep
<1>9. ASSUME NEW n \in Node, NEW m \in Node \ {n}, PeerDown(n, m) \/ PeerClosed(n, m)
      PROVE  EpochStep /\ EpochIInv'
  <2>1. PICK k \in 0 .. Len(queue[n][m]) :
           /\ SocketLost(n, m, k)
           /\ \/ stray' = stray
              \/ stray' = [stray EXCEPT ![n][m] = @ \o SubSeq(queue[n][m], 1, k)]
    BY <1>9 DEF PeerDown, PeerClosed
  <2> QED BY <2>1, SocketLostStep
<1>10. ASSUME NEW n \in Node, NEW m \in Node \ {n}, DialFailed(n, m)
       PROVE  EpochStep /\ EpochIInv'
  BY <1>10, OtherStep DEF DialFailed
<1>11. ASSUME NEW n \in Node, Restart(n)
       PROVE  EpochStep /\ EpochIInv'
  BY <1>11, RestartStep
<1>12. ASSUME NEW n \in Node, RestartWiped(n)
       PROVE  EpochStep /\ EpochIInv'
  BY <1>12, WipeStep
<1>13. CASE UNCHANGED vars
  BY <1>13, OtherStep DEF vars, linkVars
<1> QED
  BY <1>1, <1>2, <1>3, <1>4, <1>5, <1>6, <1>7, <1>8, <1>9, <1>10, <1>11, <1>12, <1>13 DEF Next

(* A new cluster is a new fence.                                           *)
LEMMA InitStep == Init => Epochs!Init /\ EpochIInv
<1> SUFFICES ASSUME Init PROVE Epochs!Init /\ EpochIInv
  OBVIOUS
<1>1. Epochs!Init /\ EpochTypes
  BY DEF Init, Epochs!Init, EpochTypes
<1>2. /\ queue = [n \in Node |-> [m \in Node |-> <<>>]]
      /\ stray = [n \in Node |-> [m \in Node |-> <<>>]]
  BY DEF Init
<1>3. FramesStamped
  BY <1>2, GoodEmpty DEF FramesStamped, Grid
<1> QED BY <1>1, <1>3 DEF EpochIInv

(* The epochs a running cluster claims, applies, persists and reloads are  *)
(* those of the abstract fence: short of a lost disk, no restart lowers    *)
(* what a node fences with (registry.rs claim_and_persist_epoch,    *)
(* gate_replica_frame; lib.rs persist_epoch).                              *)
THEOREM EpochsRefined == Spec => EpochRefinement
<1>1. EpochIInv /\ [Next]_vars => EpochStep /\ EpochIInv'
  BY NextStep
<1> QED BY <1>1, InitStep, PTL DEF Spec, EpochRefinement, Epochs!Spec, EpochStep

(* Epochs stay naturals and stamps sets of naturals, through every claim,  *)
(* applied frame, restart and wipe (leadership.rs, LeadershipEpochs).      *)
THEOREM EpochsTyped == Epochs!Spec => []Epochs!TypeOK
<1>1. Epochs!Init => Epochs!TypeOK
  BY DEF Epochs!Init, Epochs!TypeOK
<1>2. Epochs!TypeOK /\ [Epochs!Next]_(Epochs!vars) => Epochs!TypeOK'
  BY DEF Epochs!TypeOK, Epochs!Next, Epochs!vars, Epochs!ClaimLeadership,
         Epochs!ApplyFrame, Epochs!Restart, Epochs!Wipe, Epochs!ClaimedEpoch,
         Epochs!Observed, Epochs!Superseded, Epochs!LeadsBelow
<1> QED BY <1>1, <1>2, PTL DEF Epochs!Spec

(* A leader's claim is the highest epoch it saw, nothing is stamped above  *)
(* what a sender that keeps its disk saw, and every fence value came from  *)
(* a claim: the three facts claim_leadership and supersede_if_leading      *)
(* maintain together.                                                      *)
THEOREM EpochsSound == Epochs!Spec => []Epochs!EpochInvariant
<1> DEFINE IInv == Epochs!TypeOK /\ Epochs!EpochInvariant
<1>1. Epochs!Init => IInv
  BY DEF Epochs!Init, Epochs!TypeOK, Epochs!EpochInvariant, Epochs!LedIsHighest,
         Epochs!StampedIsSeen, Epochs!SeenWasStamped
<1>2. IInv /\ [Epochs!Next]_(Epochs!vars) => IInv'
  <2> SUFFICES ASSUME Epochs!TypeOK, Epochs!EpochInvariant, [Epochs!Next]_(Epochs!vars)
               PROVE  IInv'
    OBVIOUS
  <2> USE DEF Epochs!TypeOK, Epochs!EpochInvariant, Epochs!LedIsHighest,
              Epochs!StampedIsSeen, Epochs!SeenWasStamped
  <2>1. ASSUME NEW n \in Node, Epochs!ClaimLeadership(n)
        PROVE  IInv'
    <3> DEFINE e == Epochs!ClaimedEpoch(seenEpoch[n], led[n])
    <3>1. /\ e \in Nat \ {0}
          /\ e >= seenEpoch[n]
          /\ Epochs!Observed(seenEpoch[n], e) = e
      BY DEF Epochs!ClaimedEpoch, Epochs!Observed
    <3>2. /\ seenEpoch' = [seenEpoch EXCEPT ![n] = e]
          /\ led' = [led EXCEPT ![n] = e]
          /\ stamped' = [stamped EXCEPT ![n] = @ \union {e}]
      BY <2>1, <3>1 DEF Epochs!ClaimLeadership
    <3> HIDE DEF e
    <3>3. Epochs!TypeOK' /\ Epochs!LedIsHighest'
      BY <3>1, <3>2
    <3>4. Epochs!StampedIsSeen'
      BY <3>1, <3>2
    <3>5. Epochs!SeenWasStamped'
      <4> SUFFICES ASSUME NEW k \in Node, seenEpoch'[k] # 0
                   PROVE  \E m \in Node : seenEpoch'[k] \in stamped'[m]
        OBVIOUS
      <4>1. CASE k = n
        BY <4>1, <3>2
      <4>2. CASE k # n
        <5>1. PICK m \in Node : seenEpoch[k] \in stamped[m]
          BY <4>2, <3>2
        <5> QED BY <5>1, <4>2, <3>2
      <4> QED BY <4>1, <4>2
    <3> QED BY <3>3, <3>4, <3>5
  <2>2. ASSUME NEW n \in Node, NEW m \in Node, NEW e \in stamped[m], Epochs!ApplyFrame(n, m, e)
        PROVE  IInv'
    <3>0. e \in Nat /\ seenEpoch[n] \in Nat /\ e >= seenEpoch[n]
      BY <2>2 DEF Epochs!ApplyFrame
    <3>1. /\ seenEpoch' = [seenEpoch EXCEPT ![n] = e]
          /\ led' = [led EXCEPT ![n] = Epochs!Superseded(@, e)]
          /\ stamped' = stamped
      <4>1. Epochs!Observed(seenEpoch[n], e) = e
        BY <3>0 DEF Epochs!Observed
      <4> QED BY <4>1, <2>2 DEF Epochs!ApplyFrame
    <3>2. Epochs!Superseded(led[n], e) \in {0, e}
      BY <3>0 DEF Epochs!Superseded, Epochs!LeadsBelow
    <3>3. Epochs!TypeOK' /\ Epochs!LedIsHighest'
      BY <3>0, <3>1, <3>2
    <3>4. Epochs!StampedIsSeen' /\ Epochs!SeenWasStamped'
      BY <3>0, <3>1, <2>2
    <3> QED BY <3>3, <3>4
  <2>3. ASSUME NEW n \in Node, Epochs!Restart(n)
        PROVE  IInv'
    BY <2>3 DEF Epochs!Restart
  <2>4. ASSUME NEW n \in Node, Epochs!Wipe(n)
        PROVE  IInv'
    <3>1. Epochs!TypeOK' /\ Epochs!LedIsHighest' /\ Epochs!StampedIsSeen'
      BY <2>4 DEF Epochs!Wipe
    <3>2. Epochs!SeenWasStamped'
      BY <2>4 DEF Epochs!Wipe
    <3> QED BY <3>1, <3>2
  <2>5. CASE UNCHANGED Epochs!vars
    BY <2>5 DEF Epochs!vars
  <2> QED BY <2>1, <2>2, <2>3, <2>4, <2>5 DEF Epochs!Next
<1>3. IInv => Epochs!EpochInvariant
  OBVIOUS
<1> QED BY <1>1, <1>2, <1>3, PTL DEF Epochs!Spec

(* The fence of a node that keeps its disk never moves back: observe takes *)
(* a maximum, a claim opens a generation above everything seen, a restart  *)
(* keeps what it had.                                                      *)
THEOREM FenceMonotone == Epochs!Spec => Epochs!SeenMonotone
<1>1. Epochs!TypeOK /\ [Epochs!Next]_(Epochs!vars) =>
        [\A n \in Node \ Wipeable : seenEpoch'[n] >= seenEpoch[n]]_(Epochs!vars)
  BY DEF Epochs!TypeOK, Epochs!Next, Epochs!vars, Epochs!ClaimLeadership,
         Epochs!ApplyFrame, Epochs!Restart, Epochs!Wipe, Epochs!ClaimedEpoch, Epochs!Observed
<1> QED BY <1>1, EpochsTyped, PTL DEF Epochs!Spec, Epochs!SeenMonotone

(* What a restart would read back is the fence the node applies, and no    *)
(* frame in flight, on a live socket or a dropped one, carries an epoch    *)
(* above it unless its sender lost its disk: persist_epoch_if_advanced runs *)
(* before any frame is queued.                                             *)
THEOREM EpochsDurable == Spec => []EpochDurable
<1>1. EpochIInv /\ [Next]_vars => EpochStep /\ EpochIInv'
  BY NextStep
<1>2. Spec => [](EpochIInv)
  BY <1>1, InitStep, PTL DEF Spec
<1>3. Spec => Epochs!Spec
  BY <1>1, InitStep, PTL DEF Spec, Epochs!Spec, EpochStep
<1>4. Epochs!Spec => []Epochs!EpochInvariant
  BY EpochsSound
<1>5. EpochIInv /\ Epochs!EpochInvariant => EpochDurable
  <2> SUFFICES ASSUME EpochIInv, Epochs!EpochInvariant,
                      NEW n \in Node, NEW m \in Node,
                      NEW f \in Range(queue[n][m]) \union Range(stray[n][m]),
                      f.kind # "FollowerHeads"
               PROVE  /\ f.epoch \in stamped[n]
                      /\ n \notin Wipeable => f.epoch <= epochFile[n]
    BY DEF EpochDurable, EpochIInv, EpochTypes
  <2>1. f.epoch \in stamped[n]
    BY DEF EpochIInv, FramesStamped, Good
  <2>2. n \notin Wipeable => f.epoch \in 1 .. seenEpoch[n]
    BY <2>1 DEF Epochs!EpochInvariant, Epochs!StampedIsSeen
  <2> QED BY <2>1, <2>2 DEF EpochIInv, EpochTypes
<1> QED BY <1>2, <1>3, <1>4, <1>5, PTL
-----------------------------------------------------------------------------
(* A frame that some sound room can have sent: a snapshot on the wire      *)
(* names the number of ops it carries.                                     *)
SoundFrame ==
    {f \in Frame : f.kind = "ReplicateSnapshot" =>
                      IsFiniteSet(f.state) /\ f.seq = Cardinality(f.state)}

Wires(q) == q \in [Node -> [Node -> Seq(SoundFrame)]]

Bounded(q) == \A n, m \in Node : Len(q[n][m]) <= FrameCapacity

RoomsSound == room \in [Node -> Room] /\ \A n \in Node : SoundRoom(room[n])

WiresSound == Wires(queue) /\ Bounded(queue) /\ Wires(stray)

LinksTyped ==
    /\ relayDown \in [Node -> SUBSET Node]
    /\ link \in [Node -> [Node -> {"down", "up", "closed"}]]
    /\ acks \in [Node -> [Node -> Seq(Nat)]]
    /\ watermark \in [Node -> [Node -> Nat]]

ClientsTyped ==
    /\ pending \in [Node -> SUBSET Withheld]
    /\ accepted \in SUBSET Op
    /\ faults \in 0 .. MaxFaults

LogInv == RoomsSound /\ WiresSound /\ LinksTyped /\ ClientsTyped
-----------------------------------------------------------------------------
(* What each kind of frame carries.                                        *)
LEMMA FrameFields ==
  ASSUME NEW f \in SoundFrame
  PROVE  /\ f.kind = "Replicate" => f.ops \in Seq(Op) /\ f.epoch \in Nat
         /\ f.kind = "ReplicateSnapshot" =>
               /\ f.state \subseteq Op /\ IsFiniteSet(f.state)
               /\ f.seq = Cardinality(f.state) /\ f.seq \in Nat /\ f.epoch \in Nat
         /\ f.kind = "ReplicateMeta" => f.epoch \in Nat
         /\ f.kind = "FollowerHeads" => f.head \in Nat
  BY DEF SoundFrame, Frame

(* The frames the handlers build are sound.                                *)
LEMMA FrameBuilt ==
  ASSUME NEW e \in Nat
  PROVE  /\ \A ops \in Seq(Op) : [kind |-> "Replicate", ops |-> ops, epoch |-> e] \in SoundFrame
         /\ \A state \in SUBSET Op : IsFiniteSet(state) =>
               [kind |-> "ReplicateSnapshot", seq |-> Cardinality(state), state |-> state,
                epoch |-> e] \in SoundFrame
         /\ [kind |-> "ReplicateMeta", epoch |-> e] \in SoundFrame
         /\ [kind |-> "FollowerHeads", head |-> e] \in SoundFrame
<1>1. ASSUME NEW ops \in Seq(Op)
      PROVE  [kind |-> "Replicate", ops |-> ops, epoch |-> e] \in SoundFrame
  BY DEF SoundFrame, Frame
<1>2. ASSUME NEW state \in SUBSET Op, IsFiniteSet(state)
      PROVE  [kind |-> "ReplicateSnapshot", seq |-> Cardinality(state), state |-> state,
              epoch |-> e] \in SoundFrame
  <2>1. Cardinality(state) \in Nat
    BY <1>2, FS_CardinalityType
  <2> QED BY <1>2, <2>1 DEF SoundFrame, Frame
<1>3. [kind |-> "ReplicateMeta", epoch |-> e] \in SoundFrame
  BY DEF SoundFrame, Frame
<1>4. [kind |-> "FollowerHeads", head |-> e] \in SoundFrame
  BY DEF SoundFrame, Frame
<1> QED BY <1>1, <1>2, <1>3, <1>4

(* A claimed epoch is a number.                                            *)
LEMMA ClaimedNat ==
  ASSUME EpochTypes, NEW n \in Node
  PROVE  Epochs!ClaimedEpoch(seenEpoch[n], led[n]) \in Nat
  BY DEF EpochTypes, Epochs!ClaimedEpoch

(* Sending keeps a queue within its capacity.                              *)
LEMMA SendBounded ==
  ASSUME NEW q \in Seq(SoundFrame), Len(q) <= FrameCapacity, NEW f \in SoundFrame
  PROVE  TrySend(q, f) \in Seq(SoundFrame) /\ Len(TrySend(q, f)) <= FrameCapacity
<1> USE BoundAssumption
<1>1. CASE Len(q) < FrameCapacity
  BY <1>1 DEF TrySend
<1>2. CASE ~(Len(q) < FrameCapacity)
  BY <1>2 DEF TrySend
<1> QED BY <1>1, <1>2

(* The catch-up frame of a sound room is sound.                            *)
LEMMA CatchUpFramesSound ==
  ASSUME NEW n \in Node, SoundRoom(room[n]), EpochTypes, NEW floor \in Nat
  PROVE  CatchUpFrames(n, floor) \subseteq SoundFrame
<1> DEFINE e == Epochs!ClaimedEpoch(seenEpoch[n], led[n])
           c == CatchUp(room[n], floor)
<1>1. e \in Nat
  BY ClaimedNat
<1>2. \/ /\ c.kind = "snapshot" /\ c.state = room[n].seen
         /\ c.seq = Cardinality(c.state)
      \/ /\ c.kind = "ops" /\ c.ops \in Seq(Op)
  BY CatchUpSound
<1>3. room[n].seen \in SUBSET Op /\ IsFiniteSet(room[n].seen)
  BY DEF SoundRoom, Room
<1>4. \A f \in CatchUpFrames(n, floor) :
         \/ c.kind = "snapshot" /\ f = [kind |-> "ReplicateSnapshot", seq |-> c.seq, state |-> c.state, epoch |-> e]
         \/ c.kind # "snapshot" /\ f = [kind |-> "Replicate", ops |-> c.ops, epoch |-> e]
         \/ f = [kind |-> "ReplicateMeta", epoch |-> e]
  <2> HIDE DEF e, c
  <2> QED BY DEF CatchUpFrames, e, c
<1> HIDE DEF e, c
<1> QED BY <1>1, <1>2, <1>3, <1>4, FrameBuilt

LEMMA SendCatchUpBounded ==
  ASSUME NEW q \in Seq(SoundFrame), Len(q) <= FrameCapacity,
         NEW frames, frames \subseteq SoundFrame
  PROVE  /\ SendCatchUp(q, frames) \in Seq(SoundFrame)
         /\ Len(SendCatchUp(q, frames)) <= FrameCapacity
<1>1. CASE frames = {}
  BY <1>1 DEF SendCatchUp
<1>2. CASE frames # {}
  <2> DEFINE g == CHOOSE f \in frames : TRUE
  <2>1. g \in SoundFrame
    BY <1>2
  <2> HIDE DEF g
  <2>2. TrySend(q, g) \in Seq(SoundFrame) /\ Len(TrySend(q, g)) <= FrameCapacity
    BY <2>1, SendBounded
  <2> QED BY <1>2, <2>2 DEF SendCatchUp, g
<1> QED BY <1>1, <1>2
-----------------------------------------------------------------------------
(* One queue replaced by a sound one.                                      *)
LEMMA OneWire ==
  ASSUME NEW q, Wires(q), Bounded(q), NEW n \in Node, NEW m \in Node,
         NEW x \in Seq(SoundFrame), Len(x) <= FrameCapacity
  PROVE  Wires([q EXCEPT ![n][m] = x]) /\ Bounded([q EXCEPT ![n][m] = x])
<1>1. Wires([q EXCEPT ![n][m] = x])
  BY DEF Wires
<1>2. ASSUME NEW a \in Node, NEW b \in Node
      PROVE  Len([q EXCEPT ![n][m] = x][a][b]) <= FrameCapacity
  <2>1. [q EXCEPT ![n][m] = x][a][b] = IF a = n /\ b = m THEN x ELSE q[a][b]
    BY DEF Wires
  <2>2. Len(q[a][b]) <= FrameCapacity
    BY DEF Bounded
  <2> QED BY <2>1, <2>2
<1> QED BY <1>1, <1>2 DEF Bounded

(* One room replaced by a sound one.                                       *)
LEMMA OneRoom ==
  ASSUME RoomsSound, NEW n \in Node, NEW r, SoundRoom(r), room' = [room EXCEPT ![n] = r]
  PROVE  RoomsSound'
<1>1. r \in Room
  BY DEF SoundRoom
<1>2. room' \in [Node -> Room]
  BY <1>1 DEF RoomsSound
<1>3. \A k \in Node : room'[k] = IF k = n THEN r ELSE room[k]
  BY DEF RoomsSound
<1>4. \A k \in Node : SoundRoom(room'[k])
  BY <1>3 DEF RoomsSound
<1> QED BY <1>2, <1>4 DEF RoomsSound

(* A head is a number.                                                     *)
LEMMA HeadNat ==
  ASSUME NEW r, SoundRoom(r)
  PROVE  RoomHead(r) \in Nat
  BY DEF SoundRoom, Room, RoomHead

(* An ack written to a socket is one more number on it.                    *)
LEMMA AckedTyped ==
  ASSUME acks \in [Node -> [Node -> Seq(Nat)]], NEW n \in Node, NEW m \in Node,
         NEW seq \in Nat, NEW live, acks' = Acked(n, m, seq, live)
  PROVE  acks' \in [Node -> [Node -> Seq(Nat)]]
<1>1. CASE live
  <2>1. acks' = [acks EXCEPT ![n][m] = Append(acks[n][m], seq)]
    BY <1>1 DEF Acked
  <2>2. Append(acks[n][m], seq) \in Seq(Nat)
    OBVIOUS
  <2> QED BY <2>1, <2>2
<1>2. CASE ~live
  BY <1>2 DEF Acked
<1> QED BY <1>1, <1>2

(* Closing a socket is one more link down.                                 *)
LEMMA ClosedTyped ==
  ASSUME link \in [Node -> [Node -> {"down", "up", "closed"}]],
         NEW n \in Node, NEW m \in Node, NEW live, CloseLink(n, m, live)
  PROVE  link' \in [Node -> [Node -> {"down", "up", "closed"}]]
<1>1. CASE live
  BY <1>1 DEF CloseLink
<1>2. CASE ~live
  BY <1>2 DEF CloseLink
<1> QED BY <1>1, <1>2

(* What every frame handler does to the rooms, the queues and the marks.   *)
LEMMA ReceiveSound ==
  ASSUME RoomsSound, LinksTyped, EpochTypes,
         NEW n \in Node, NEW m \in Node \ {n}, NEW f \in SoundFrame, NEW q, NEW live,
         Wires(q), Bounded(q), Receive(n, m, f, q, live)
  PROVE  /\ RoomsSound'
         /\ Wires(queue') /\ Bounded(queue')
         /\ link' \in [Node -> [Node -> {"down", "up", "closed"}]]
         /\ acks' \in [Node -> [Node -> Seq(Nat)]]
         /\ watermark' \in [Node -> [Node -> Nat]]
<1>1. ASSUME room' = room PROVE RoomsSound'
  BY <1>1 DEF RoomsSound
<1>2. /\ link \in [Node -> [Node -> {"down", "up", "closed"}]]
      /\ acks \in [Node -> [Node -> Seq(Nat)]]
      /\ watermark \in [Node -> [Node -> Nat]]
      /\ m \in Node /\ SoundRoom(room[m])
  BY DEF LinksTyped, RoomsSound
<1>3. CASE ApplyReplicate(n, m, f, live) /\ queue' = q
  <2>1. f.ops \in Seq(Op) /\ watermark' = watermark
    BY <1>3, FrameFields DEF ApplyReplicate
  <2>2. CASE UNCHANGED <<room, acks>> /\ (CloseLink(n, m, live) \/ UNCHANGED link)
    BY <1>1, <1>2, <1>3, <2>1, <2>2, ClosedTyped
  <2>3. CASE /\ room' = [room EXCEPT ![m] = Ingest(room[m], f.ops)]
             /\ acks' = Acked(n, m, RoomHead(Ingest(room[m], f.ops)), live)
             /\ UNCHANGED link
    <3> DEFINE r == Ingest(room[m], f.ops)
    <3>1. SoundRoom(r)
      BY <1>2, <2>1, CommitSound DEF Ingest
    <3>2. RoomHead(r) \in Nat
      BY <3>1, HeadNat
    <3> HIDE DEF r
    <3>3. RoomsSound'
      BY <1>2, <2>3, <3>1, OneRoom DEF r
    <3>4. acks' \in [Node -> [Node -> Seq(Nat)]]
      BY <1>2, <2>3, <3>2, AckedTyped DEF r
    <3> QED BY <1>2, <1>3, <2>1, <2>3, <3>3, <3>4
  <2> QED BY <1>3, <2>2, <2>3 DEF ApplyReplicate
<1>4. CASE ApplyReplicateSnapshot(n, m, f, live) /\ queue' = q
  <2>1. /\ f.state \subseteq Op /\ IsFiniteSet(f.state)
        /\ f.seq = Cardinality(f.state) /\ f.seq \in Nat
        /\ watermark' = watermark
    BY <1>4, FrameFields DEF ApplyReplicateSnapshot
  <2>2. CASE UNCHANGED <<room, acks>> /\ (CloseLink(n, m, live) \/ UNCHANGED link)
    BY <1>1, <1>2, <1>4, <2>1, <2>2, ClosedTyped
  <2>3. CASE /\ room' = [room EXCEPT ![m] = InstallSnapshot(f.state, f.seq)]
             /\ acks' = Acked(n, m, f.seq, live)
             /\ UNCHANGED link
    <3>1. SoundRoom(InstallSnapshot(f.state, f.seq))
      BY <2>1, InstallSound
    <3>2. RoomsSound'
      BY <1>2, <2>3, <3>1, OneRoom
    <3>3. acks' \in [Node -> [Node -> Seq(Nat)]]
      BY <1>2, <2>1, <2>3, AckedTyped
    <3> QED BY <1>2, <1>4, <2>1, <2>3, <3>2, <3>3
  <2> QED BY <1>4, <2>2, <2>3 DEF ApplyReplicateSnapshot
<1>5. CASE ApplyReplicateMeta(n, m, f, live) /\ queue' = q
  <2>1. UNCHANGED <<room, acks, watermark>> /\ (CloseLink(n, m, live) \/ UNCHANGED link)
    BY <1>5 DEF ApplyReplicateMeta
  <2> QED BY <1>1, <1>2, <1>5, <2>1, ClosedTyped
<1>6. CASE ApplyFollowerHeads(n, m, f, q)
  <2>1. f.head \in Nat /\ UNCHANGED <<room, acks, link>>
    BY <1>6, FrameFields DEF ApplyFollowerHeads
  <2>2. CASE queue' = q /\ watermark' = watermark
    BY <1>1, <1>2, <2>1, <2>2
  <2>3. CASE ~(queue' = q /\ watermark' = watermark)
    <3> DEFINE floor == IF f.head < RoomHead(room[m]) THEN f.head ELSE RoomHead(room[m])
               frames == CatchUpFrames(m, floor)
               x == SendCatchUp(q[m][n], frames)
    <3>1. /\ watermark' = [watermark EXCEPT ![m][n] = floor]
          /\ queue' = [q EXCEPT ![m][n] = x]
      BY <1>6, <2>3 DEF ApplyFollowerHeads
    <3>2. floor \in Nat
      BY <1>2, <2>1, HeadNat
    <3> HIDE DEF floor
    <3>3. frames \subseteq SoundFrame
      BY <1>2, <3>2, CatchUpFramesSound
    <3>4. q[m][n] \in Seq(SoundFrame) /\ Len(q[m][n]) <= FrameCapacity
      BY <1>2 DEF Wires, Bounded
    <3> HIDE DEF frames
    <3>5. x \in Seq(SoundFrame) /\ Len(x) <= FrameCapacity
      BY <3>3, <3>4, SendCatchUpBounded
    <3> HIDE DEF x
    <3>6. Wires(queue') /\ Bounded(queue')
      BY <1>2, <3>1, <3>5, OneWire
    <3>7. watermark' \in [Node -> [Node -> Nat]]
      BY <1>2, <3>1, <3>2
    <3> QED BY <1>1, <1>2, <2>1, <3>6, <3>7
  <2> QED BY <2>2, <2>3
<1> QED BY <1>3, <1>4, <1>5, <1>6 DEF Receive
-----------------------------------------------------------------------------
(* A client's write commits, fans out and withholds its Accepted.          *)
LEMMA WriteSound ==
  ASSUME LogInv, EpochTypes, NEW n \in Node, NEW batch \in Batch, ClientWrite(n, batch)
  PROVE  LogInv'
<1> DEFINE fresh == Fresh(room[n], batch)
           e == Epochs!ClaimedEpoch(seenEpoch[n], led[n])
           frame == [kind |-> "Replicate", ops |-> fresh, epoch |-> e]
           committed == Commit(room[n], fresh)
           entry == [ops |-> Range(batch), seq |-> RoomHead(committed)]
<1>1. /\ room' = [room EXCEPT ![n] = committed]
      /\ queue' = [queue EXCEPT ![n] = [m \in Node |->
                     IF <<n, m>> \in Dialed THEN TrySend(@[m], frame) ELSE @[m]]]
      /\ RecordWithheld(n, watermark[n], entry)
      /\ UNCHANGED <<relayDown, link, stray, acks, watermark, faults>>
  BY DEF ClientWrite, linkVars
<1>2. batch \in Seq(Op) /\ Range(batch) \subseteq Op
  <2>1. batch \in Seq(Op)
    BY BatchAssumption
  <2> QED BY <2>1 DEF Range
<1>3. SoundRoom(room[n])
  BY DEF LogInv, RoomsSound
<1>4. SoundRoom(committed) /\ RoomHead(committed) \in Nat
  BY <1>2, <1>3, CommitSound, HeadNat
<1>5. frame \in SoundFrame
  <2>1. fresh \in Seq(Op)
    BY <1>2, FreshOps
  <2>2. e \in Nat
    BY ClaimedNat
  <2> HIDE DEF fresh, e
  <2> QED BY <2>1, <2>2, FrameBuilt
<1>6. entry \in Withheld
  <2> HIDE DEF committed
  <2> QED BY <1>2, <1>4 DEF Withheld
<1> HIDE DEF frame, committed, entry, fresh, e
<1>7. RoomsSound'
  BY <1>1, <1>4, OneRoom DEF LogInv
<1>8. WiresSound'
  <2>1. \A m \in Node : /\ TrySend(queue[n][m], frame) \in Seq(SoundFrame)
                         /\ Len(TrySend(queue[n][m], frame)) <= FrameCapacity
    BY <1>5, SendBounded DEF LogInv, WiresSound, Wires, Bounded
  <2>2. \A a, b \in Node :
           queue'[a][b] = IF a = n /\ <<n, b>> \in Dialed THEN TrySend(queue[n][b], frame)
                          ELSE queue[a][b]
    BY <1>1 DEF LogInv, WiresSound, Wires
  <2>3. Wires(queue')
    <3>1. [m \in Node |-> IF <<n, m>> \in Dialed THEN TrySend(queue[n][m], frame) ELSE queue[n][m]]
             \in [Node -> Seq(SoundFrame)]
      BY <2>1 DEF LogInv, WiresSound, Wires
    <3> QED BY <1>1, <3>1 DEF LogInv, WiresSound, Wires
  <2>4. Bounded(queue')
    BY <2>1, <2>2 DEF LogInv, WiresSound, Bounded
  <2> QED BY <1>1, <2>3, <2>4 DEF LogInv, WiresSound, Wires
<1>9. LinksTyped'
  BY <1>1 DEF LogInv, LinksTyped
<1>10. ClientsTyped'
  <2>1. entry.ops \subseteq Op
    BY <1>6 DEF Withheld
  <2>2. CASE QuorumMet(n, watermark[n], entry.seq)
    BY <1>1, <2>1, <2>2 DEF RecordWithheld, LogInv, ClientsTyped
  <2>3. CASE ~QuorumMet(n, watermark[n], entry.seq)
    BY <1>1, <1>6, <2>3 DEF RecordWithheld, LogInv, ClientsTyped
  <2> QED BY <2>2, <2>3
<1> QED BY <1>7, <1>8, <1>9, <1>10 DEF LogInv

(* A frame is read off a live socket.                                      *)
LEMMA DeliverSound ==
  ASSUME LogInv, EpochTypes, NEW n \in Node, NEW m \in Node \ {n}, Deliver(n, m)
  PROVE  LogInv'
<1> DEFINE x == Tail(queue[n][m])
           q == [queue EXCEPT ![n][m] = x]
           f == Head(queue[n][m])
<1>1. /\ queue[n][m] # <<>> /\ Receive(n, m, f, q, TRUE)
      /\ UNCHANGED <<relayDown, stray, pending, accepted, faults>>
  BY DEF Deliver, clientVars
<1>2. /\ queue[n][m] \in Seq(SoundFrame) /\ Len(queue[n][m]) <= FrameCapacity
      /\ Len(queue[n][m]) \in Nat /\ FrameCapacity \in Nat
  BY BoundAssumption DEF LogInv, WiresSound, Wires, Bounded
<1>3. f \in SoundFrame /\ x \in Seq(SoundFrame) /\ Len(x) <= FrameCapacity
  BY <1>1, <1>2
<1> HIDE DEF x, f
<1>4. Wires(q) /\ Bounded(q)
  BY <1>3, OneWire DEF LogInv, WiresSound
<1> HIDE DEF q
<1>5. /\ RoomsSound'
      /\ Wires(queue') /\ Bounded(queue')
      /\ link' \in [Node -> [Node -> {"down", "up", "closed"}]]
      /\ acks' \in [Node -> [Node -> Seq(Nat)]]
      /\ watermark' \in [Node -> [Node -> Nat]]
  BY <1>1, <1>3, <1>4, ReceiveSound DEF LogInv
<1> QED BY <1>1, <1>5 DEF LogInv, WiresSound, Wires, LinksTyped, ClientsTyped

(* A frame is read off a dropped socket.                                   *)
LEMMA StraySound ==
  ASSUME LogInv, EpochTypes, NEW n \in Node, NEW m \in Node \ {n}, DeliverStray(n, m)
  PROVE  LogInv'
<1> DEFINE f == Head(stray[n][m])
           x == IF Rejects(m, f) THEN <<>> ELSE Tail(stray[n][m])
<1>1. /\ stray[n][m] # <<>> /\ Receive(n, m, f, queue, FALSE)
      /\ stray' = [stray EXCEPT ![n][m] = x]
      /\ UNCHANGED <<relayDown, pending, accepted, faults>>
  BY DEF DeliverStray, clientVars
<1>2. stray[n][m] \in Seq(SoundFrame)
  BY DEF LogInv, WiresSound, Wires
<1>3. f \in SoundFrame /\ x \in Seq(SoundFrame)
  BY <1>1, <1>2
<1> HIDE DEF x, f
<1>4. Wires(stray')
  BY <1>1, <1>3 DEF LogInv, WiresSound, Wires
<1>5. /\ RoomsSound'
      /\ Wires(queue') /\ Bounded(queue')
      /\ link' \in [Node -> [Node -> {"down", "up", "closed"}]]
      /\ acks' \in [Node -> [Node -> Seq(Nat)]]
      /\ watermark' \in [Node -> [Node -> Nat]]
  BY <1>1, <1>3, ReceiveSound DEF LogInv, WiresSound
<1> QED BY <1>1, <1>4, <1>5 DEF LogInv, WiresSound, LinksTyped, ClientsTyped

(* A leader reads an ack and releases what a majority now covers.          *)
LEMMA AckSound ==
  ASSUME LogInv, NEW n \in Node, NEW m \in Node \ {n}, RecordReplicaAck(n, m)
  PROVE  LogInv'
<1> DEFINE h == IF Head(acks[n][m]) > watermark[n][m] THEN Head(acks[n][m]) ELSE watermark[n][m]
           marks == [watermark[n] EXCEPT ![m] = h]
           released == {p \in pending[n] : QuorumMet(n, marks, p.seq)}
           x == Tail(acks[n][m])
<1>1. /\ acks[n][m] # <<>>
      /\ watermark' = [watermark EXCEPT ![n] = marks]
      /\ pending' = [pending EXCEPT ![n] = pending[n] \ released]
      /\ accepted' = accepted \union UNION {p.ops : p \in released}
      /\ acks' = [acks EXCEPT ![n][m] = x]
      /\ UNCHANGED <<room, relayDown, link, stray, queue, faults>>
  BY DEF RecordReplicaAck, linkVars
<1>2. /\ acks[n][m] \in Seq(Nat) /\ watermark[n][m] \in Nat
      /\ watermark[n] \in [Node -> Nat] /\ pending[n] \subseteq Withheld
  BY DEF LogInv, LinksTyped, ClientsTyped
<1>3. Head(acks[n][m]) \in Nat /\ x \in Seq(Nat)
  BY <1>1, <1>2
<1>4. h \in Nat
  BY <1>2, <1>3
<1> HIDE DEF h
<1>5. marks \in [Node -> Nat]
  BY <1>2, <1>4
<1>6. released \subseteq Withheld /\ \A p \in released : p.ops \subseteq Op
  BY <1>2 DEF Withheld
<1> HIDE DEF marks, released, x
<1>7. LinksTyped'
  <2>1. watermark' \in [Node -> [Node -> Nat]]
    BY <1>1, <1>5 DEF LogInv, LinksTyped
  <2>2. acks' \in [Node -> [Node -> Seq(Nat)]]
    BY <1>1, <1>3 DEF LogInv, LinksTyped
  <2> QED BY <1>1, <2>1, <2>2 DEF LogInv, LinksTyped
<1>8. ClientsTyped'
  <2>1. pending' \in [Node -> SUBSET Withheld]
    BY <1>1, <1>2 DEF LogInv, ClientsTyped
  <2>2. accepted' \in SUBSET Op
    BY <1>1, <1>6 DEF LogInv, ClientsTyped
  <2> QED BY <1>1, <2>1, <2>2 DEF LogInv, ClientsTyped
<1> QED BY <1>1, <1>7, <1>8 DEF LogInv, RoomsSound, WiresSound, Wires, Bounded

(* A dial succeeds: a catch-up for a follower, then the dialer's own head. *)
LEMMA PeerUpSound ==
  ASSUME LogInv, EpochTypes, NEW n \in Node, NEW m \in Node \ {n}, PeerUp(n, m)
  PROVE  LogInv'
<1> DEFINE down == relayDown[n] \ {m}
           frames == IF EffectivePrimary(n, down) = n /\ room[n] # EmptyRoom
                     THEN CatchUpFrames(n, watermark[n][m]) ELSE {}
           heads == [kind |-> "FollowerHeads", head |-> RoomHead(room[n])]
           x == TrySend(SendCatchUp(queue[n][m], frames), heads)
<1>1. /\ link' = [link EXCEPT ![n][m] = "up"]
      /\ relayDown' = [relayDown EXCEPT ![n] = down]
      /\ queue' = [queue EXCEPT ![n][m] = x]
      /\ UNCHANGED <<room, stray, acks, watermark, pending, accepted, faults>>
  BY DEF PeerUp, clientVars
<1>2. SoundRoom(room[n]) /\ watermark[n][m] \in Nat
  BY DEF LogInv, RoomsSound, LinksTyped
<1>3. frames \subseteq SoundFrame
  BY <1>2, CatchUpFramesSound
<1>4. heads \in SoundFrame
  BY <1>2, HeadNat, FrameBuilt
<1> HIDE DEF frames, heads
<1>5. queue[n][m] \in Seq(SoundFrame) /\ Len(queue[n][m]) <= FrameCapacity
  BY DEF LogInv, WiresSound, Wires, Bounded
<1>6. x \in Seq(SoundFrame) /\ Len(x) <= FrameCapacity
  BY <1>3, <1>4, <1>5, SendCatchUpBounded, SendBounded
<1> HIDE DEF x
<1>7. WiresSound'
  BY <1>1, <1>6, OneWire DEF LogInv, WiresSound, Wires
<1>8. LinksTyped'
  BY <1>1 DEF LogInv, LinksTyped
<1> QED BY <1>1, <1>7, <1>8 DEF LogInv, RoomsSound, ClientsTyped

(* A socket is lost with a part of what was queued on it.                  *)
LEMMA SocketLostSound ==
  ASSUME LogInv, NEW n \in Node, NEW m \in Node \ {n}, NEW k \in 0 .. Len(queue[n][m]),
         SocketLost(n, m, k), faults' \in 0 .. MaxFaults,
         \/ stray' = stray
         \/ stray' = [stray EXCEPT ![n][m] = @ \o SubSeq(queue[n][m], 1, k)]
  PROVE  LogInv'
<1> DEFINE kept == SubSeq(queue[n][m], k + 1, Len(queue[n][m]))
           late == SubSeq(queue[n][m], 1, k)
           x == stray[n][m] \o late
<1>1. /\ link' = [link EXCEPT ![n][m] = "down"]
      /\ relayDown' = [relayDown EXCEPT ![n] = relayDown[n] \union {m}]
      /\ queue' = [queue EXCEPT ![n][m] = kept]
      /\ acks' = [acks EXCEPT ![n][m] = <<>>]
      /\ UNCHANGED <<room, watermark, pending, accepted>>
      /\ stray' = stray \/ stray' = [stray EXCEPT ![n][m] = x]
  BY DEF SocketLost, clientVars
<1>2. /\ queue[n][m] \in Seq(SoundFrame) /\ Len(queue[n][m]) <= FrameCapacity
      /\ stray[n][m] \in Seq(SoundFrame) /\ FrameCapacity \in Nat
  BY BoundAssumption DEF LogInv, WiresSound, Wires, Bounded
<1>3. /\ kept \in Seq(SoundFrame) /\ Len(kept) = IF k + 1 <= Len(queue[n][m]) THEN Len(queue[n][m]) - k ELSE 0
      /\ late \in Seq(SoundFrame)
  <2>1. /\ k + 1 \in Nat \ {0} /\ k \in Nat /\ k <= Len(queue[n][m]) /\ Len(queue[n][m]) \in Nat
        /\ Len(queue[n][m]) <= Len(queue[n][m]) /\ 1 \in Nat \ {0}
    BY <1>2
  <2>2. /\ kept \in Seq(SoundFrame)
        /\ Len(kept) = IF k + 1 <= Len(queue[n][m]) THEN Len(queue[n][m]) - (k + 1) + 1 ELSE 0
    BY <1>2, <2>1, SubSeqRange
  <2>3. late \in Seq(SoundFrame)
    BY <1>2, <2>1, SubSeqRange
  <2> QED BY <2>1, <2>2, <2>3
<1>4. Len(kept) <= FrameCapacity
  <2> HIDE DEF kept
  <2>1. k \in Nat /\ Len(queue[n][m]) \in Nat
    BY <1>2
  <2> QED BY <1>2, <1>3, <2>1
<1> HIDE DEF kept, late
<1>5. x \in Seq(SoundFrame)
  BY <1>2, <1>3
<1> HIDE DEF x
<1>6. Wires(queue') /\ Bounded(queue')
  BY <1>1, <1>3, <1>4, OneWire DEF LogInv, WiresSound
<1>7. Wires(stray')
  <2>1. Wires(stray)
    BY DEF LogInv, WiresSound
  <2>2. CASE stray' = stray
    BY <2>1, <2>2
  <2>3. CASE stray' = [stray EXCEPT ![n][m] = x]
    BY <1>5, <2>1, <2>3 DEF Wires
  <2> QED BY <1>1, <2>2, <2>3
<1>8. LinksTyped'
  BY <1>1 DEF LogInv, LinksTyped
<1> QED BY <1>1, <1>6, <1>7, <1>8 DEF LogInv, RoomsSound, WiresSound, ClientsTyped

(* A process comes back with its room, or with none.                       *)
LEMMA RebootSound ==
  ASSUME LogInv, NEW n \in Node, NEW r, NEW e, SoundRoom(r), Reboot(n, r, e)
  PROVE  LogInv'
<1>1. faults' \in 0 .. MaxFaults
  BY BoundAssumption DEF Reboot, LogInv, ClientsTyped
<1>2. RoomsSound'
  BY OneRoom DEF Reboot, LogInv
<1>3. WiresSound'
  <2>1. queue' = [queue EXCEPT ![n] = [m \in Node |-> <<>>]]
    BY DEF Reboot
  <2>2. [m \in Node |-> <<>>] \in [Node -> Seq(SoundFrame)]
    OBVIOUS
  <2>3. Wires(queue')
    BY <2>1, <2>2 DEF LogInv, WiresSound, Wires
  <2>4. \A a, b \in Node : queue'[a][b] = IF a = n THEN <<>> ELSE queue[a][b]
    BY <2>1 DEF LogInv, WiresSound, Wires
  <2>5. Bounded(queue')
    BY <2>4, BoundAssumption DEF LogInv, WiresSound, Bounded
  <2>6. stray' = [a \in Node |-> [stray[a] EXCEPT ![n] = <<>>]]
    BY DEF Reboot
  <2>7. \A a \in Node : [stray[a] EXCEPT ![n] = <<>>] \in [Node -> Seq(SoundFrame)]
    BY DEF LogInv, WiresSound, Wires
  <2>8. Wires(stray')
    BY <2>6, <2>7 DEF Wires
  <2> QED BY <2>3, <2>5, <2>8 DEF WiresSound
<1>4. LinksTyped'
  <2>1. relayDown' \in [Node -> SUBSET Node]
    BY DEF Reboot, LogInv, LinksTyped
  <2>2. link' \in [Node -> [Node -> {"down", "up", "closed"}]]
    BY DEF Reboot, LogInv, LinksTyped
  <2>3. acks' \in [Node -> [Node -> Seq(Nat)]]
    BY DEF Reboot, LogInv, LinksTyped
  <2>4. watermark' \in [Node -> [Node -> Nat]]
    BY DEF Reboot, LogInv, LinksTyped
  <2> QED BY <2>1, <2>2, <2>3, <2>4 DEF LinksTyped
<1>5. ClientsTyped'
  BY <1>1 DEF Reboot, LogInv, ClientsTyped
<1> QED BY <1>2, <1>3, <1>4, <1>5 DEF LogInv

(* Every step keeps the rooms sound and the wires bounded.                 *)
LEMMA LogStep ==
  ASSUME LogInv, EpochTypes, [Next]_vars
  PROVE  LogInv'
<1>1. ASSUME NEW n \in Node, NEW batch \in Batch, ClientWrite(n, batch)
      PROVE  LogInv'
  BY <1>1, WriteSound
<1>2. ASSUME NEW n \in Node, NEW batch \in Batch, ClientResend(n, batch)
      PROVE  LogInv'
  <2>1. batch \in Seq(Op)
    BY BatchAssumption
  <2>2. Range(batch) \subseteq Op
    BY <2>1 DEF Range
  <2> QED BY <1>2, <2>2 DEF ClientResend, linkVars, LogInv, RoomsSound, WiresSound, Wires,
                            Bounded, LinksTyped, ClientsTyped
<1>3. ASSUME NEW n \in Node, NEW entry \in pending[n], ClientDisconnect(n, entry)
      PROVE  LogInv'
  BY <1>3 DEF ClientDisconnect, linkVars, LogInv, RoomsSound, WiresSound, Wires,
              Bounded, LinksTyped, ClientsTyped
<1>4. ASSUME NEW n \in Node, NEW m \in Node \ {n}, Deliver(n, m)
      PROVE  LogInv'
  BY <1>4, DeliverSound
<1>5. ASSUME NEW n \in Node, NEW m \in Node \ {n}, DeliverStray(n, m)
      PROVE  LogInv'
  BY <1>5, StraySound
<1>6. ASSUME NEW n \in Node, NEW m \in Node \ {n}, DropStray(n, m)
      PROVE  LogInv'
  BY <1>6 DEF DropStray, clientVars, LogInv, RoomsSound, WiresSound, Wires,
              Bounded, LinksTyped, ClientsTyped
<1>7. ASSUME NEW n \in Node, NEW m \in Node \ {n}, RecordReplicaAck(n, m)
      PROVE  LogInv'
  BY <1>7, AckSound
<1>8. ASSUME NEW n \in Node, NEW m \in Node \ {n}, PeerUp(n, m)
      PROVE  LogInv'
  BY <1>8, PeerUpSound
<1>9. ASSUME NEW n \in Node, NEW m \in Node \ {n}, PeerDown(n, m) \/ PeerClosed(n, m)
      PROVE  LogInv'
  <2>1. PICK k \in 0 .. Len(queue[n][m]) :
           /\ SocketLost(n, m, k)
           /\ \/ stray' = stray
              \/ stray' = [stray EXCEPT ![n][m] = @ \o SubSeq(queue[n][m], 1, k)]
    BY <1>9 DEF PeerDown, PeerClosed
  <2>2. faults' = faults \/ (faults > 0 /\ faults' = faults - 1)
    BY <1>9 DEF PeerDown, PeerClosed
  <2>3. faults' \in 0 .. MaxFaults
    BY <2>2, BoundAssumption DEF LogInv, ClientsTyped
  <2> QED BY <2>1, <2>3, SocketLostSound
<1>10. ASSUME NEW n \in Node, NEW m \in Node \ {n}, DialFailed(n, m)
       PROVE  LogInv'
  BY <1>10 DEF DialFailed, clientVars, LogInv, RoomsSound, WiresSound, Wires,
               Bounded, LinksTyped, ClientsTyped
<1>11. ASSUME NEW n \in Node, Restart(n)
       PROVE  LogInv'
  <2>1. SoundRoom(room[n]) /\ Reboot(n, room[n], epochFile[n])
    BY <1>11 DEF Restart, LogInv, RoomsSound
  <2> QED BY <2>1, RebootSound
<1>12. ASSUME NEW n \in Node, RestartWiped(n)
       PROVE  LogInv'
  <2>1. SoundRoom(EmptyRoom) /\ Reboot(n, EmptyRoom, 0)
    BY <1>12, EmptyRoomSound DEF RestartWiped
  <2> QED BY <2>1, RebootSound
<1>13. CASE UNCHANGED vars
  BY <1>13 DEF vars, linkVars, clientVars, LogInv, RoomsSound, WiresSound, Wires,
               Bounded, LinksTyped, ClientsTyped
<1> QED
  BY <1>1, <1>2, <1>3, <1>4, <1>5, <1>6, <1>7, <1>8, <1>9, <1>10, <1>11, <1>12, <1>13 DEF Next

(* A new cluster is sound.                                                 *)
LEMMA LogInit == Init => LogInv
<1> SUFFICES ASSUME Init PROVE LogInv
  OBVIOUS
<1>1. RoomsSound
  <2>1. SoundRoom(EmptyRoom) /\ EmptyRoom \in Room
    BY EmptyRoomSound DEF SoundRoom
  <2> QED BY <2>1 DEF Init, RoomsSound
<1>2. WiresSound
  BY BoundAssumption DEF Init, WiresSound, Wires, Bounded
<1>3. LinksTyped
  BY DEF Init, LinksTyped
<1>4. ClientsTyped
  BY BoundAssumption DEF Init, ClientsTyped
<1> QED BY <1>1, <1>2, <1>3, <1>4 DEF LogInv

(* Rooms stay sound, wires bounded and epochs numbers for ever.            *)
LEMMA LogInvariant == Spec => [](LogInv /\ EpochIInv)
<1>1. LogInv /\ EpochIInv /\ [Next]_vars => (LogInv /\ EpochIInv)'
  BY LogStep, NextStep DEF EpochIInv
<1> QED BY <1>1, LogInit, InitStep, PTL DEF Spec
-----------------------------------------------------------------------------
(* A node's head is the number of distinct ops its replica holds, across   *)
(* dedup of re-sent batches, threshold compaction, snapshot transfer,      *)
(* restarts and lost disks: what an ack or a watermark counts is ops       *)
(* (registry.rs apply_replicate and apply_replicate_snapshot, lib.rs       *)
(* ingest and head_seq).                                                   *)
THEOREM HeadsCount == Spec => []HeadCountsOps
<1>1. LogInv => HeadCountsOps
  BY DEF LogInv, RoomsSound, SoundRoom, HeadCountsOps
<1> QED BY <1>1, LogInvariant, PTL

(* Every variable keeps its type, and no peer queue outgrows               *)
(* PEER_FRAME_CAPACITY, catch-ups and fan-out included (runtime.rs,        *)
(* registry.rs fan_out and on_peer_up).                                    *)
THEOREM ReplicationTyped == Spec => []TypeOK
<1>1. LogInv /\ EpochIInv => TypeOK
  <2> SUFFICES ASSUME LogInv, EpochIInv PROVE TypeOK
    OBVIOUS
  <2>1. \A q : Wires(q) => q \in [Node -> [Node -> Seq(Frame)]]
    <3>1. ASSUME NEW s \in Seq(SoundFrame) PROVE s \in Seq(Frame)
      <4>1. SoundFrame \subseteq Frame
        BY DEF SoundFrame
      <4>2. Len(s) \in Nat /\ DOMAIN s = 1 .. Len(s) /\ \A k \in 1 .. Len(s) : s[k] \in SoundFrame
        OBVIOUS
      <4> QED BY <4>1, <4>2
    <3> QED BY <3>1 DEF Wires
  <2>2. epochFile \in [Node -> Nat]
    BY DEF EpochIInv, EpochTypes
  <2> QED BY <2>1, <2>2 DEF TypeOK, LogInv, RoomsSound, WiresSound, Bounded, LinksTyped,
                            ClientsTyped, EpochIInv, EpochTypes
<1> QED BY <1>1, LogInvariant, PTL

-----------------------------------------------------------------------------
(* What replication promises while its primary lasts: the first replica in *)
(* placement order neither restarts nor loses a follower's link to it, no  *)
(* disk is lost, and no frame outlives its socket.  The primary's own      *)
(* links may drop at any time, frames written to them be lost, queues      *)
(* overflow and followers restart.                                         *)

P == Placement[1]

StablePrimary ==
    /\ P \notin Crashable
    /\ Wipeable = {}
    /\ ~LateFrames
    /\ \A n \in Node : <<n, P>> \notin FlakyLink

Seen(n) == room[n].seen

(* The ops a frame brings.                                                 *)
Brought(f) ==
    IF f.kind = "Replicate" THEN Range(f.ops)
    ELSE IF f.kind = "ReplicateSnapshot" THEN f.state
    ELSE {}

(* Nobody doubts the primary.                                              *)
OneLead ==
    /\ \A n \in Node : P \notin relayDown[n]
    /\ \A n \in Node : link[n][P] # "closed"

HeadsOnly(q) == \A f \in Range(q) : f.kind = "FollowerHeads"

(* Nothing is read late, and only the primary sends ops.                   *)
OneSender ==
    /\ stray = [n \in Node |-> [m \in Node |-> <<>>]]
    /\ \A n \in Node \ {P} : \A m \in Node : HeadsOnly(queue[n][m])

(* What is queued brings nothing the primary lacks.                        *)
Within(q, top) == \A f \in Range(q) : Brought(f) \subseteq top

(* A queued snapshot contains its follower, and everything queued before.  *)
Covers(q, seen) ==
    \A i \in DOMAIN q : q[i].kind = "ReplicateSnapshot" =>
        seen \subseteq q[i].state /\ \A j \in 1 .. i - 1 : Brought(q[j]) \subseteq q[i].state

(* No head a follower reported exceeds what it holds.                      *)
Reported(q, seen) == \A f \in Range(q) : f.kind = "FollowerHeads" => f.head <= Cardinality(seen)

Acknowledged(a, seen) == \A k \in Range(a) : k <= Cardinality(seen)

(* A follower stands behind its primary.                                   *)
Behind(m) ==
    /\ Seen(m) \subseteq Seen(P)
    /\ Within(queue[P][m], Seen(P))
    /\ Covers(queue[P][m], Seen(m))
    /\ Reported(queue[m][P], Seen(m))
    /\ Acknowledged(acks[P][m], Seen(m))
    /\ watermark[P][m] <= Cardinality(Seen(m))

PrimaryInv == OneLead /\ OneSender /\ \A m \in Node \ {P} : Behind(m)
-----------------------------------------------------------------------------
(* The primary is a node, and leads in every view that does not doubt it.  *)
LEMMA PrimaryLeads ==
  /\ P \in Node
  /\ \A n \in Node : \A down : P \notin down => EffectivePrimary(n, down) = P
<1>1. Cardinality(Node) \in Nat /\ Cardinality(Node) > 1
  BY NodeAssumption, FS_CardinalityType
<1>2. /\ Placement \in Seq(Node) /\ Len(Placement) > 1 /\ Len(Placement) \in Nat
      /\ DOMAIN Placement = 1 .. Len(Placement)
  BY <1>1, PlacementAssumption
<1>3. 1 \in DOMAIN Placement /\ Placement[1] \in Node
  BY <1>2
<1>4. ASSUME NEW n \in Node, NEW down, P \notin down
      PROVE  EffectivePrimary(n, down) = P
  <2> DEFINE First(i) == Placement[i] \notin down /\ \A j \in 1 .. i - 1 : Placement[j] \in down
             c == CHOOSE i \in DOMAIN Placement : First(i)
  <2>1. First(1)
    BY <1>4 DEF P
  <2>2. c \in DOMAIN Placement /\ First(c)
    BY <1>3, <2>1
  <2>3. c = 1
    <3>1. c \in 1 .. Len(Placement)
      BY <1>2, <2>2
    <3>2. ASSUME c # 1 PROVE FALSE
      <4>1. 1 \in 1 .. c - 1
        BY <3>1, <3>2, <1>2
      <4> HIDE DEF c
      <4>2. Placement[1] \in down
        BY <2>2, <4>1
      <4> QED BY <4>2, <1>4 DEF P
    <3> QED BY <3>2
  <2>4. EffectivePrimary(n, down) = Placement[c]
    BY DEF EffectivePrimary
  <2> HIDE DEF c
  <2> QED BY <2>3, <2>4 DEF P
<1> QED BY <1>3, <1>4 DEF P

(* Sending appends the frame, or leaves the queue alone.                   *)
LEMMA SendFacts ==
  ASSUME NEW q \in Seq(SoundFrame), NEW f \in SoundFrame
  PROVE  \/ TrySend(q, f) = q
         \/ /\ TrySend(q, f) = Append(q, f)
            /\ DOMAIN Append(q, f) = 1 .. Len(q) + 1 /\ Len(q) \in Nat /\ DOMAIN q = 1 .. Len(q)
            /\ \A i \in 1 .. Len(q) : Append(q, f)[i] = q[i]
            /\ Append(q, f)[Len(q) + 1] = f
            /\ Range(Append(q, f)) = Range(q) \union {f}
  BY AppendFacts DEF TrySend

(* No queue comes to hold a frame that was not in it or sent.              *)
LEMMA QueueRanges ==
  ASSUME NEW q \in Seq(SoundFrame)
  PROVE  /\ \A f \in SoundFrame : Range(TrySend(q, f)) \subseteq Range(q) \union {f}
         /\ \A k \in 0 .. Len(q) : Range(SubSeq(q, k + 1, Len(q))) \subseteq Range(q)
<1>1. ASSUME NEW f \in SoundFrame PROVE Range(TrySend(q, f)) \subseteq Range(q) \union {f}
  BY SendFacts
<1>2. ASSUME NEW k \in 0 .. Len(q) PROVE Range(SubSeq(q, k + 1, Len(q))) \subseteq Range(q)
  <2>1. k + 1 \in Nat \ {0} /\ Len(q) \in Nat /\ Len(q) <= Len(q)
    OBVIOUS
  <2> QED BY <2>1, SubSeqRange
<1> QED BY <1>1, <1>2

(* Reading, sending and cutting keep what holds of every frame of a queue. *)
LEMMA WithinKept ==
  ASSUME NEW q \in Seq(SoundFrame), NEW top, Within(q, top)
  PROVE  /\ \A t : top \subseteq t => Within(q, t)
         /\ q # <<>> => Within(Tail(q), top) /\ Brought(Head(q)) \subseteq top
         /\ \A f \in SoundFrame : Brought(f) \subseteq top => Within(TrySend(q, f), top)
         /\ \A k \in 0 .. Len(q) : Within(SubSeq(q, k + 1, Len(q)), top)
<1>1. \A t : top \subseteq t => Within(q, t)
  BY DEF Within
<1>2. q # <<>> => Within(Tail(q), top) /\ Brought(Head(q)) \subseteq top
  BY ReadFacts DEF Within
<1>3. \A f \in SoundFrame : Brought(f) \subseteq top => Within(TrySend(q, f), top)
  BY QueueRanges DEF Within
<1>4. \A k \in 0 .. Len(q) : Within(SubSeq(q, k + 1, Len(q)), top)
  BY QueueRanges DEF Within
<1> QED BY <1>1, <1>2, <1>3, <1>4

LEMMA HeadsKept ==
  ASSUME NEW q \in Seq(SoundFrame), HeadsOnly(q)
  PROVE  /\ q # <<>> => HeadsOnly(Tail(q)) /\ Head(q).kind = "FollowerHeads"
         /\ \A f \in SoundFrame : f.kind = "FollowerHeads" => HeadsOnly(TrySend(q, f))
         /\ \A k \in 0 .. Len(q) : HeadsOnly(SubSeq(q, k + 1, Len(q)))
<1>1. q # <<>> => HeadsOnly(Tail(q)) /\ Head(q).kind = "FollowerHeads"
  BY ReadFacts DEF HeadsOnly
<1>2. \A f \in SoundFrame : f.kind = "FollowerHeads" => HeadsOnly(TrySend(q, f))
  BY QueueRanges DEF HeadsOnly
<1>3. \A k \in 0 .. Len(q) : HeadsOnly(SubSeq(q, k + 1, Len(q)))
  BY QueueRanges DEF HeadsOnly
<1> QED BY <1>1, <1>2, <1>3

LEMMA ReportedKept ==
  ASSUME NEW q \in Seq(SoundFrame), NEW seen, Reported(q, seen)
  PROVE  /\ q # <<>> => Reported(Tail(q), seen)
         /\ \A f \in SoundFrame :
               (f.kind = "FollowerHeads" => f.head <= Cardinality(seen)) => Reported(TrySend(q, f), seen)
         /\ \A k \in 0 .. Len(q) : Reported(SubSeq(q, k + 1, Len(q)), seen)
         /\ \A more : seen \subseteq more /\ IsFiniteSet(more) => Reported(q, more)
<1>1. q # <<>> => Reported(Tail(q), seen)
  BY ReadFacts DEF Reported
<1>2. \A f \in SoundFrame :
         (f.kind = "FollowerHeads" => f.head <= Cardinality(seen)) => Reported(TrySend(q, f), seen)
  BY QueueRanges DEF Reported
<1>3. \A k \in 0 .. Len(q) : Reported(SubSeq(q, k + 1, Len(q)), seen)
  BY QueueRanges DEF Reported
<1>4. ASSUME NEW more, seen \subseteq more, IsFiniteSet(more) PROVE Reported(q, more)
  <2>1. /\ Cardinality(seen) <= Cardinality(more)
        /\ Cardinality(seen) \in Nat /\ Cardinality(more) \in Nat
    BY <1>4, FS_Subset, FS_CardinalityType
  <2>2. \A f \in Range(q) : f.kind = "FollowerHeads" => f.head \in Nat
    BY FrameFields DEF Range
  <2> QED BY <2>1, <2>2 DEF Reported
<1> QED BY <1>1, <1>2, <1>3, <1>4

(* A snapshot keeps its place in the queue, behind what it contains.       *)
LEMMA CoversKept ==
  ASSUME NEW q \in Seq(SoundFrame), NEW seen, Covers(q, seen)
  PROVE  /\ q # <<>> => Covers(Tail(q), seen \union Brought(Head(q)))
         /\ q # <<>> => Covers(Tail(q), seen)
         /\ q # <<>> /\ Head(q).kind = "ReplicateSnapshot" => seen \subseteq Head(q).state
         /\ \A f \in SoundFrame : f.kind # "ReplicateSnapshot" => Covers(TrySend(q, f), seen)
         /\ \A f \in SoundFrame : Within(q, f.state) /\ seen \subseteq f.state => Covers(TrySend(q, f), seen)
         /\ \A k \in 0 .. Len(q) : Covers(SubSeq(q, k + 1, Len(q)), seen)
<1>1. q # <<>> => Covers(Tail(q), seen \union Brought(Head(q))) /\ Covers(Tail(q), seen)
  <2> SUFFICES ASSUME q # <<>>, NEW i \in DOMAIN Tail(q), Tail(q)[i].kind = "ReplicateSnapshot"
               PROVE  /\ seen \subseteq Tail(q)[i].state /\ Brought(Head(q)) \subseteq Tail(q)[i].state
                      /\ \A j \in 1 .. i - 1 : Brought(Tail(q)[j]) \subseteq Tail(q)[i].state
    BY DEF Covers
  <2>1. /\ i \in Nat /\ i + 1 \in DOMAIN q /\ Tail(q)[i] = q[i + 1] /\ Head(q) = q[1]
        /\ DOMAIN Tail(q) = 1 .. Len(q) - 1 /\ Len(q) \in Nat
    BY ReadFacts
  <2>2. seen \subseteq q[i + 1].state /\ \A j \in 1 .. (i + 1) - 1 : Brought(q[j]) \subseteq q[i + 1].state
    BY <2>1 DEF Covers
  <2>3. 1 \in 1 .. (i + 1) - 1
    BY <2>1
  <2>4. ASSUME NEW j \in 1 .. i - 1 PROVE Brought(Tail(q)[j]) \subseteq Tail(q)[i].state
    <3>1. j \in DOMAIN Tail(q) /\ j + 1 \in 1 .. (i + 1) - 1
      BY <2>1
    <3>2. Tail(q)[j] = q[j + 1]
      BY <3>1, ReadFacts
    <3> QED BY <2>1, <2>2, <3>1, <3>2
  <2> QED BY <2>1, <2>2, <2>3, <2>4
<1>2. q # <<>> /\ Head(q).kind = "ReplicateSnapshot" => seen \subseteq Head(q).state
  <2> SUFFICES ASSUME q # <<>>, Head(q).kind = "ReplicateSnapshot" PROVE seen \subseteq Head(q).state
    OBVIOUS
  <2>1. 1 \in DOMAIN q /\ Head(q) = q[1]
    BY ReadFacts
  <2> QED BY <2>1 DEF Covers
<1>3. ASSUME NEW f \in SoundFrame,
             f.kind # "ReplicateSnapshot" \/ (Within(q, f.state) /\ seen \subseteq f.state)
      PROVE  Covers(TrySend(q, f), seen)
  <2>1. CASE TrySend(q, f) = q
    BY <2>1
  <2>2. CASE TrySend(q, f) # q
    <3> DEFINE t == Append(q, f)
    <3>1. /\ TrySend(q, f) = t /\ DOMAIN t = 1 .. Len(q) + 1 /\ Len(q) \in Nat
          /\ DOMAIN q = 1 .. Len(q) /\ t[Len(q) + 1] = f
          /\ \A i \in 1 .. Len(q) : t[i] = q[i]
      BY <2>2, SendFacts
    <3> HIDE DEF t
    <3>2. ASSUME NEW i \in DOMAIN t, t[i].kind = "ReplicateSnapshot"
          PROVE  seen \subseteq t[i].state /\ \A j \in 1 .. i - 1 : Brought(t[j]) \subseteq t[i].state
      <4>1. CASE i <= Len(q)
        <5>1. i \in DOMAIN q /\ t[i] = q[i] /\ \A j \in 1 .. i - 1 : t[j] = q[j]
          BY <3>1, <4>1
        <5> QED BY <3>2, <5>1 DEF Covers
      <4>2. CASE i = Len(q) + 1
        <5>1. t[i] = f /\ \A j \in 1 .. i - 1 : t[j] = q[j] /\ j \in DOMAIN q
          BY <3>1, <4>2
        <5>2. \A j \in DOMAIN q : Brought(q[j]) \subseteq f.state
          BY <1>3, <3>2, <5>1 DEF Within, Range
        <5> QED BY <1>3, <3>2, <5>1, <5>2
      <4> QED BY <3>1, <4>1, <4>2
    <3> QED BY <3>1, <3>2 DEF Covers
  <2> QED BY <2>1, <2>2
<1>4. ASSUME NEW k \in 0 .. Len(q) PROVE Covers(SubSeq(q, k + 1, Len(q)), seen)
  <2> DEFINE t == SubSeq(q, k + 1, Len(q))
  <2>1. k + 1 \in Nat \ {0} /\ k \in Nat /\ Len(q) \in Nat /\ Len(q) <= Len(q) /\ DOMAIN q = 1 .. Len(q)
    OBVIOUS
  <2>2. /\ t \in Seq(SoundFrame)
        /\ Len(t) = IF k + 1 <= Len(q) THEN Len(q) - (k + 1) + 1 ELSE 0
        /\ \A i \in 1 .. Len(t) : t[i] = q[(k + 1) + i - 1]
    BY <2>1, SubSeqRange
  <2> HIDE DEF t
  <2>3. DOMAIN t = 1 .. Len(t) /\ Len(t) \in Nat
    BY <2>2
  <2>4. ASSUME NEW i \in 1 .. Len(t) PROVE i + k \in DOMAIN q /\ t[i] = q[i + k]
    <3>1. (k + 1) + i - 1 = i + k /\ i + k \in 1 .. Len(q)
      BY <2>1, <2>2, <2>3
    <3> QED BY <2>1, <2>2, <3>1
  <2>5. ASSUME NEW i \in 1 .. Len(t), t[i].kind = "ReplicateSnapshot"
        PROVE  seen \subseteq t[i].state /\ \A j \in 1 .. i - 1 : Brought(t[j]) \subseteq t[i].state
    <3>1. seen \subseteq q[i + k].state /\ \A j \in 1 .. (i + k) - 1 : Brought(q[j]) \subseteq q[i + k].state
      BY <2>4, <2>5 DEF Covers
    <3>2. ASSUME NEW j \in 1 .. i - 1 PROVE Brought(t[j]) \subseteq t[i].state
      <4>1. j \in 1 .. Len(t) /\ j + k \in 1 .. (i + k) - 1
        BY <2>1, <2>3
      <4> QED BY <2>4, <3>1, <4>1
    <3> QED BY <2>4, <3>1, <3>2
  <2>6. Covers(t, seen)
    BY <2>3, <2>5 DEF Covers
  <2> QED BY <2>6 DEF t
<1> QED BY <1>1, <1>2, <1>3, <1>4
-----------------------------------------------------------------------------
(* While nobody doubts the primary, it alone leads and no frame of its own *)
(* is rejected.                                                            *)
LEMMA OnlyPrimaryLeads ==
  ASSUME OneLead
  PROVE  /\ \A n \in Node : Leads(n) <=> n = P
         /\ \A m \in Node \ {P} : \A e : ReplicaGate(m, e) # "Reject"
<1>1. \A n \in Node : EffectivePrimary(n, relayDown[n]) = P
  BY PrimaryLeads DEF OneLead
<1>2. \A n \in Node : Leads(n) <=> n = P
  BY <1>1 DEF Leads
<1> QED BY <1>2 DEF ReplicaGate

(* What the primary catches a follower up with is its own.                 *)
LEMMA CatchUpBrought ==
  ASSUME NEW n \in Node, SoundRoom(room[n]), EpochTypes, NEW floor \in Nat,
         NEW f \in CatchUpFrames(n, floor)
  PROVE  /\ f \in SoundFrame
         /\ f.kind # "FollowerHeads"
         /\ Brought(f) \subseteq Seen(n)
         /\ f.kind = "ReplicateSnapshot" => f.state = Seen(n)
<1> DEFINE e == Epochs!ClaimedEpoch(seenEpoch[n], led[n])
           c == CatchUp(room[n], floor)
<1>1. f \in SoundFrame
  BY CatchUpFramesSound
<1>2. \/ /\ c.kind = "snapshot" /\ c.state = Seen(n)
      \/ /\ c.kind = "ops" /\ Range(c.ops) \subseteq Seen(n)
  BY CatchUpSound DEF Seen
<1>3. \/ c.kind = "snapshot" /\ f = [kind |-> "ReplicateSnapshot", seq |-> c.seq, state |-> c.state, epoch |-> e]
      \/ c.kind # "snapshot" /\ f = [kind |-> "Replicate", ops |-> c.ops, epoch |-> e]
      \/ f = [kind |-> "ReplicateMeta", epoch |-> e]
  <2> HIDE DEF e, c
  <2> QED BY DEF CatchUpFrames, e, c
<1> HIDE DEF e, c
<1> QED BY <1>1, <1>2, <1>3 DEF Brought

(* Queueing it keeps the follower's queue in order.                        *)
LEMMA CatchUpKept ==
  ASSUME NEW n \in Node, SoundRoom(room[n]), EpochTypes, NEW floor \in Nat,
         NEW frames, frames = {} \/ frames = CatchUpFrames(n, floor),
         NEW q \in Seq(SoundFrame), NEW seen,
         Within(q, Seen(n)), Covers(q, seen), seen \subseteq Seen(n)
  PROVE  /\ Within(SendCatchUp(q, frames), Seen(n))
         /\ Covers(SendCatchUp(q, frames), seen)
<1>1. CASE frames = {}
  BY <1>1 DEF SendCatchUp
<1>2. CASE frames # {}
  <2> DEFINE g == CHOOSE f \in frames : TRUE
  <2>1. g \in frames /\ g \in CatchUpFrames(n, floor)
    BY <1>2
  <2> HIDE DEF g
  <2>2. /\ g \in SoundFrame /\ Brought(g) \subseteq Seen(n)
        /\ g.kind = "ReplicateSnapshot" => g.state = Seen(n)
    BY <2>1, CatchUpBrought
  <2>3. SendCatchUp(q, frames) = TrySend(q, g)
    BY <1>2 DEF SendCatchUp, g
  <2>4. Within(TrySend(q, g), Seen(n))
    BY <2>2, WithinKept
  <2>5. Covers(TrySend(q, g), seen)
    BY <2>2, CoversKept
  <2> QED BY <2>3, <2>4, <2>5
<1> QED BY <1>1, <1>2

(* What is reported of a set of ops stays true of a larger one.            *)
LEMMA CountGrows ==
  ASSUME NEW S, NEW T, S \subseteq T, IsFiniteSet(T)
  PROVE  Cardinality(S) \in Nat /\ Cardinality(T) \in Nat /\ Cardinality(S) <= Cardinality(T)
  BY FS_Subset, FS_CardinalityType

(* A follower that grew, and its primary with it, is still behind.         *)
LEMMA BehindKept ==
  ASSUME LogInv, LogInv', NEW m \in Node \ {P},
         Seen(m) \subseteq Seen(m)', Seen(m)' \subseteq Seen(P)',
         Within(queue'[P][m], Seen(P)'), Covers(queue'[P][m], Seen(m)'),
         Reported(queue'[m][P], Seen(m)),
         Acknowledged(acks'[P][m], Seen(m)) \/ Acknowledged(acks'[P][m], Seen(m)'),
         watermark'[P][m] <= Cardinality(Seen(m))
  PROVE  Behind(m)'
<1>1. P \in Node /\ m \in Node
  BY PrimaryLeads
<1>2. IsFiniteSet(Seen(m)')
  BY <1>1 DEF LogInv, RoomsSound, SoundRoom, Seen
<1>3. /\ Cardinality(Seen(m)) \in Nat /\ Cardinality(Seen(m)') \in Nat
      /\ Cardinality(Seen(m)) <= Cardinality(Seen(m)')
  BY <1>2, CountGrows
<1>4. Reported(queue'[m][P], Seen(m)')
  <2>1. queue'[m][P] \in Seq(SoundFrame)
    BY <1>1 DEF LogInv, WiresSound, Wires
  <2> QED BY <1>2, <2>1, ReportedKept
<1>5. Acknowledged(acks'[P][m], Seen(m)')
  <2>1. acks'[P][m] \in Seq(Nat)
    BY <1>1 DEF LogInv, LinksTyped
  <2>2. Range(acks'[P][m]) \subseteq Nat
    BY <2>1 DEF Range
  <2> QED BY <1>3, <2>2 DEF Acknowledged
<1>6. watermark'[P][m] <= Cardinality(Seen(m)')
  <2>1. watermark'[P][m] \in Nat
    BY <1>1 DEF LogInv, LinksTyped
  <2> QED BY <1>3, <2>1
<1> QED BY <1>4, <1>5, <1>6 DEF Behind

NoneForgotten == \A n \in Node : Seen(n) \subseteq Seen(n)'

(* The types a step of a stable cluster can rely on.                       *)
LEMMA StableFacts ==
  ASSUME LogInv, PrimaryInv
  PROVE  /\ P \in Node
         /\ \A n \in Node : SoundRoom(room[n]) /\ IsFiniteSet(Seen(n)) /\ RoomHead(room[n]) = Cardinality(Seen(n))
         /\ \A n, m \in Node : queue[n][m] \in Seq(SoundFrame) /\ stray[n][m] = <<>>
         /\ \A n, m \in Node : acks[n][m] \in Seq(Nat) /\ watermark[n][m] \in Nat
<1>1. P \in Node
  BY PrimaryLeads
<1>2. \A n \in Node : SoundRoom(room[n]) /\ IsFiniteSet(Seen(n)) /\ RoomHead(room[n]) = Cardinality(Seen(n))
  BY DEF LogInv, RoomsSound, SoundRoom, Seen
<1>3. \A n, m \in Node : queue[n][m] \in Seq(SoundFrame) /\ stray[n][m] = <<>>
  BY DEF LogInv, WiresSound, Wires, PrimaryInv, OneSender
<1>4. \A n, m \in Node : acks[n][m] \in Seq(Nat) /\ watermark[n][m] \in Nat
  BY DEF LogInv, LinksTyped
<1> QED BY <1>1, <1>2, <1>3, <1>4

(* The primary's write reaches its own room and the queues.                *)
LEMMA WriteBehind ==
  ASSUME LogInv, LogInv', EpochTypes, PrimaryInv,
         NEW n \in Node, NEW batch \in Batch, ClientWrite(n, batch)
  PROVE  PrimaryInv' /\ NoneForgotten
<1> DEFINE fresh == Fresh(room[n], batch)
           e == Epochs!ClaimedEpoch(seenEpoch[n], led[n])
           frame == [kind |-> "Replicate", ops |-> fresh, epoch |-> e]
           committed == Commit(room[n], fresh)
<1>1. /\ Leads(n)
      /\ room' = [room EXCEPT ![n] = committed]
      /\ queue' = [queue EXCEPT ![n] = [m \in Node |->
                     IF <<n, m>> \in Dialed THEN TrySend(@[m], frame) ELSE @[m]]]
      /\ UNCHANGED <<relayDown, link, stray, acks, watermark>>
  BY DEF ClientWrite, linkVars
<1>2. n = P
  BY <1>1, OnlyPrimaryLeads DEF PrimaryInv
<1>3. batch \in Seq(Op) /\ SoundRoom(room[n])
  BY BatchAssumption, StableFacts
<1>4. committed.seen = Seen(n) \union Range(batch) /\ Range(fresh) \subseteq Range(batch) /\ fresh \in Seq(Op)
  BY <1>3, CommitSound, FreshOps DEF Seen
<1>5. frame \in SoundFrame /\ Brought(frame) = Range(fresh) /\ frame.kind = "Replicate"
  <2>1. e \in Nat
    BY ClaimedNat
  <2> HIDE DEF e, fresh
  <2> QED BY <1>4, <2>1, FrameBuilt DEF Brought
<1> HIDE DEF frame, committed, fresh, e
<1>6. \A k \in Node : Seen(k)' = IF k = P THEN committed.seen ELSE Seen(k)
  BY <1>1, <1>2 DEF LogInv, RoomsSound, Seen
<1>7. NoneForgotten /\ Seen(P) \subseteq Seen(P)' /\ Range(fresh) \subseteq Seen(P)'
  BY <1>2, <1>4, <1>6 DEF NoneForgotten
<1>8. \A a, b \in Node :
         queue'[a][b] = IF a = P /\ <<P, b>> \in Dialed THEN TrySend(queue[P][b], frame)
                        ELSE queue[a][b]
  BY <1>1, <1>2 DEF LogInv, WiresSound, Wires
<1>9. OneLead' /\ OneSender'
  <2>1. \A k \in Node \ {P} : \A m \in Node : queue'[k][m] = queue[k][m]
    BY <1>8
  <2> QED BY <1>1, <2>1 DEF PrimaryInv, OneLead, OneSender
<1>10. ASSUME NEW m \in Node \ {P} PROVE Behind(m)'
  <2>1. Behind(m)
    BY DEF PrimaryInv
  <2>2. P \in Node /\ queue[P][m] \in Seq(SoundFrame) /\ Seen(m)' = Seen(m)
    BY <1>6, StableFacts
  <2>3. Within(queue[P][m], Seen(P)')
    BY <1>7, <2>1, <2>2, WithinKept DEF Behind
  <2>4. Within(queue'[P][m], Seen(P)')
    <3>1. Within(TrySend(queue[P][m], frame), Seen(P)')
      BY <1>5, <1>7, <2>2, <2>3, WithinKept
    <3> QED BY <1>8, <2>2, <2>3, <3>1
  <2>5. Covers(queue'[P][m], Seen(m)')
    <3>1. Covers(queue[P][m], Seen(m)) /\ frame.kind # "ReplicateSnapshot"
      BY <1>5, <2>1 DEF Behind
    <3>2. Covers(TrySend(queue[P][m], frame), Seen(m))
      BY <1>5, <2>2, <3>1, CoversKept
    <3> QED BY <1>8, <2>2, <3>1, <3>2
  <2>6. queue'[m][P] = queue[m][P]
    BY <1>8, <2>2
  <2>7. Seen(m)' \subseteq Seen(P)'
    BY <1>7, <2>1, <2>2 DEF Behind
  <2> QED BY <1>1, <2>1, <2>2, <2>4, <2>5, <2>6, <2>7, BehindKept DEF Behind
<1> QED BY <1>7, <1>9, <1>10 DEF PrimaryInv

(* A follower reads what the primary sent.                                 *)
LEMMA FollowerReads ==
  ASSUME LogInv, LogInv', PrimaryInv, NEW m \in Node \ {P}, Deliver(P, m)
  PROVE  PrimaryInv' /\ NoneForgotten
<1> DEFINE q == queue[P][m]
           f == Head(q)
           rest == [queue EXCEPT ![P][m] = Tail(@)]
<1>1. /\ q # <<>> /\ Receive(P, m, f, rest, TRUE)
      /\ UNCHANGED <<relayDown, stray>>
  BY DEF Deliver
<1>2. /\ P \in Node /\ q \in Seq(SoundFrame) /\ SoundRoom(room[m])
      /\ Behind(m) /\ ~Leads(m) /\ \A e : ReplicaGate(m, e) # "Reject"
  BY StableFacts, OnlyPrimaryLeads DEF PrimaryInv
<1>3. f \in SoundFrame
  BY <1>1, <1>2, ReadFacts
<1>4. /\ queue' = rest /\ link' = link /\ watermark' = watermark
      /\ \/ room' = room /\ acks' = acks
         \/ \E r : /\ room' = [room EXCEPT ![m] = r]
                   /\ r.seen = Seen(m) \union Brought(f)
                   /\ acks' = [acks EXCEPT ![P][m] = Append(@, Cardinality(r.seen))]
  <2>1. CASE ApplyReplicate(P, m, f, TRUE) /\ queue' = rest
    <3>1. f.kind = "Replicate" /\ f.ops \in Seq(Op)
      BY <1>3, <2>1, FrameFields DEF ApplyReplicate
    <3>2. CASE UNCHANGED <<room, acks, link>>
      BY <2>1, <3>2 DEF ApplyReplicate
    <3>3. CASE ~UNCHANGED <<room, acks, link>>
      <4> DEFINE r == Ingest(room[m], f.ops)
      <4>1. /\ room' = [room EXCEPT ![m] = r]
            /\ acks' = Acked(P, m, RoomHead(r), TRUE)
            /\ UNCHANGED <<link, watermark>>
        BY <1>2, <2>1, <3>3 DEF ApplyReplicate
      <4>2. r.seen = Seen(m) \union Brought(f) /\ RoomHead(r) = Cardinality(r.seen)
        BY <1>2, <3>1, CommitSound DEF Ingest, Seen, Brought, SoundRoom
      <4> HIDE DEF r
      <4> QED BY <2>1, <4>1, <4>2 DEF Acked
    <3> QED BY <3>2, <3>3
  <2>2. CASE ApplyReplicateSnapshot(P, m, f, TRUE) /\ queue' = rest
    <3>1. /\ f.kind = "ReplicateSnapshot" /\ f.state \subseteq Op /\ IsFiniteSet(f.state)
          /\ f.seq = Cardinality(f.state)
      BY <1>3, <2>2, FrameFields DEF ApplyReplicateSnapshot
    <3>2. CASE UNCHANGED <<room, acks, link>>
      BY <2>2, <3>2 DEF ApplyReplicateSnapshot
    <3>3. CASE ~UNCHANGED <<room, acks, link>>
      <4> DEFINE r == InstallSnapshot(f.state, f.seq)
      <4>1. /\ room' = [room EXCEPT ![m] = r]
            /\ acks' = Acked(P, m, f.seq, TRUE)
            /\ UNCHANGED <<link, watermark>>
        BY <1>2, <2>2, <3>3 DEF ApplyReplicateSnapshot
      <4>2. Seen(m) \subseteq f.state
        BY <1>1, <1>2, <3>1, CoversKept DEF Behind
      <4>3. r.seen = Seen(m) \union Brought(f) /\ f.seq = Cardinality(r.seen)
        BY <3>1, <4>2 DEF InstallSnapshot, Brought
      <4> HIDE DEF r
      <4> QED BY <2>2, <4>1, <4>3 DEF Acked
    <3> QED BY <3>2, <3>3
  <2>3. CASE ApplyReplicateMeta(P, m, f, TRUE) /\ queue' = rest
    BY <1>2, <2>3 DEF ApplyReplicateMeta
  <2>4. CASE ApplyFollowerHeads(P, m, f, rest)
    BY <1>2, <2>4 DEF ApplyFollowerHeads
  <2> QED BY <1>1, <2>1, <2>2, <2>3, <2>4 DEF Receive
<1>5. \A a, b \in Node : queue'[a][b] = IF a = P /\ b = m THEN Tail(q) ELSE queue[a][b]
  BY <1>2, <1>4 DEF LogInv, WiresSound, Wires
<1>6. /\ \A k \in Node \ {m} : Seen(k)' = Seen(k) /\ acks'[P][k] = acks[P][k]
      /\ \/ Seen(m)' = Seen(m) /\ acks'[P][m] = acks[P][m]
         \/ /\ Seen(m)' = Seen(m) \union Brought(f)
            /\ acks'[P][m] = Append(acks[P][m], Cardinality(Seen(m)'))
  <2>1. CASE room' = room /\ acks' = acks
    BY <2>1 DEF Seen
  <2>2. ASSUME NEW r, room' = [room EXCEPT ![m] = r], r.seen = Seen(m) \union Brought(f),
               acks' = [acks EXCEPT ![P][m] = Append(@, Cardinality(r.seen))]
        PROVE  <1>6!1 /\ <1>6!2
    <3>1. \A k \in Node : room'[k] = IF k = m THEN r ELSE room[k]
      BY <2>2 DEF LogInv, RoomsSound
    <3>2. \A k \in Node : acks'[P][k] = IF k = m THEN Append(acks[P][m], Cardinality(r.seen)) ELSE acks[P][k]
      BY <1>2, <2>2 DEF LogInv, LinksTyped
    <3> QED BY <2>2, <3>1, <3>2 DEF Seen
  <2> QED BY <1>4, <2>1, <2>2
<1>7. Brought(f) \subseteq Seen(P)
  BY <1>1, <1>2, WithinKept DEF Behind
<1>8. NoneForgotten /\ Seen(P)' = Seen(P) /\ Seen(m)' \subseteq Seen(P)
  BY <1>2, <1>6, <1>7 DEF NoneForgotten, Behind
<1>9. OneLead' /\ OneSender'
  BY <1>1, <1>4, <1>5 DEF PrimaryInv, OneLead, OneSender
<1>10. ASSUME NEW k \in Node \ {P, m} PROVE Behind(k)'
  <2>1. Behind(k) /\ k \in Node /\ m # P
    BY DEF PrimaryInv
  <2>2. queue'[P][k] = queue[P][k] /\ queue'[k][P] = queue[k][P] /\ Seen(k)' = Seen(k)
    BY <1>2, <1>5, <1>6, <2>1
  <2> QED BY <1>4, <1>6, <1>8, <2>1, <2>2 DEF Behind
<1>11. Behind(m)'
  <2>1. queue'[P][m] = Tail(q) /\ queue'[m][P] = queue[m][P]
    BY <1>2, <1>5
  <2>2. Within(Tail(q), Seen(P)')
    BY <1>1, <1>2, <1>8, WithinKept DEF Behind
  <2>3. Covers(Tail(q), Seen(m)')
    <3>1. Covers(q, Seen(m))
      BY <1>2 DEF Behind
    <3>2. Covers(Tail(q), Seen(m) \union Brought(f)) /\ Covers(Tail(q), Seen(m))
      BY <1>1, <1>2, <3>1, CoversKept
    <3> QED BY <1>6, <3>2
  <2>4. Acknowledged(acks'[P][m], Seen(m)')
    <3>1. acks[P][m] \in Seq(Nat)
      BY <1>2, StableFacts
    <3>2. IsFiniteSet(Seen(m)')
      BY DEF LogInv, RoomsSound, SoundRoom, Seen
    <3>3. /\ Cardinality(Seen(m)) \in Nat /\ Cardinality(Seen(m)') \in Nat
          /\ Cardinality(Seen(m)) <= Cardinality(Seen(m)')
      BY <1>8, <3>2, CountGrows DEF NoneForgotten
    <3>4. \A k \in Range(acks[P][m]) : k <= Cardinality(Seen(m)')
      <4>1. Range(acks[P][m]) \subseteq Nat
        BY <3>1 DEF Range
      <4> QED BY <1>2, <3>3, <4>1 DEF Behind, Acknowledged
    <3>5. CASE acks'[P][m] = acks[P][m]
      BY <3>4, <3>5 DEF Acknowledged
    <3>6. CASE acks'[P][m] = Append(acks[P][m], Cardinality(Seen(m)'))
      <4>1. Range(acks'[P][m]) \subseteq Range(acks[P][m]) \union {Cardinality(Seen(m)')}
        <5> DEFINE s == acks[P][m]
                   c == Cardinality(Seen(m)')
        <5>1. s \in Seq(Nat) /\ c \in Nat /\ acks'[P][m] = Append(s, c)
          BY <3>1, <3>3, <3>6
        <5> HIDE DEF s, c
        <5>2. /\ DOMAIN Append(s, c) = 1 .. Len(s) + 1 /\ DOMAIN s = 1 .. Len(s) /\ Len(s) \in Nat
              /\ \A k \in 1 .. Len(s) : Append(s, c)[k] = s[k]
              /\ Append(s, c)[Len(s) + 1] = c
          BY <5>1
        <5>3. \A k \in 1 .. Len(s) + 1 : k \in 1 .. Len(s) \/ k = Len(s) + 1
          BY <5>2
        <5>4. Range(Append(s, c)) \subseteq Range(s) \union {c}
          BY <5>2, <5>3 DEF Range
        <5> QED BY <5>1, <5>4 DEF s, c
      <4> QED BY <3>3, <3>4, <4>1 DEF Acknowledged
    <3> QED BY <1>6, <3>5, <3>6
  <2>5. Seen(m) \subseteq Seen(m)'
    BY <1>8 DEF NoneForgotten
  <2> QED BY <1>2, <1>4, <1>8, <2>1, <2>2, <2>3, <2>4, <2>5, BehindKept DEF Behind
<1> QED BY <1>8, <1>9, <1>10, <1>11 DEF PrimaryInv

(* A step that touches no replica keeps the cluster stable if it keeps its *)
(* queues, acks and watermarks in order.                                   *)
LEMMA QuietStep ==
  ASSUME PrimaryInv, OneLead', UNCHANGED <<room, stray>>,
         \A n \in Node \ {P} : \A m \in Node : HeadsOnly(queue'[n][m]),
         \A m \in Node \ {P} : /\ Within(queue'[P][m], Seen(P))
                               /\ Covers(queue'[P][m], Seen(m))
                               /\ Reported(queue'[m][P], Seen(m))
                               /\ Acknowledged(acks'[P][m], Seen(m))
                               /\ watermark'[P][m] <= Cardinality(Seen(m))
  PROVE  PrimaryInv' /\ NoneForgotten
<1>1. \A n : Seen(n)' = Seen(n)
  BY DEF Seen
<1>2. OneSender'
  BY DEF PrimaryInv, OneSender
<1>3. \A m \in Node \ {P} : Behind(m)'
  BY <1>1 DEF PrimaryInv, Behind
<1> QED BY <1>1, <1>2, <1>3 DEF PrimaryInv, NoneForgotten

(* A node reads a follower's report of its head.                           *)
LEMMA HeadsRead ==
  ASSUME LogInv, LogInv', EpochTypes, PrimaryInv,
         NEW n \in Node \ {P}, NEW m \in Node \ {n}, Deliver(n, m)
  PROVE  PrimaryInv' /\ NoneForgotten
<1> DEFINE q == queue[n][m]
           f == Head(q)
           rest == [queue EXCEPT ![n][m] = Tail(@)]
<1>1. q # <<>> /\ Receive(n, m, f, rest, TRUE) /\ UNCHANGED <<relayDown, stray>>
  BY DEF Deliver
<1>2. /\ P \in Node /\ q \in Seq(SoundFrame) /\ HeadsOnly(q) /\ SoundRoom(room[P])
      /\ \A k \in Node : Leads(k) <=> k = P
  BY StableFacts, OnlyPrimaryLeads DEF PrimaryInv, OneSender
<1>3. f \in SoundFrame /\ f.kind = "FollowerHeads" /\ f \in Range(q) /\ HeadsOnly(Tail(q))
  BY <1>1, <1>2, ReadFacts, HeadsKept
<1>4. f.head \in Nat
  BY <1>3, FrameFields
<1>5. ApplyFollowerHeads(n, m, f, rest)
  BY <1>1, <1>3 DEF Receive, ApplyReplicate, ApplyReplicateSnapshot, ApplyReplicateMeta
<1>6. UNCHANGED <<room, acks, link>>
  BY <1>5 DEF ApplyFollowerHeads
<1>7. OneLead'
  BY <1>1, <1>6 DEF PrimaryInv, OneLead
<1>8. \A a, b \in Node : rest[a][b] = IF a = n /\ b = m THEN Tail(q) ELSE queue[a][b]
  BY DEF LogInv, WiresSound, Wires
<1>9. rest \in [Node -> [Node -> Seq(SoundFrame)]]
  <2>1. Tail(q) \in Seq(SoundFrame)
    BY <1>1, <1>2, ReadFacts
  <2> QED BY <2>1 DEF LogInv, WiresSound, Wires
<1> HIDE DEF rest
<1>10. /\ \A a \in Node \ {P} : \A b \in Node : HeadsOnly(rest[a][b])
       /\ \A k \in Node \ {P} : /\ rest[P][k] = queue[P][k]
                                /\ Reported(rest[k][P], Seen(k))
  <2>1. \A a \in Node \ {P} : \A b \in Node : HeadsOnly(rest[a][b])
    BY <1>3, <1>8 DEF PrimaryInv, OneSender
  <2>2. ASSUME NEW k \in Node \ {P} PROVE rest[P][k] = queue[P][k] /\ Reported(rest[k][P], Seen(k))
    <3>1. queue[k][P] \in Seq(SoundFrame) /\ Reported(queue[k][P], Seen(k))
      BY <1>2, StableFacts DEF PrimaryInv, Behind
    <3>2. queue[k][P] # <<>> => Reported(Tail(queue[k][P]), Seen(k))
      BY <3>1, ReportedKept
    <3> QED BY <1>1, <1>2, <1>8, <3>1, <3>2
  <2> QED BY <2>1, <2>2
<1>11. CASE Leads(m) /\ room[m] # EmptyRoom
  <2> DEFINE floor == IF f.head < RoomHead(room[m]) THEN f.head ELSE RoomHead(room[m])
             frames == CatchUpFrames(m, floor)
  <2>1. /\ m = P
        /\ watermark' = [watermark EXCEPT ![P][n] = floor]
        /\ queue' = [rest EXCEPT ![P][n] = SendCatchUp(@, frames)]
    BY <1>2, <1>5, <1>11 DEF ApplyFollowerHeads
  <2>2. f.head <= Cardinality(Seen(n))
    BY <1>3, <2>1 DEF PrimaryInv, Behind, Reported
  <2>3. floor \in Nat /\ floor <= Cardinality(Seen(n))
    <3>1. RoomHead(room[m]) \in Nat /\ Cardinality(Seen(n)) \in Nat
      BY <1>2, <2>1, StableFacts, FS_CardinalityType
    <3> QED BY <1>4, <2>2, <3>1
  <2> HIDE DEF floor
  <2>4. \A a, b \in Node : queue'[a][b] = IF a = P /\ b = n THEN SendCatchUp(queue[P][n], frames)
                                           ELSE rest[a][b]
    <3>1. rest[P][n] = queue[P][n]
      BY <1>10
    <3> QED BY <1>2, <1>9, <2>1, <3>1
  <2>5. \A k \in Node : watermark'[P][k] = IF k = n THEN floor ELSE watermark[P][k]
    BY <1>2, <2>1 DEF LogInv, LinksTyped
  <2>6. /\ Within(SendCatchUp(queue[P][n], frames), Seen(P))
        /\ Covers(SendCatchUp(queue[P][n], frames), Seen(n))
    <3>1. queue[P][n] \in Seq(SoundFrame) /\ Behind(n) /\ frames = CatchUpFrames(P, floor)
      BY <1>2, <2>1, StableFacts DEF PrimaryInv
    <3> HIDE DEF frames
    <3> QED BY <1>2, <2>3, <3>1, CatchUpKept DEF Behind
  <2> HIDE DEF frames
  <2>7. \A a \in Node \ {P} : \A b \in Node : HeadsOnly(queue'[a][b])
    BY <1>10, <2>4
  <2>8. ASSUME NEW k \in Node \ {P}
        PROVE  /\ Within(queue'[P][k], Seen(P)) /\ Covers(queue'[P][k], Seen(k))
               /\ Reported(queue'[k][P], Seen(k)) /\ Acknowledged(acks'[P][k], Seen(k))
               /\ watermark'[P][k] <= Cardinality(Seen(k))
    <3>1. Behind(k)
      BY DEF PrimaryInv
    <3>2. Within(queue'[P][k], Seen(P)) /\ Covers(queue'[P][k], Seen(k))
      BY <1>2, <1>10, <2>4, <2>6, <3>1 DEF Behind
    <3>3. Reported(queue'[k][P], Seen(k))
      BY <1>2, <1>10, <2>4
    <3> QED BY <1>6, <2>3, <2>5, <3>1, <3>2, <3>3 DEF Behind
  <2> QED BY <1>1, <1>6, <1>7, <2>7, <2>8, QuietStep
<1>12. CASE ~(Leads(m) /\ room[m] # EmptyRoom)
  <2>1. queue' = rest /\ watermark' = watermark
    BY <1>5, <1>12 DEF ApplyFollowerHeads
  <2>2. \A a \in Node \ {P} : \A b \in Node : HeadsOnly(queue'[a][b])
    BY <1>10, <2>1
  <2>3. \A k \in Node \ {P} :
           /\ Within(queue'[P][k], Seen(P)) /\ Covers(queue'[P][k], Seen(k))
           /\ Reported(queue'[k][P], Seen(k)) /\ Acknowledged(acks'[P][k], Seen(k))
           /\ watermark'[P][k] <= Cardinality(Seen(k))
    BY <1>6, <1>10, <2>1 DEF PrimaryInv, Behind
  <2> QED BY <1>1, <1>6, <1>7, <2>2, <2>3, QuietStep
<1> QED BY <1>11, <1>12

(* The primary takes an ack a follower wrote.                              *)
LEMMA AckBehind ==
  ASSUME LogInv, LogInv', PrimaryInv,
         NEW n \in Node, NEW m \in Node \ {n}, RecordReplicaAck(n, m)
  PROVE  PrimaryInv' /\ NoneForgotten
<1> DEFINE a == acks[n][m]
           w == IF Head(a) > watermark[n][m] THEN Head(a) ELSE watermark[n][m]
<1>1. /\ a # <<>>
      /\ watermark' = [watermark EXCEPT ![n] =
                         [watermark[n] EXCEPT ![m] = IF Head(a) > @ THEN Head(a) ELSE @]]
      /\ acks' = [acks EXCEPT ![n][m] = Tail(@)]
      /\ UNCHANGED <<room, relayDown, link, stray, queue>>
  BY DEF RecordReplicaAck, linkVars
<1>2. /\ P \in Node /\ a \in Seq(Nat)
      /\ acks \in [Node -> [Node -> Seq(Nat)]] /\ watermark \in [Node -> [Node -> Nat]]
  BY StableFacts DEF LogInv, LinksTyped
<1>3. \A k \in Node : watermark'[P][k] = IF P = n /\ k = m THEN w ELSE watermark[P][k]
  BY <1>1, <1>2
<1>4. \A k \in Node : acks'[P][k] = IF P = n /\ k = m THEN Tail(a) ELSE acks[P][k]
  BY <1>1, <1>2
<1>5. Head(a) \in Range(a) /\ Range(Tail(a)) \subseteq Range(a)
  BY <1>1, <1>2, ReadFacts
<1> HIDE DEF a
<1>6. ASSUME NEW k \in Node \ {P}
      PROVE  /\ Within(queue'[P][k], Seen(P)) /\ Covers(queue'[P][k], Seen(k))
             /\ Reported(queue'[k][P], Seen(k)) /\ Acknowledged(acks'[P][k], Seen(k))
             /\ watermark'[P][k] <= Cardinality(Seen(k))
  <2>1. Behind(k)
    BY DEF PrimaryInv
  <2>2. CASE P = n /\ k = m
    <3>1. Acknowledged(a, Seen(k)) /\ watermark[P][k] <= Cardinality(Seen(k))
      BY <2>1, <2>2 DEF Behind, a
    <3>2. Acknowledged(Tail(a), Seen(k)) /\ Head(a) <= Cardinality(Seen(k))
      BY <1>5, <3>1 DEF Acknowledged
    <3>3. w <= Cardinality(Seen(k))
      BY <2>2, <3>1, <3>2
    <3> QED BY <1>1, <1>3, <1>4, <2>1, <2>2, <3>2, <3>3 DEF Behind
  <2>3. CASE ~(P = n /\ k = m)
    BY <1>1, <1>3, <1>4, <2>1, <2>3 DEF Behind
  <2> QED BY <2>2, <2>3
<1>7. OneLead' /\ \A k \in Node \ {P} : \A b \in Node : HeadsOnly(queue'[k][b])
  BY <1>1 DEF PrimaryInv, OneLead, OneSender
<1> QED BY <1>1, <1>6, <1>7, QuietStep

(* A dial succeeds: the primary catches the follower up, a follower only   *)
(* reports its head.                                                       *)
LEMMA PeerUpBehind ==
  ASSUME LogInv, LogInv', EpochTypes, PrimaryInv,
         NEW n \in Node, NEW m \in Node \ {n}, PeerUp(n, m)
  PROVE  PrimaryInv' /\ NoneForgotten
<1> DEFINE down == relayDown[n] \ {m}
           frames == IF EffectivePrimary(n, down) = n /\ room[n] # EmptyRoom
                     THEN CatchUpFrames(n, watermark[n][m]) ELSE {}
           heads == [kind |-> "FollowerHeads", head |-> RoomHead(room[n])]
           q == queue[n][m]
           sent == SendCatchUp(q, frames)
<1>1. /\ link' = [link EXCEPT ![n][m] = "up"]
      /\ relayDown' = [relayDown EXCEPT ![n] = down]
      /\ queue' = [queue EXCEPT ![n][m] = TrySend(SendCatchUp(@, frames), heads)]
      /\ UNCHANGED <<room, stray, acks, watermark>>
  BY DEF PeerUp
<1>2. /\ P \in Node /\ q \in Seq(SoundFrame) /\ SoundRoom(room[n]) /\ SoundRoom(room[P])
      /\ RoomHead(room[n]) = Cardinality(Seen(n)) /\ Cardinality(Seen(n)) \in Nat
      /\ watermark[n][m] \in Nat
  BY StableFacts, FS_CardinalityType
<1>3. \A a, b \in Node : queue'[a][b] = IF a = n /\ b = m THEN TrySend(sent, heads) ELSE queue[a][b]
  BY <1>1 DEF LogInv, WiresSound, Wires
<1>4. heads \in SoundFrame /\ heads.kind = "FollowerHeads" /\ heads.head = Cardinality(Seen(n))
      /\ Brought(heads) = {}
  BY <1>2, FrameBuilt DEF Brought
<1>5. OneLead'
  <2>1. \A k \in Node : P \notin relayDown'[k]
    BY <1>1 DEF PrimaryInv, OneLead, LogInv, LinksTyped
  <2>2. \A k \in Node : link'[k][P] # "closed"
    BY <1>1, <1>2 DEF PrimaryInv, OneLead, LogInv, LinksTyped
  <2> QED BY <2>1, <2>2 DEF OneLead
<1>6. n # P => frames = {}
  <2>1. P \notin down
    BY DEF PrimaryInv, OneLead
  <2>2. EffectivePrimary(n, down) = P
    BY <2>1, PrimaryLeads
  <2> QED BY <2>2
<1>7. frames = {} \/ frames = CatchUpFrames(n, watermark[n][m])
  OBVIOUS
<1>8. sent \in Seq(SoundFrame)
  <2>1. frames \subseteq SoundFrame
    BY <1>2, <1>7, CatchUpFramesSound
  <2>2. Len(q) <= FrameCapacity
    BY DEF LogInv, WiresSound, Bounded
  <2> HIDE DEF frames
  <2> QED BY <1>2, <2>1, <2>2, SendCatchUpBounded
<1> HIDE DEF frames, heads
<1>9. CASE n = P
  <2>1. Behind(m) /\ m \in Node \ {P}
    BY <1>9 DEF PrimaryInv
  <2>2. Within(q, Seen(n)) /\ Covers(q, Seen(m)) /\ Seen(m) \subseteq Seen(n)
    BY <1>9, <2>1 DEF Behind
  <2>3. Within(sent, Seen(n)) /\ Covers(sent, Seen(m))
    BY <1>2, <1>7, <2>2, CatchUpKept
  <2> HIDE DEF sent
  <2>4. Within(TrySend(sent, heads), Seen(n))
    BY <1>4, <1>8, <2>3, WithinKept
  <2>5. Covers(TrySend(sent, heads), Seen(m))
    BY <1>4, <1>8, <2>3, CoversKept
  <2>6. \A k \in Node \ {P} : \A b \in Node : HeadsOnly(queue'[k][b])
    BY <1>3, <1>9 DEF PrimaryInv, OneSender
  <2>7. ASSUME NEW k \in Node \ {P}
        PROVE  /\ Within(queue'[P][k], Seen(P)) /\ Covers(queue'[P][k], Seen(k))
               /\ Reported(queue'[k][P], Seen(k)) /\ Acknowledged(acks'[P][k], Seen(k))
               /\ watermark'[P][k] <= Cardinality(Seen(k))
    <3>1. Behind(k) /\ queue'[k][P] = queue[k][P]
      BY <1>2, <1>3, <1>9 DEF PrimaryInv
    <3>2. Within(queue'[P][k], Seen(P)) /\ Covers(queue'[P][k], Seen(k))
      BY <1>2, <1>3, <1>9, <2>4, <2>5, <3>1 DEF Behind
    <3> QED BY <1>1, <3>1, <3>2 DEF Behind
  <2> QED BY <1>1, <1>5, <2>6, <2>7, QuietStep
<1>10. CASE n # P
  <2>1. sent = q /\ HeadsOnly(q)
    BY <1>6, <1>10 DEF SendCatchUp, PrimaryInv, OneSender
  <2>2. HeadsOnly(TrySend(q, heads))
    BY <1>2, <1>4, <2>1, HeadsKept
  <2>3. \A k \in Node \ {P} : \A b \in Node : HeadsOnly(queue'[k][b])
    BY <1>3, <2>1, <2>2 DEF PrimaryInv, OneSender
  <2>4. ASSUME NEW k \in Node \ {P}
        PROVE  /\ Within(queue'[P][k], Seen(P)) /\ Covers(queue'[P][k], Seen(k))
               /\ Reported(queue'[k][P], Seen(k)) /\ Acknowledged(acks'[P][k], Seen(k))
               /\ watermark'[P][k] <= Cardinality(Seen(k))
    <3>1. Behind(k) /\ queue'[P][k] = queue[P][k]
      BY <1>2, <1>3, <1>10 DEF PrimaryInv
    <3>2. Reported(queue'[k][P], Seen(k))
      <4>1. CASE k = n /\ m = P
        <5>1. Reported(q, Seen(n)) /\ queue'[k][P] = TrySend(q, heads)
          BY <1>3, <2>1, <3>1, <4>1 DEF Behind
        <5>2. heads.head <= Cardinality(Seen(n))
          BY <1>2, <1>4
        <5>3. Reported(TrySend(q, heads), Seen(n))
          BY <1>2, <1>4, <5>1, <5>2, ReportedKept
        <5> QED BY <4>1, <5>1, <5>3
      <4>2. CASE ~(k = n /\ m = P)
        BY <1>2, <1>3, <3>1, <4>2 DEF Behind
      <4> QED BY <4>1, <4>2
    <3> QED BY <1>1, <3>1, <3>2 DEF Behind
  <2> QED BY <1>1, <1>5, <2>3, <2>4, QuietStep
<1> QED BY <1>9, <1>10

(* A socket to a follower is lost with part of the queue.                  *)
LEMMA SocketLostBehind ==
  ASSUME LogInv, LogInv', PrimaryInv, NEW n \in Node, NEW m \in Node \ {n, P},
         NEW k \in 0 .. Len(queue[n][m]), SocketLost(n, m, k), stray' = stray
  PROVE  PrimaryInv' /\ NoneForgotten
<1> DEFINE q == queue[n][m]
           left == SubSeq(q, k + 1, Len(q))
<1>1. /\ link' = [link EXCEPT ![n][m] = "down"]
      /\ relayDown' = [relayDown EXCEPT ![n] = @ \union {m}]
      /\ queue' = [queue EXCEPT ![n][m] = SubSeq(@, k + 1, Len(@))]
      /\ acks' = [acks EXCEPT ![n][m] = <<>>]
      /\ UNCHANGED <<room, watermark>>
  BY DEF SocketLost
<1>2. P \in Node /\ q \in Seq(SoundFrame) /\ acks \in [Node -> [Node -> Seq(Nat)]]
  BY StableFacts DEF LogInv, LinksTyped
<1>3. \A a, b \in Node : queue'[a][b] = IF a = n /\ b = m THEN left ELSE queue[a][b]
  BY <1>1 DEF LogInv, WiresSound, Wires
<1>4. \A a, b \in Node : acks'[a][b] = IF a = n /\ b = m THEN <<>> ELSE acks[a][b]
  BY <1>1, <1>2
<1>5. OneLead'
  <2>1. \A a \in Node : P \notin relayDown'[a]
    BY <1>1 DEF PrimaryInv, OneLead, LogInv, LinksTyped
  <2>2. \A a \in Node : link'[a][P] # "closed"
    BY <1>1, <1>2 DEF PrimaryInv, OneLead, LogInv, LinksTyped
  <2> QED BY <2>1, <2>2 DEF OneLead
<1>6. HeadsOnly(q) => HeadsOnly(left)
  BY <1>2, HeadsKept
<1>7. n = P => Within(left, Seen(P)) /\ Covers(left, Seen(m))
  <2> SUFFICES ASSUME n = P PROVE Within(left, Seen(P)) /\ Covers(left, Seen(m))
    OBVIOUS
  <2>1. Within(q, Seen(P)) /\ Covers(q, Seen(m))
    BY DEF PrimaryInv, Behind
  <2> QED BY <1>2, <2>1, WithinKept, CoversKept
<1> HIDE DEF left, q
<1>8. \A a \in Node \ {P} : \A b \in Node : HeadsOnly(queue'[a][b])
  BY <1>3, <1>6 DEF PrimaryInv, OneSender, q
<1>9. ASSUME NEW c \in Node \ {P}
      PROVE  /\ Within(queue'[P][c], Seen(P)) /\ Covers(queue'[P][c], Seen(c))
             /\ Reported(queue'[c][P], Seen(c)) /\ Acknowledged(acks'[P][c], Seen(c))
             /\ watermark'[P][c] <= Cardinality(Seen(c))
  <2>1. Behind(c) /\ queue'[c][P] = queue[c][P]
    BY <1>2, <1>3 DEF PrimaryInv
  <2>2. Within(queue'[P][c], Seen(P)) /\ Covers(queue'[P][c], Seen(c))
    BY <1>2, <1>3, <1>7, <2>1 DEF Behind
  <2>3. Acknowledged(acks'[P][c], Seen(c))
    <3>1. Acknowledged(<<>>, Seen(c))
      BY DEF Acknowledged, Range
    <3> QED BY <1>2, <1>4, <2>1, <3>1 DEF Behind
  <2> QED BY <1>1, <2>1, <2>2, <2>3 DEF Behind
<1> QED BY <1>1, <1>5, <1>8, <1>9, QuietStep

(* A follower restarts with its disk intact.                               *)
LEMMA RestartBehind ==
  ASSUME LogInv, LogInv', PrimaryInv, NEW n \in Node \ {P}, Restart(n)
  PROVE  PrimaryInv' /\ NoneForgotten
<1>1. /\ room' = [room EXCEPT ![n] = room[n]]
      /\ relayDown' = [relayDown EXCEPT ![n] = {}]
      /\ link' = [a \in Node |-> [b \in Node |->
                   IF a = n THEN "down"
                   ELSE IF b = n /\ link[a][b] = "up" THEN "closed" ELSE link[a][b]]]
      /\ queue' = [queue EXCEPT ![n] = [m \in Node |-> <<>>]]
      /\ stray' = [a \in Node |-> [stray[a] EXCEPT ![n] = <<>>]]
      /\ acks' = [acks EXCEPT ![n] = [m \in Node |-> <<>>]]
      /\ watermark' = [watermark EXCEPT ![n] = [m \in Node |-> 0]]
  BY DEF Restart, Reboot
<1>2. P \in Node
  BY StableFacts
<1>3. room' = room
  BY <1>1 DEF LogInv, RoomsSound
<1>4. stray' = stray
  BY <1>1 DEF PrimaryInv, OneSender
<1>5. OneLead'
  <2>1. \A a \in Node : P \notin relayDown'[a]
    BY <1>1 DEF PrimaryInv, OneLead, LogInv, LinksTyped
  <2>2. \A a \in Node : link'[a][P] # "closed"
    BY <1>1, <1>2 DEF PrimaryInv, OneLead
  <2> QED BY <2>1, <2>2 DEF OneLead
<1>6. \A a, b \in Node : queue'[a][b] = IF a = n THEN <<>> ELSE queue[a][b]
  BY <1>1 DEF LogInv, WiresSound, Wires
<1>7. \A b \in Node : acks'[P][b] = acks[P][b] /\ watermark'[P][b] = watermark[P][b]
  BY <1>1, <1>2 DEF LogInv, LinksTyped
<1>8. HeadsOnly(<<>>) /\ \A S : Reported(<<>>, S)
  BY DEF HeadsOnly, Reported, Range
<1>9. \A a \in Node \ {P} : \A b \in Node : HeadsOnly(queue'[a][b])
  BY <1>6, <1>8 DEF PrimaryInv, OneSender
<1>10. ASSUME NEW c \in Node \ {P}
       PROVE  /\ Within(queue'[P][c], Seen(P)) /\ Covers(queue'[P][c], Seen(c))
              /\ Reported(queue'[c][P], Seen(c)) /\ Acknowledged(acks'[P][c], Seen(c))
              /\ watermark'[P][c] <= Cardinality(Seen(c))
  <2>1. Behind(c) /\ queue'[P][c] = queue[P][c]
    BY <1>2, <1>6 DEF PrimaryInv
  <2>2. Reported(queue'[c][P], Seen(c))
    BY <1>2, <1>6, <1>8, <2>1 DEF Behind
  <2> QED BY <1>7, <2>1, <2>2 DEF Behind
<1> QED BY <1>3, <1>4, <1>5, <1>9, <1>10, QuietStep
-----------------------------------------------------------------------------
(* Every step of a stable cluster keeps the followers behind the primary   *)
(* and takes no op from a replica.                                         *)
LEMMA PrimaryStep ==
  ASSUME StablePrimary, LogInv, LogInv', EpochTypes, PrimaryInv, [Next]_vars
  PROVE  PrimaryInv' /\ NoneForgotten
<1>1. ASSUME NEW n \in Node, NEW batch \in Batch, ClientWrite(n, batch)
      PROVE  PrimaryInv' /\ NoneForgotten
  BY <1>1, WriteBehind
<1>2. ASSUME UNCHANGED <<room, relayDown, link, stray, queue, acks, watermark>>
      PROVE  PrimaryInv' /\ NoneForgotten
  BY <1>2 DEF PrimaryInv, NoneForgotten, OneLead, OneSender, Behind, Seen
<1>3. ASSUME NEW n \in Node, NEW batch \in Batch, ClientResend(n, batch)
      PROVE  PrimaryInv' /\ NoneForgotten
  BY <1>2, <1>3 DEF ClientResend, linkVars
<1>4. ASSUME NEW n \in Node, NEW entry \in pending[n], ClientDisconnect(n, entry)
      PROVE  PrimaryInv' /\ NoneForgotten
  BY <1>2, <1>4 DEF ClientDisconnect, linkVars
<1>5. ASSUME NEW n \in Node, NEW m \in Node \ {n}, Deliver(n, m)
      PROVE  PrimaryInv' /\ NoneForgotten
  <2>1. CASE n = P
    BY <1>5, <2>1, FollowerReads
  <2>2. CASE n # P
    BY <1>5, <2>2, HeadsRead
  <2> QED BY <2>1, <2>2
<1>6. ASSUME NEW n \in Node, NEW m \in Node \ {n}, DeliverStray(n, m) \/ DropStray(n, m)
      PROVE  PrimaryInv' /\ NoneForgotten
  BY <1>6, StableFacts DEF DeliverStray, DropStray
<1>7. ASSUME NEW n \in Node, NEW m \in Node \ {n}, RecordReplicaAck(n, m)
      PROVE  PrimaryInv' /\ NoneForgotten
  BY <1>7, AckBehind
<1>8. ASSUME NEW n \in Node, NEW m \in Node \ {n}, PeerUp(n, m)
      PROVE  PrimaryInv' /\ NoneForgotten
  BY <1>8, PeerUpBehind
<1>9. ASSUME NEW n \in Node, NEW m \in Node \ {n}, PeerDown(n, m) \/ PeerClosed(n, m)
      PROVE  PrimaryInv' /\ NoneForgotten
  <2>1. m # P
    BY <1>9 DEF PeerDown, PeerClosed, StablePrimary, PrimaryInv, OneLead
  <2>2. PICK k \in 0 .. Len(queue[n][m]) : SocketLost(n, m, k) /\ stray' = stray
    BY <1>9 DEF PeerDown, PeerClosed, StablePrimary
  <2> QED BY <2>1, <2>2, SocketLostBehind
<1>10. ASSUME NEW n \in Node, NEW m \in Node \ {n}, DialFailed(n, m)
       PROVE  PrimaryInv' /\ NoneForgotten
  <2>1. m # P
    BY <1>10 DEF DialFailed, StablePrimary
  <2>2. /\ UNCHANGED <<room, link, stray, queue, acks, watermark>>
        /\ relayDown' = [relayDown EXCEPT ![n] = @ \union {m}]
    BY <1>10 DEF DialFailed
  <2>3. OneLead'
    BY <2>1, <2>2 DEF PrimaryInv, OneLead, LogInv, LinksTyped
  <2> QED BY <2>2, <2>3 DEF PrimaryInv, NoneForgotten, OneSender, Behind, Seen
<1>11. ASSUME NEW n \in Node, Restart(n)
       PROVE  PrimaryInv' /\ NoneForgotten
  <2>1. n # P
    BY <1>11 DEF Restart, StablePrimary
  <2> QED BY <1>11, <2>1, RestartBehind
<1>12. ASSUME NEW n \in Node, RestartWiped(n)
       PROVE  PrimaryInv' /\ NoneForgotten
  BY <1>12 DEF RestartWiped, StablePrimary
<1>13. CASE UNCHANGED vars
  BY <1>2, <1>13 DEF vars, linkVars
<1> QED
  BY <1>1, <1>3, <1>4, <1>5, <1>6, <1>7, <1>8, <1>9, <1>10, <1>11, <1>12, <1>13 DEF Next

(* A new cluster has nothing in flight.                                    *)
LEMMA PrimaryInit == Init => PrimaryInv
<1> SUFFICES ASSUME Init PROVE PrimaryInv
  OBVIOUS
<1>1. P \in Node
  BY PrimaryLeads
<1>2. \A n, m \in Node : queue[n][m] = <<>> /\ acks[n][m] = <<>> /\ watermark[n][m] = 0
  BY DEF Init
<1>3. \A n \in Node : Seen(n) = {}
  BY DEF Init, Seen, EmptyRoom
<1>4. OneLead
  BY <1>1 DEF Init, OneLead
<1>5. OneSender
  BY <1>2 DEF Init, OneSender, HeadsOnly, Range
<1>6. ASSUME NEW m \in Node \ {P} PROVE Behind(m)
  <2>1. queue[P][m] = <<>> /\ queue[m][P] = <<>> /\ acks[P][m] = <<>> /\ watermark[P][m] = 0
    BY <1>1, <1>2
  <2>2. Seen(m) = {} /\ Seen(P) = {} /\ 0 <= Cardinality({})
    BY <1>1, <1>3, FS_EmptySet
  <2> QED BY <2>1, <2>2 DEF Behind, Within, Covers, Reported, Acknowledged, Range
<1> QED BY <1>4, <1>5, <1>6 DEF PrimaryInv

(* A stable cluster stays so, step by step.                                *)
LEMMA PrimaryInvariant ==
  ASSUME StablePrimary
  PROVE  Spec => [](LogInv /\ EpochIInv /\ PrimaryInv)
<1>1. LogInv /\ EpochIInv /\ PrimaryInv /\ LogInv' /\ [Next]_vars => PrimaryInv'
  BY PrimaryStep DEF EpochIInv
<1> QED BY <1>1, PrimaryInit, LogInvariant, PTL DEF Spec

(* The follower a stable primary credits with its whole head holds exactly *)
(* the primary's ops, however often its link dropped, frames were lost on  *)
(* the way or by a full queue, and the follower restarted: comparing       *)
(* counts is as good as comparing sets (replication.rs record_ack,         *)
(* registry.rs apply_replicate and on_follower_heads).                     *)
THEOREM FullWatermark ==
  ASSUME StablePrimary
  PROVE  Spec => []FullWatermarkIsIdentical
<1>1. LogInv /\ PrimaryInv => FullWatermarkIsIdentical
  <2> SUFFICES ASSUME LogInv, PrimaryInv, NEW m \in Node \ {P}, watermark[P][m] >= RoomHead(room[P])
               PROVE  Seen(m) = Seen(P)
    BY DEF FullWatermarkIsIdentical, Seen, P
  <2>1. /\ P \in Node /\ RoomHead(room[P]) = Cardinality(Seen(P)) /\ watermark[P][m] \in Nat
        /\ IsFiniteSet(Seen(P)) /\ Seen(m) \subseteq Seen(P) /\ watermark[P][m] <= Cardinality(Seen(m))
    BY StableFacts DEF PrimaryInv, Behind
  <2>2. /\ Cardinality(Seen(m)) \in Nat /\ Cardinality(Seen(P)) \in Nat
        /\ Cardinality(Seen(m)) <= Cardinality(Seen(P))
    BY <2>1, CountGrows
  <2>3. Cardinality(Seen(m)) = Cardinality(Seen(P))
    BY <2>1, <2>2
  <2> QED BY <2>1, <2>3, FS_Subset
<1> QED BY <1>1, PrimaryInvariant, PTL

(* No step takes an op from a replica of a stable cluster: a snapshot the  *)
(* follower installs contains all it held when it reads it, though it was  *)
(* cut when the frame was queued (registry.rs apply_replicate_snapshot).   *)
THEOREM NothingForgotten ==
  ASSUME StablePrimary
  PROVE  Spec => NoOpForgotten
<1>1. LogInv /\ EpochIInv /\ PrimaryInv /\ LogInv' /\ [Next]_vars
         => [\A n \in Node : room[n].seen \subseteq room'[n].seen]_vars
  BY PrimaryStep DEF EpochIInv, NoneForgotten, Seen
<1> QED BY <1>1, PrimaryInvariant, PTL DEF Spec, NoOpForgotten
-----------------------------------------------------------------------------
(* What an Accepted is worth.  Acks are counts, so the promise rests on    *)
(* every follower taking the primary's ops in the primary's order, which a *)
(* frame lost on the way to it breaks for good.  A steady primary is a     *)
(* stable one whose followers do not restart, whose links to them hold,    *)
(* and whose clients send each op once; links between followers may drop.  *)
SteadyPrimary ==
    /\ StablePrimary
    /\ Crashable = {}
    /\ ~Resend
    /\ \A m \in Node : <<P, m>> \notin FlakyLink

(* No queue of the primary's has filled up.                                *)
RoomLeft == \A m \in Node : Len(queue[P][m]) < FrameCapacity

(* What a follower at `seen` holds after the first j frames of q.          *)
Upto(q, j, seen) == seen \union UNION {Brought(q[i]) : i \in 1 .. j}

(* Reading q brings a follower to everything in `top`.                     *)
Whole(q, seen, top) == top \subseteq Upto(q, Len(q), seen)

(* Reading q, a follower passes through the cut T: until it holds all of   *)
(* it, it holds nothing else.                                              *)
Tracks(q, seen, T) ==
    \A j \in 0 .. Len(q) : T \subseteq Upto(q, j, seen) \/ Upto(q, j, seen) \subseteq T

(* The primary leads in one generation, whose frames nobody fences.        *)
OneEpoch ==
    /\ seenEpoch[P] = led[P]
    /\ \A n \in Node : seenEpoch[n] <= led[P]
    /\ \A m \in Node : \A f \in Range(queue[P][m]) :
          f.kind # "FollowerHeads" => led[P] # 0 /\ f.epoch = led[P]

(* No link of the primary's is lost, and what a follower lacks is queued.  *)
Followed ==
    /\ \A m \in Node : link[P][m] # "closed"
    /\ \A m \in Node \ {P} :
          IF <<P, m>> \in Dialed THEN Whole(queue[P][m], Seen(m), Seen(P))
          ELSE Seen(m) = {} /\ link[P][m] = "down"

(* The primary as it was when it committed p: every follower passes        *)
(* through it.                                                             *)
CutOf(p, T) ==
    /\ T \subseteq Seen(P)
    /\ p.ops \subseteq T
    /\ Cardinality(T) = p.seq
    /\ \A m \in Node \ {P} : <<P, m>> \in Dialed => Tracks(queue[P][m], Seen(m), T)

(* Only the primary withholds acknowledgements, each for such a cut.       *)
CutsTracked ==
    /\ \A n \in Node \ {P} : pending[n] = {}
    /\ \A p \in pending[P] : \E T \in SUBSET Op : CutOf(p, T)

SteadyInv == OneEpoch /\ Followed /\ CutsTracked /\ AcceptedOnMajority
-----------------------------------------------------------------------------
(* A queue that only grew at its end.                                      *)
Extends(q, t) == Len(q) <= Len(t) /\ \A i \in 1 .. Len(q) : t[i] = q[i]

LEMMA SendExtends ==
  ASSUME NEW q \in Seq(SoundFrame), NEW f \in SoundFrame
  PROVE  Extends(q, TrySend(q, f))
<1>1. Len(q) \in Nat /\ Len(Append(q, f)) = Len(q) + 1
  BY AppendFacts
<1> QED BY <1>1, SendFacts DEF Extends

(* A follower that reads a frame goes on passing through the same cuts,    *)
(* and towards the same whole.                                             *)
LEMMA UptoRead ==
  ASSUME NEW q \in Seq(SoundFrame), q # <<>>, NEW seen
  PROVE  /\ \A T : Tracks(q, seen, T) => Tracks(Tail(q), seen \union Brought(Head(q)), T)
         /\ \A top : Whole(q, seen, top) => Whole(Tail(q), seen \union Brought(Head(q)), top)
<1> DEFINE more == seen \union Brought(Head(q))
<1>1. /\ Len(q) \in Nat \ {0} /\ Len(Tail(q)) = Len(q) - 1 /\ Head(q) = q[1]
      /\ \A i \in DOMAIN Tail(q) : Tail(q)[i] = q[i + 1]
      /\ DOMAIN Tail(q) = 1 .. Len(q) - 1
  BY ReadFacts
<1>2. ASSUME NEW j \in 0 .. Len(q) - 1 PROVE Upto(Tail(q), j, more) = Upto(q, j + 1, seen)
  <2>1. ASSUME NEW x, x \in UNION {Brought(Tail(q)[i]) : i \in 1 .. j}
        PROVE  x \in UNION {Brought(q[i]) : i \in 1 .. j + 1}
    <3>1. PICK i \in 1 .. j : x \in Brought(Tail(q)[i])
      BY <2>1
    <3>2. i \in DOMAIN Tail(q) /\ i + 1 \in 1 .. j + 1
      BY <1>1
    <3>3. x \in Brought(q[i + 1])
      BY <1>1, <3>1, <3>2
    <3> QED BY <3>2, <3>3
  <2>2. ASSUME NEW x, x \in UNION {Brought(q[i]) : i \in 1 .. j + 1}
        PROVE  x \in Brought(Head(q)) \union UNION {Brought(Tail(q)[i]) : i \in 1 .. j}
    <3>1. PICK i \in 1 .. j + 1 : x \in Brought(q[i])
      BY <2>2
    <3>2. CASE i = 1
      BY <1>1, <3>1, <3>2
    <3>3. CASE i # 1
      <4>1. i - 1 \in 1 .. j /\ i - 1 \in DOMAIN Tail(q) /\ (i - 1) + 1 = i
        BY <1>1, <3>3
      <4>2. Tail(q)[i - 1] = q[i]
        BY <1>1, <4>1
      <4> QED BY <3>1, <4>1, <4>2
    <3> QED BY <3>2, <3>3
  <2>3. Brought(Head(q)) \subseteq UNION {Brought(q[i]) : i \in 1 .. j + 1}
    <3>1. 1 \in 1 .. j + 1
      BY <1>1
    <3> QED BY <1>1, <3>1
  <2> QED BY <2>1, <2>2, <2>3 DEF Upto
<1>3. ASSUME NEW T, Tracks(q, seen, T) PROVE Tracks(Tail(q), more, T)
  <2>1. ASSUME NEW j \in 0 .. Len(Tail(q))
        PROVE  T \subseteq Upto(Tail(q), j, more) \/ Upto(Tail(q), j, more) \subseteq T
    <3>1. j \in 0 .. Len(q) - 1 /\ j + 1 \in 0 .. Len(q)
      BY <1>1
    <3> QED BY <1>2, <1>3, <3>1 DEF Tracks
  <2> QED BY <2>1 DEF Tracks
<1>4. ASSUME NEW top, Whole(q, seen, top) PROVE Whole(Tail(q), more, top)
  <2>1. Len(q) - 1 \in 0 .. Len(q) - 1 /\ (Len(q) - 1) + 1 = Len(q)
    BY <1>1
  <2>2. Upto(Tail(q), Len(Tail(q)), more) = Upto(q, Len(q), seen)
    BY <1>1, <1>2, <2>1
  <2> QED BY <1>4, <2>2 DEF Whole
<1> QED BY <1>3, <1>4

(* What is queued behind the whole of a cut cannot disturb it.             *)
LEMMA UptoSent ==
  ASSUME NEW q \in Seq(SoundFrame), NEW t \in Seq(SoundFrame), Extends(q, t), NEW seen
  PROVE  /\ \A T : Tracks(q, seen, T) /\ Whole(q, seen, T) => Tracks(t, seen, T)
         /\ \A top : Whole(q, seen, top) => Whole(t, seen, top)
<1>1. Len(q) \in Nat /\ Len(t) \in Nat /\ Len(q) <= Len(t) /\ \A i \in 1 .. Len(q) : t[i] = q[i]
  BY DEF Extends
<1>2. ASSUME NEW j \in 0 .. Len(q) PROVE Upto(t, j, seen) = Upto(q, j, seen)
  <2>1. \A i \in 1 .. j : t[i] = q[i]
    BY <1>1
  <2>2. {Brought(t[i]) : i \in 1 .. j} = {Brought(q[i]) : i \in 1 .. j}
    BY <2>1
  <2> QED BY <2>2 DEF Upto
<1>3. ASSUME NEW j \in Len(q) .. Len(t) PROVE Upto(q, Len(q), seen) \subseteq Upto(t, j, seen)
  <2>1. \A i \in 1 .. Len(q) : i \in 1 .. j /\ t[i] = q[i]
    BY <1>1
  <2> QED BY <2>1 DEF Upto
<1>4. ASSUME NEW T, Tracks(q, seen, T), Whole(q, seen, T) PROVE Tracks(t, seen, T)
  <2>1. ASSUME NEW j \in 0 .. Len(t)
        PROVE  T \subseteq Upto(t, j, seen) \/ Upto(t, j, seen) \subseteq T
    <3>1. CASE j <= Len(q)
      <4>1. j \in 0 .. Len(q)
        BY <1>1, <3>1
      <4> QED BY <1>2, <1>4, <4>1 DEF Tracks
    <3>2. CASE ~(j <= Len(q))
      <4>1. j \in Len(q) .. Len(t)
        BY <1>1, <3>2
      <4> QED BY <1>3, <1>4, <4>1 DEF Whole
    <3> QED BY <3>1, <3>2
  <2> QED BY <2>1 DEF Tracks
<1>5. ASSUME NEW top, Whole(q, seen, top) PROVE Whole(t, seen, top)
  <2>1. Len(t) \in Len(q) .. Len(t)
    BY <1>1
  <2> QED BY <1>3, <1>5, <2>1 DEF Whole
<1> QED BY <1>4, <1>5

(* The whole of a queue grows by what is appended to it.                   *)
LEMMA WholeAppend ==
  ASSUME NEW q \in Seq(SoundFrame), NEW f \in SoundFrame, NEW seen, NEW top,
         Whole(q, seen, top)
  PROVE  Whole(Append(q, f), seen, top \union Brought(f))
<1> DEFINE t == Append(q, f)
<1>1. /\ Len(q) \in Nat /\ Len(t) = Len(q) + 1
      /\ t[Len(q) + 1] = f /\ \A i \in 1 .. Len(q) : t[i] = q[i]
  BY AppendFacts
<1> HIDE DEF t
<1>2. Len(t) \in 1 .. Len(t) /\ \A i \in 1 .. Len(q) : i \in 1 .. Len(t)
  BY <1>1
<1>3. Brought(f) \subseteq Upto(t, Len(t), seen)
  BY <1>1, <1>2 DEF Upto
<1>4. Upto(q, Len(q), seen) \subseteq Upto(t, Len(t), seen)
  BY <1>1, <1>2 DEF Upto
<1> QED BY <1>3, <1>4 DEF Whole, t

(* A follower behind its primary is within anything that contains it, all  *)
(* along its queue.                                                        *)
LEMMA TracksTop ==
  ASSUME NEW q \in Seq(SoundFrame), NEW seen, NEW top, seen \subseteq top, Within(q, top)
  PROVE  Tracks(q, seen, top)
<1>1. DOMAIN q = 1 .. Len(q) /\ Len(q) \in Nat
  OBVIOUS
<1>2. \A i \in 1 .. Len(q) : Brought(q[i]) \subseteq top
  BY <1>1 DEF Within, Range
<1>3. ASSUME NEW j \in 0 .. Len(q) PROVE Upto(q, j, seen) \subseteq top
  <2>1. \A i \in 1 .. j : i \in 1 .. Len(q)
    BY <1>1
  <2> QED BY <1>2, <2>1 DEF Upto
<1> QED BY <1>3 DEF Tracks

(* Counting is enough for a follower that passes through a cut: one that   *)
(* holds as many ops as the cut holds the cut.                             *)
LEMMA CutHeld ==
  ASSUME NEW T, NEW seen, IsFiniteSet(T), T \subseteq seen \/ seen \subseteq T,
         Cardinality(T) <= Cardinality(seen)
  PROVE  T \subseteq seen
<1>1. CASE T \subseteq seen
  BY <1>1
<1>2. CASE seen \subseteq T
  <2>1. Cardinality(seen) \in Nat /\ Cardinality(T) \in Nat /\ Cardinality(seen) <= Cardinality(T)
    BY <1>2, CountGrows
  <2>2. Cardinality(seen) = Cardinality(T)
    BY <2>1
  <2> QED BY <1>2, <2>2, FS_Subset
<1> QED BY <1>1, <1>2

(* A quorum by the primary's marks holds what the cut contains.            *)
LEMMA QuorumHolds ==
  ASSUME NEW R, NEW marks \in [Node -> Nat], NEW T, IsFiniteSet(T),
         NEW seq \in Nat, Cardinality(T) = seq, T \subseteq R[P].seen,
         \A m \in Node \ {P} :
            /\ T \subseteq R[m].seen \/ R[m].seen \subseteq T
            /\ IsFiniteSet(R[m].seen)
            /\ marks[m] <= Cardinality(R[m].seen),
         QuorumMet(P, marks, seq)
  PROVE  \A op \in T : Cardinality({n \in Node : op \in R[n].seen}) >= Majority
<1> SUFFICES ASSUME NEW op \in T
             PROVE  Cardinality({n \in Node : op \in R[n].seen}) >= Majority
  OBVIOUS
<1> DEFINE M == {m \in Node \ {P} : marks[m] >= seq}
           H == {n \in Node : op \in R[n].seen}
<1>1. P \in Node /\ IsFiniteSet(Node) /\ Cardinality(Node) \in Nat
  BY PrimaryLeads, NodeAssumption, FS_CardinalityType
<1>2. ASSUME NEW m \in M PROVE m \in H
  <2>1. Cardinality(R[m].seen) \in Nat /\ marks[m] \in Nat
    BY FS_CardinalityType
  <2>2. Cardinality(T) <= Cardinality(R[m].seen)
    BY <2>1
  <2> QED BY <2>2, CutHeld
<1>3. M \union {P} \subseteq H /\ P \notin M
  BY <1>1, <1>2
<1>4. IsFiniteSet(H) /\ IsFiniteSet(M)
  BY <1>1, FS_Subset
<1>5. Cardinality(M \union {P}) = Cardinality(M) + 1 /\ Cardinality(M) \in Nat
  BY <1>3, <1>4, FS_AddElement, FS_CardinalityType
<1>6. Cardinality(M \union {P}) <= Cardinality(H) /\ Cardinality(H) \in Nat
  BY <1>3, <1>4, FS_Subset, FS_CardinalityType
<1>7. 1 + Cardinality(M) >= Majority
  BY DEF QuorumMet
<1>8. Majority \in Nat
  BY <1>1 DEF Majority
<1> HIDE DEF M, H
<1>9. Cardinality(H) >= Majority
  BY <1>5, <1>6, <1>7, <1>8
<1> QED BY <1>9 DEF H

(* No op leaves a replica, so no majority is lost.                         *)
LEMMA MajorityKept ==
  ASSUME NoneForgotten, AcceptedOnMajority
  PROVE  \A op \in accepted : Cardinality({n \in Node : op \in room'[n].seen}) >= Majority
<1> SUFFICES ASSUME NEW op \in accepted
             PROVE  Cardinality({n \in Node : op \in room'[n].seen}) >= Majority
  OBVIOUS
<1> DEFINE B == {n \in Node : op \in room[n].seen}
           H == {n \in Node : op \in room'[n].seen}
<1>1. IsFiniteSet(Node) /\ Cardinality(Node) \in Nat
  BY NodeAssumption, FS_CardinalityType
<1>2. B \subseteq H
  BY DEF NoneForgotten, Seen
<1>3. IsFiniteSet(H)
  BY <1>1, FS_Subset
<1>4. Cardinality(B) <= Cardinality(H) /\ Cardinality(B) \in Nat /\ Cardinality(H) \in Nat
  BY <1>2, <1>3, CountGrows
<1>5. Cardinality(B) >= Majority /\ Majority \in Nat
  BY <1>1 DEF AcceptedOnMajority, Majority
<1> HIDE DEF B, H
<1>6. Cardinality(H) >= Majority
  BY <1>4, <1>5
<1> QED BY <1>6 DEF H
-----------------------------------------------------------------------------
(* The primary's own claims open one generation and keep it.               *)
LEMMA ClaimOnce ==
  ASSUME EpochTypes, OneEpoch, ClaimAndPersistEpoch(P)
  PROVE  LET e == Epochs!ClaimedEpoch(seenEpoch[P], led[P]) IN
         /\ led'[P] = e /\ seenEpoch'[P] = e /\ e # 0
         /\ led[P] # 0 => e = led[P]
         /\ \A n \in Node : seenEpoch'[n] <= e
<1> DEFINE e == Epochs!ClaimedEpoch(seenEpoch[P], led[P])
<1>1. P \in Node /\ seenEpoch \in [Node -> Nat] /\ led \in [Node -> Nat]
  BY PrimaryLeads DEF EpochTypes
<1>2. e = IF led[P] # 0 THEN led[P] ELSE 1
  BY <1>1 DEF OneEpoch, Epochs!ClaimedEpoch
<1>3. e \in Nat /\ led[P] <= e /\ e # 0 /\ Epochs!Observed(seenEpoch[P], e) = e
  BY <1>1, <1>2 DEF OneEpoch, Epochs!Observed
<1> HIDE DEF e
<1>4. /\ seenEpoch' = [seenEpoch EXCEPT ![P] = Epochs!Observed(seenEpoch[P], e)]
      /\ led' = [led EXCEPT ![P] = e]
  BY DEF ClaimAndPersistEpoch, e
<1>5. ASSUME NEW n \in Node PROVE seenEpoch'[n] <= e
  <2>1. seenEpoch[n] \in Nat /\ led[P] \in Nat /\ seenEpoch[n] <= led[P]
    BY <1>1 DEF OneEpoch
  <2> QED BY <1>1, <1>3, <1>4, <2>1
<1>6. led'[P] = e /\ seenEpoch'[P] = e
  BY <1>1, <1>3, <1>4
<1> QED BY <1>2, <1>3, <1>5, <1>6 DEF e

(* A frame the primary queues carries the generation it leads in.          *)
LEMMA OneEpochKept ==
  ASSUME OneEpoch, seenEpoch'[P] = led'[P], \A n \in Node : seenEpoch'[n] <= led'[P],
         led[P] # 0 => led'[P] = led[P],
         \A m \in Node : \A f \in Range(queue'[P][m]) :
            \/ f \in Range(queue[P][m])
            \/ f.kind = "FollowerHeads"
            \/ led'[P] # 0 /\ f.epoch = led'[P]
  PROVE  OneEpoch'
<1>1. ASSUME NEW m \in Node, NEW f \in Range(queue'[P][m]), f.kind # "FollowerHeads"
      PROVE  led'[P] # 0 /\ f.epoch = led'[P]
  BY <1>1 DEF OneEpoch
<1> QED BY <1>1 DEF OneEpoch

(* How a step may change a follower's queue and replica: frames are queued *)
(* behind the others, or the first one is read and taken.                  *)
Moved(m) ==
    \/ Extends(queue[P][m], queue'[P][m]) /\ Seen(m)' = Seen(m)
    \/ /\ queue[P][m] # <<>> /\ queue'[P][m] = Tail(queue[P][m])
       /\ Seen(m)' = Seen(m) \union Brought(Head(queue[P][m]))

(* A step that commits nothing keeps what is withheld in step with the     *)
(* queues.                                                                 *)
LEMMA MovesTracked ==
  ASSUME LogInv, LogInv', Followed, CutsTracked, Seen(P)' = Seen(P),
         \A m \in Node : link'[P][m] # "closed",
         \A m \in Node \ {P} :
            IF <<P, m>> \in Dialed THEN Moved(m)
            ELSE Seen(m)' = Seen(m) /\ link'[P][m] = link[P][m],
         \A n \in Node : pending'[n] \subseteq pending[n]
  PROVE  Followed' /\ CutsTracked'
<1>1. P \in Node
  BY PrimaryLeads
<1>2. \A m \in Node : queue[P][m] \in Seq(SoundFrame) /\ queue'[P][m] \in Seq(SoundFrame)
  BY <1>1 DEF LogInv, WiresSound, Wires
<1>3. ASSUME NEW m \in Node \ {P}, <<P, m>> \in Dialed
      PROVE  /\ Whole(queue'[P][m], Seen(m)', Seen(P))
             /\ \A T : T \subseteq Seen(P) /\ Tracks(queue[P][m], Seen(m), T)
                         => Tracks(queue'[P][m], Seen(m)', T)
  <2>1. Whole(queue[P][m], Seen(m), Seen(P))
    BY <1>3 DEF Followed
  <2>2. \A T : T \subseteq Seen(P) => Whole(queue[P][m], Seen(m), T)
    BY <2>1 DEF Whole
  <2> DEFINE q == queue[P][m]
             t == queue'[P][m]
             seen == Seen(m)
             more == Seen(m)'
  <2>3. q \in Seq(SoundFrame) /\ t \in Seq(SoundFrame)
    BY <1>2
  <2>4. \/ Extends(q, t) /\ more = seen
        \/ q # <<>> /\ t = Tail(q) /\ more = seen \union Brought(Head(q))
    BY <1>3 DEF Moved
  <2> HIDE DEF q, t, seen, more
  <2>5. CASE Extends(q, t) /\ more = seen
    <3>1. /\ \A T : Tracks(q, seen, T) /\ Whole(q, seen, T) => Tracks(t, seen, T)
          /\ \A top : Whole(q, seen, top) => Whole(t, seen, top)
      BY <2>3, <2>5, UptoSent
    <3> QED BY <2>1, <2>2, <2>5, <3>1 DEF q, t, seen, more
  <2>6. CASE q # <<>> /\ t = Tail(q) /\ more = seen \union Brought(Head(q))
    <3>1. /\ \A T : Tracks(q, seen, T) => Tracks(t, more, T)
          /\ \A top : Whole(q, seen, top) => Whole(t, more, top)
      BY <2>3, <2>6, UptoRead
    <3> QED BY <2>1, <2>6, <3>1 DEF q, t, seen, more
  <2> QED BY <2>4, <2>5, <2>6
<1>4. Followed'
  BY <1>3 DEF Followed
<1>5. ASSUME NEW p \in pending'[P] PROVE \E T \in SUBSET Op : CutOf(p, T)'
  <2>1. PICK T \in SUBSET Op : CutOf(p, T)
    BY <1>1 DEF CutsTracked
  <2>2. CutOf(p, T)'
    BY <1>3, <2>1 DEF CutOf
  <2> QED BY <2>2
<1>6. \A n \in Node \ {P} : pending'[n] = {}
  BY DEF CutsTracked
<1> QED BY <1>4, <1>5, <1>6 DEF CutsTracked

(* What P queues for a follower to catch it up is of its generation.       *)
LEMMA CatchUpSent ==
  ASSUME LogInv, EpochTypes, OneEpoch, NEW m \in Node, NEW floor \in Nat,
         NEW frames, frames = {} \/ frames = CatchUpFrames(P, floor),
         ClaimIf(P, frames)
  PROVE  LET q == SendCatchUp(queue[P][m], frames) IN
         /\ q \in Seq(SoundFrame) /\ Extends(queue[P][m], q)
         /\ \A f \in Range(q) : f \in Range(queue[P][m]) \/ (led'[P] # 0 /\ f.epoch = led'[P])
         /\ seenEpoch'[P] = led'[P] /\ \A n \in Node : seenEpoch'[n] <= led'[P]
         /\ led[P] # 0 => led'[P] = led[P]
<1>1. P \in Node /\ queue[P][m] \in Seq(SoundFrame) /\ SoundRoom(room[P])
  BY PrimaryLeads DEF LogInv, WiresSound, Wires, RoomsSound
<1>2. CASE frames = {}
  <2>1. SendCatchUp(queue[P][m], frames) = queue[P][m] /\ UNCHANGED <<seenEpoch, led>>
    BY <1>2 DEF SendCatchUp, ClaimIf, epochVars
  <2>2. Extends(queue[P][m], queue[P][m])
    BY <1>1 DEF Extends
  <2> QED BY <1>1, <2>1, <2>2 DEF OneEpoch
<1>3. CASE frames # {}
  <2> DEFINE g == CHOOSE f \in frames : TRUE
             e == Epochs!ClaimedEpoch(seenEpoch[P], led[P])
  <2>1. g \in CatchUpFrames(P, floor) /\ SendCatchUp(queue[P][m], frames) = TrySend(queue[P][m], g)
    BY <1>3 DEF SendCatchUp
  <2>2. g \in SoundFrame
    BY <1>1, <2>1, CatchUpFramesSound
  <2>3. g.epoch = e
    <3> HIDE DEF g, e
    <3>1. \/ \E c : g = [kind |-> "ReplicateSnapshot", seq |-> c.seq, state |-> c.state, epoch |-> e]
          \/ \E c : g = [kind |-> "Replicate", ops |-> c.ops, epoch |-> e]
          \/ g = [kind |-> "ReplicateMeta", epoch |-> e]
      BY <2>1 DEF CatchUpFrames, e
    <3> QED BY <3>1
  <2>4. ClaimAndPersistEpoch(P)
    BY <1>3 DEF ClaimIf
  <2>5. /\ led'[P] = e /\ seenEpoch'[P] = e /\ e # 0
        /\ led[P] # 0 => e = led[P]
        /\ \A n \in Node : seenEpoch'[n] <= e
    BY <2>4, ClaimOnce
  <2> HIDE DEF g, e
  <2>6. TrySend(queue[P][m], g) \in Seq(SoundFrame)
    <3>1. Len(queue[P][m]) <= FrameCapacity
      BY <1>1 DEF LogInv, WiresSound, Bounded
    <3> QED BY <1>1, <2>2, <3>1, SendBounded
  <2>7. Range(TrySend(queue[P][m], g)) \subseteq Range(queue[P][m]) \union {g}
    BY <1>1, <2>2, QueueRanges
  <2> QED BY <1>1, <2>1, <2>2, <2>3, <2>5, <2>6, <2>7, SendExtends
<1> QED BY <1>2, <1>3
-----------------------------------------------------------------------------
(* The primary commits a batch: the room as it is then is the cut of the   *)
(* Accepted it withholds.                                                  *)
LEMMA SteadyWrite ==
  ASSUME LogInv, LogInv', EpochTypes, PrimaryInv, PrimaryInv', NoneForgotten, RoomLeft, SteadyInv,
         NEW n \in Node, NEW batch \in Batch, ClientWrite(n, batch)
  PROVE  SteadyInv'
<1> DEFINE fresh == Fresh(room[P], batch)
           e == Epochs!ClaimedEpoch(seenEpoch[P], led[P])
           frame == [kind |-> "Replicate", ops |-> fresh, epoch |-> e]
           committed == Commit(room[P], fresh)
           entry == [ops |-> Range(batch), seq |-> RoomHead(committed)]
<1>1. P \in Node /\ n = P
  BY PrimaryLeads, OnlyPrimaryLeads DEF PrimaryInv, ClientWrite
<1>2. /\ room' = [room EXCEPT ![P] = committed]
      /\ queue' = [queue EXCEPT ![P] = [m \in Node |->
                     IF <<P, m>> \in Dialed THEN TrySend(@[m], frame) ELSE @[m]]]
      /\ ClaimAndPersistEpoch(P) /\ RecordWithheld(P, watermark[P], entry)
      /\ UNCHANGED <<link, watermark>>
  BY <1>1 DEF ClientWrite, linkVars
<1>3. batch \in Seq(Op) /\ SoundRoom(room[P])
  BY <1>1, BatchAssumption, StableFacts
<1>4. /\ committed.seen = Seen(P) \union Range(batch)
      /\ Range(fresh) = Range(batch) \ Seen(P) /\ fresh \in Seq(Op)
  BY <1>3, CommitSound, FreshOps DEF Seen
<1>5. frame \in SoundFrame /\ Brought(frame) = Range(fresh) /\ frame.epoch = e
  <2>1. e \in Nat
    BY <1>1, ClaimedNat
  <2> HIDE DEF e, fresh
  <2> QED BY <1>4, <2>1, FrameBuilt DEF Brought
<1>6. /\ led'[P] = e /\ seenEpoch'[P] = e /\ e # 0
      /\ led[P] # 0 => e = led[P]
      /\ \A k \in Node : seenEpoch'[k] <= e
  BY <1>2, ClaimOnce DEF SteadyInv
<1>7. RoomHead(committed) = Cardinality(Seen(P)') /\ IsFiniteSet(Seen(P)') /\ room'[P] = committed
  <2>1. room'[P] = committed
    BY <1>1, <1>2 DEF LogInv, RoomsSound
  <2> QED BY <1>1, <2>1 DEF LogInv, RoomsSound, SoundRoom, Seen
<1> HIDE DEF frame, committed, fresh, e
<1>8. Seen(P)' = Seen(P) \union Range(fresh) /\ Range(batch) \subseteq Seen(P)' /\ Seen(P) \subseteq Seen(P)'
  BY <1>4, <1>7 DEF Seen
<1>9. \A k \in Node \ {P} : Seen(k)' = Seen(k)
  BY <1>2 DEF LogInv, RoomsSound, Seen
<1>10. \A m \in Node : /\ queue[P][m] \in Seq(SoundFrame) /\ queue'[P][m] \in Seq(SoundFrame)
                       /\ queue'[P][m] = IF <<P, m>> \in Dialed THEN Append(queue[P][m], frame)
                                         ELSE queue[P][m]
  BY <1>1, <1>2 DEF LogInv, WiresSound, Wires, RoomLeft, TrySend
<1>11. OneEpoch'
  <2>1. ASSUME NEW m \in Node, NEW f \in Range(queue'[P][m])
        PROVE  f \in Range(queue[P][m]) \/ (led'[P] # 0 /\ f.epoch = led'[P])
    <3>1. queue[P][m] \in Seq(SoundFrame) /\ frame \in SoundFrame
      BY <1>5, <1>10
    <3>2. Range(Append(queue[P][m], frame)) = Range(queue[P][m]) \union {frame}
      BY <3>1, AppendFacts
    <3> QED BY <1>5, <1>6, <1>10, <2>1, <3>2
  <2> QED BY <1>6, <2>1, OneEpochKept DEF SteadyInv
<1>12. ASSUME NEW m \in Node \ {P}, <<P, m>> \in Dialed
       PROVE  /\ Whole(queue'[P][m], Seen(m)', Seen(P)')
              /\ Tracks(queue'[P][m], Seen(m)', Seen(P)')
              /\ \A T : T \subseteq Seen(P) /\ Tracks(queue[P][m], Seen(m), T)
                          => Tracks(queue'[P][m], Seen(m)', T)
  <2> DEFINE q == queue[P][m]
             seen == Seen(m)
             top == Seen(P)
  <2>1. /\ q \in Seq(SoundFrame) /\ queue'[P][m] = Append(q, frame) /\ Seen(m)' = seen
        /\ Whole(q, seen, top)
    BY <1>9, <1>10, <1>12 DEF SteadyInv, Followed
  <2>2. Append(q, frame) \in Seq(SoundFrame) /\ Extends(q, Append(q, frame))
    BY <1>5, <2>1, AppendFacts DEF Extends
  <2>3. \A T : T \subseteq top => Whole(q, seen, T)
    BY <2>1 DEF Whole
  <2>4. Tracks(queue'[P][m], Seen(m)', Seen(P)')
    <3>1. Seen(m)' \subseteq Seen(P)' /\ Within(queue'[P][m], Seen(P)')
      BY DEF PrimaryInv, Behind
    <3> QED BY <1>10, <3>1, TracksTop
  <2> HIDE DEF q, seen, top
  <2>5. Whole(Append(q, frame), seen, top \union Range(fresh))
    BY <1>5, <2>1, WholeAppend
  <2>6. \A T : T \subseteq top /\ Tracks(q, seen, T) => Tracks(Append(q, frame), seen, T)
    BY <2>1, <2>2, <2>3, UptoSent
  <2> QED BY <1>8, <2>1, <2>4, <2>5, <2>6 DEF q, seen, top
<1>13. Followed'
  BY <1>2, <1>9, <1>12 DEF SteadyInv, Followed
<1>14. entry.ops \subseteq Seen(P)' /\ entry.seq = Cardinality(Seen(P)')
  BY <1>7, <1>8
<1>15. /\ \A k \in Node \ {P} : pending'[k] = {}
       /\ pending'[P] \subseteq pending[P] \union {entry}
  BY <1>1, <1>2 DEF RecordWithheld, SteadyInv, CutsTracked, LogInv, ClientsTyped
<1> HIDE DEF entry
<1>16. ASSUME NEW p \in pending'[P] PROVE \E T \in SUBSET Op : CutOf(p, T)'
  <2>1. CASE p = entry
    <3>1. Seen(P)' \in SUBSET Op
      BY <1>1 DEF LogInv, RoomsSound, Room, Seen
    <3> QED BY <1>12, <1>14, <2>1, <3>1 DEF CutOf
  <2>2. CASE p # entry
    <3>1. PICK T \in SUBSET Op : CutOf(p, T)
      BY <1>15, <2>2 DEF SteadyInv, CutsTracked
    <3>2. CutOf(p, T)'
      BY <1>8, <1>12, <3>1 DEF CutOf
    <3> QED BY <3>2
  <2> QED BY <2>1, <2>2
<1>17. AcceptedOnMajority'
  <2>1. \A op \in accepted : Cardinality({k \in Node : op \in room'[k].seen}) >= Majority
    BY MajorityKept DEF SteadyInv
  <2>2. CASE accepted' = accepted
    BY <2>1, <2>2 DEF AcceptedOnMajority
  <2>3. CASE accepted' # accepted
    <3>1. QuorumMet(P, watermark[P], entry.seq) /\ accepted' = accepted \union entry.ops
      BY <1>2, <2>3 DEF RecordWithheld
    <3> DEFINE T == Seen(P)'
               R == room'
               marks == watermark[P]
               seq == entry.seq
    <3>2. IsFiniteSet(T) /\ seq \in Nat /\ Cardinality(T) = seq /\ T \subseteq R[P].seen
      BY <1>7, <1>14, FS_CardinalityType DEF Seen
    <3>3. ASSUME NEW m \in Node \ {P}
          PROVE  /\ T \subseteq R[m].seen \/ R[m].seen \subseteq T
                 /\ IsFiniteSet(R[m].seen)
                 /\ marks[m] <= Cardinality(R[m].seen)
      <4>1. Behind(m)' /\ IsFiniteSet(Seen(m)')
        BY DEF PrimaryInv, LogInv, RoomsSound, SoundRoom, Seen
      <4> QED BY <1>2, <4>1 DEF Behind, Seen
    <3>4. marks \in [Node -> Nat] /\ QuorumMet(P, marks, seq)
      BY <1>1, <3>1 DEF LogInv, LinksTyped
    <3>5. accepted' \subseteq accepted \union T
      BY <1>14, <3>1
    <3>6. \A op \in accepted : Cardinality({k \in Node : op \in R[k].seen}) >= Majority
      BY <2>1
    <3> HIDE DEF T, R, marks, seq
    <3>7. \A op \in T : Cardinality({k \in Node : op \in R[k].seen}) >= Majority
      BY <3>2, <3>3, <3>4, QuorumHolds
    <3> QED BY <3>5, <3>6, <3>7 DEF AcceptedOnMajority, R
  <2> QED BY <2>2, <2>3
<1> QED BY <1>11, <1>13, <1>15, <1>16, <1>17 DEF SteadyInv, CutsTracked

(* A follower takes every frame the primary sent it, in turn: none is      *)
(* fenced and none rejected.                                               *)
LEMMA SteadyRead ==
  ASSUME LogInv, LogInv', EpochTypes, PrimaryInv, NoneForgotten, SteadyInv,
         NEW m \in Node \ {P}, Deliver(P, m)
  PROVE  SteadyInv'
<1> DEFINE q == queue[P][m]
           f == Head(q)
           rest == [queue EXCEPT ![P][m] = Tail(@)]
<1>1. /\ q # <<>> /\ Receive(P, m, f, rest, TRUE) /\ link[P][m] = "up"
      /\ UNCHANGED <<pending, accepted>>
  BY DEF Deliver, clientVars
<1>2. /\ P \in Node /\ q \in Seq(SoundFrame) /\ SoundRoom(room[m])
      /\ Behind(m) /\ ~Leads(m) /\ \A e : ReplicaGate(m, e) # "Reject"
  BY StableFacts, OnlyPrimaryLeads DEF PrimaryInv
<1>3. f \in SoundFrame /\ f \in Range(q)
  BY <1>1, <1>2, ReadFacts
<1>4. f.kind # "FollowerHeads" => /\ f.epoch = led[P] /\ f.epoch \in Nat
                                  /\ ReplicaGate(m, f.epoch) = "Apply"
  <2> SUFFICES ASSUME f.kind # "FollowerHeads"
               PROVE  f.epoch = led[P] /\ f.epoch \in Nat /\ ReplicaGate(m, f.epoch) = "Apply"
    OBVIOUS
  <2>1. f.epoch = led[P] /\ led[P] \in Nat /\ seenEpoch[m] \in Nat /\ seenEpoch[m] <= led[P]
    BY <1>2, <1>3 DEF SteadyInv, OneEpoch, EpochTypes
  <2> QED BY <1>2, <2>1 DEF ReplicaGate
<1>5. /\ queue' = rest /\ link' = link
      /\ \/ room' = room /\ Brought(f) = {}
         \/ \E r : room' = [room EXCEPT ![m] = r] /\ r.seen = Seen(m) \union Brought(f)
      /\ \/ UNCHANGED <<seenEpoch, led>>
         \/ f.kind # "FollowerHeads" /\ Defer(m, f.epoch)
  <2>1. CASE ApplyReplicate(P, m, f, TRUE) /\ queue' = rest
    <3>1. f.kind = "Replicate" /\ f.ops \in Seq(Op)
      BY <1>3, <2>1, FrameFields DEF ApplyReplicate
    <3> DEFINE r == Ingest(room[m], f.ops)
    <3>2. room' = [room EXCEPT ![m] = r] /\ UNCHANGED link /\ Defer(m, f.epoch)
      BY <1>4, <2>1, <3>1 DEF ApplyReplicate
    <3>3. r.seen = Seen(m) \union Brought(f)
      BY <1>2, <3>1, CommitSound DEF Ingest, Seen, Brought
    <3> HIDE DEF r
    <3> QED BY <2>1, <3>1, <3>2, <3>3
  <2>2. CASE ApplyReplicateSnapshot(P, m, f, TRUE) /\ queue' = rest
    <3>1. f.kind = "ReplicateSnapshot"
      BY <2>2 DEF ApplyReplicateSnapshot
    <3> DEFINE r == InstallSnapshot(f.state, f.seq)
    <3>2. room' = [room EXCEPT ![m] = r] /\ UNCHANGED link /\ Defer(m, f.epoch)
      BY <1>4, <2>2, <3>1 DEF ApplyReplicateSnapshot
    <3>3. Seen(m) \subseteq f.state
      BY <1>1, <1>2, <3>1, CoversKept DEF Behind
    <3>4. r.seen = Seen(m) \union Brought(f)
      BY <3>1, <3>3 DEF InstallSnapshot, Brought
    <3> HIDE DEF r
    <3> QED BY <2>2, <3>1, <3>2, <3>4
  <2>3. CASE ApplyReplicateMeta(P, m, f, TRUE) /\ queue' = rest
    BY <1>2, <2>3 DEF ApplyReplicateMeta, Brought, epochVars
  <2>4. CASE ApplyFollowerHeads(P, m, f, rest)
    BY <1>2, <2>4 DEF ApplyFollowerHeads, Brought, epochVars
  <2> QED BY <1>1, <2>1, <2>2, <2>3, <2>4 DEF Receive
<1>6. /\ \A k \in Node \ {m} : Seen(k)' = Seen(k)
      /\ Seen(m)' = Seen(m) \union Brought(f)
  <2>1. CASE room' = room /\ Brought(f) = {}
    BY <2>1 DEF Seen
  <2>2. ASSUME NEW r, room' = [room EXCEPT ![m] = r], r.seen = Seen(m) \union Brought(f)
        PROVE  <1>6
    <3>1. \A k \in Node : room'[k] = IF k = m THEN r ELSE room[k]
      BY <2>2 DEF LogInv, RoomsSound
    <3> QED BY <2>2, <3>1 DEF Seen
  <2> QED BY <1>5, <2>1, <2>2
<1>7. \A b \in Node : queue'[P][b] = IF b = m THEN Tail(q) ELSE queue[P][b]
  BY <1>2, <1>5 DEF LogInv, WiresSound, Wires
<1>8. OneEpoch'
  <2>1. led'[P] = led[P] /\ seenEpoch'[P] = seenEpoch[P]
    BY <1>2, <1>5 DEF Defer, EpochTypes
  <2>2. ASSUME NEW k \in Node PROVE seenEpoch'[k] <= led[P]
    <3>1. seenEpoch[k] \in Nat /\ seenEpoch[k] <= led[P]
      BY DEF EpochTypes, SteadyInv, OneEpoch
    <3>2. CASE UNCHANGED seenEpoch
      BY <3>1, <3>2
    <3>3. CASE ~UNCHANGED seenEpoch
      <4>1. seenEpoch' = [seenEpoch EXCEPT ![m] = Epochs!Observed(seenEpoch[m], led[P])]
        BY <1>4, <1>5, <3>3 DEF Defer
      <4>2. seenEpoch'[k] \in {seenEpoch[k], led[P]}
        BY <4>1 DEF EpochTypes, Epochs!Observed
      <4>3. led[P] \in Nat
        BY <1>2 DEF EpochTypes
      <4> QED BY <3>1, <4>2, <4>3
    <3> QED BY <3>2, <3>3
  <2>3. \A b \in Node : Range(queue'[P][b]) \subseteq Range(queue[P][b])
    BY <1>1, <1>2, <1>7, ReadFacts
  <2>4. seenEpoch[P] = led[P]
    BY DEF SteadyInv, OneEpoch
  <2> QED BY <2>1, <2>2, <2>3, <2>4, OneEpochKept DEF SteadyInv
<1>9. <<P, m>> \in Dialed
  BY <1>1 DEF SteadyInv, Followed
<1>10. ASSUME NEW k \in Node \ {P}
       PROVE  IF <<P, k>> \in Dialed THEN Moved(k)
              ELSE Seen(k)' = Seen(k) /\ link'[P][k] = link[P][k]
  <2>1. queue[P][k] \in Seq(SoundFrame) /\ Extends(queue[P][k], queue[P][k])
    BY <1>2, StableFacts DEF Extends
  <2> QED BY <1>1, <1>5, <1>6, <1>7, <1>9, <2>1 DEF Moved
<1>11. Seen(P)' = Seen(P) /\ \A b \in Node : link'[P][b] # "closed"
  BY <1>2, <1>5, <1>6 DEF SteadyInv, Followed
<1>12. Followed' /\ CutsTracked'
  BY <1>1, <1>10, <1>11, MovesTracked DEF SteadyInv
<1>13. AcceptedOnMajority'
  BY <1>1, MajorityKept DEF SteadyInv, AcceptedOnMajority
<1> QED BY <1>8, <1>12, <1>13 DEF SteadyInv
(* A step that leaves the replicas, the primary's queues and links and the *)
(* epochs alone, and takes at most some of what is withheld away.          *)
LEMMA SteadyIdle ==
  ASSUME LogInv, LogInv', PrimaryInv, NoneForgotten, SteadyInv,
         UNCHANGED <<room, seenEpoch, led, accepted>>,
         \A m \in Node : queue'[P][m] = queue[P][m] /\ link'[P][m] = link[P][m],
         \A n \in Node : pending'[n] \subseteq pending[n]
  PROVE  SteadyInv'
<1>1. P \in Node /\ \A m \in Node : queue[P][m] \in Seq(SoundFrame)
  BY StableFacts
<1>2. OneEpoch'
  BY DEF SteadyInv, OneEpoch
<1>3. \A m : Seen(m)' = Seen(m)
  BY DEF Seen
<1>4. \A m \in Node \ {P} : Moved(m)
  BY <1>1, <1>3 DEF Moved, Extends
<1>5. \A m \in Node : link'[P][m] # "closed"
  BY DEF SteadyInv, Followed
<1>6. Followed' /\ CutsTracked'
  BY <1>3, <1>4, <1>5, MovesTracked DEF SteadyInv
<1>7. AcceptedOnMajority'
  BY MajorityKept DEF SteadyInv, AcceptedOnMajority
<1> QED BY <1>2, <1>6, <1>7 DEF SteadyInv

(* A step that queues a catch-up for follower m, with or without a head    *)
(* report behind it.                                                       *)
LEMMA SteadySend ==
  ASSUME LogInv, LogInv', EpochTypes, PrimaryInv, NoneForgotten, SteadyInv,
         NEW m \in Node \ {P}, NEW floor \in Nat, NEW frames,
         frames = {} \/ frames = CatchUpFrames(P, floor), ClaimIf(P, frames),
         \/ queue'[P][m] = SendCatchUp(queue[P][m], frames)
         \/ \E f \in SoundFrame : /\ f.kind = "FollowerHeads"
                                  /\ queue'[P][m] = TrySend(SendCatchUp(queue[P][m], frames), f),
         \A k \in Node \ {m} : queue'[P][k] = queue[P][k],
         \A k \in Node : link'[P][k] = link[P][k] \/ (<<P, k>> \in Dialed /\ link'[P][k] = "up"),
         UNCHANGED <<room, pending, accepted>>
  PROVE  SteadyInv'
<1> DEFINE q == queue[P][m]
           sent == SendCatchUp(q, frames)
           t == queue'[P][m]
<1>1. P \in Node /\ \A k \in Node : queue[P][k] \in Seq(SoundFrame)
  BY StableFacts
<1>2. /\ sent \in Seq(SoundFrame) /\ Extends(q, sent)
      /\ \A f \in Range(sent) : f \in Range(q) \/ (led'[P] # 0 /\ f.epoch = led'[P])
      /\ seenEpoch'[P] = led'[P] /\ \A n \in Node : seenEpoch'[n] <= led'[P]
      /\ led[P] # 0 => led'[P] = led[P]
  BY CatchUpSent DEF SteadyInv
<1>3. /\ Extends(q, t)
      /\ \A f \in Range(t) : \/ f \in Range(q) \/ f.kind = "FollowerHeads"
                             \/ led'[P] # 0 /\ f.epoch = led'[P]
  <2>1. CASE t = sent
    BY <1>2, <2>1
  <2>2. ASSUME NEW f \in SoundFrame, f.kind = "FollowerHeads", t = TrySend(sent, f)
        PROVE  <1>3
    <3> HIDE DEF q, sent, t
    <3>1. Extends(sent, t) /\ Range(t) \subseteq Range(sent) \union {f}
      BY <1>2, <2>2, SendExtends, QueueRanges
    <3>2. q \in Seq(SoundFrame)
      BY <1>1 DEF q
    <3>3. Extends(q, t)
      <4>1. Len(q) \in Nat /\ Len(sent) \in Nat /\ Len(t) \in Nat
        <5>1. t \in Seq(SoundFrame)
          BY <1>1 DEF t, LogInv, WiresSound, Wires
        <5> QED BY <1>2, <3>2, <5>1
      <4> QED BY <1>2, <3>1, <4>1 DEF Extends
    <3> QED BY <1>2, <2>2, <3>1, <3>3
  <2> QED BY <2>1, <2>2
<1> HIDE DEF sent
<1>4. OneEpoch'
  <2>1. \A k \in Node : \A f \in Range(queue'[P][k]) :
           \/ f \in Range(queue[P][k]) \/ f.kind = "FollowerHeads"
           \/ led'[P] # 0 /\ f.epoch = led'[P]
    BY <1>3
  <2> QED BY <1>2, <2>1, OneEpochKept DEF SteadyInv
<1>5. \A k : Seen(k)' = Seen(k)
  BY DEF Seen
<1>6. ASSUME NEW k \in Node \ {P}
      PROVE  IF <<P, k>> \in Dialed THEN Moved(k)
             ELSE Seen(k)' = Seen(k) /\ link'[P][k] = link[P][k]
  <2>1. Extends(queue[P][k], queue[P][k])
    BY <1>1 DEF Extends
  <2> QED BY <1>3, <1>5, <2>1 DEF Moved
<1>7. \A k \in Node : link'[P][k] # "closed"
  BY DEF SteadyInv, Followed
<1>8. Followed' /\ CutsTracked'
  BY <1>5, <1>6, <1>7, MovesTracked DEF SteadyInv
<1>9. AcceptedOnMajority'
  BY MajorityKept DEF SteadyInv, AcceptedOnMajority
<1> QED BY <1>4, <1>8, <1>9 DEF SteadyInv

(* A node reads a follower's report of its head.                           *)
LEMMA SteadyHeads ==
  ASSUME LogInv, LogInv', EpochTypes, PrimaryInv, NoneForgotten, SteadyInv,
         NEW n \in Node \ {P}, NEW m \in Node \ {n}, Deliver(n, m)
  PROVE  SteadyInv'
<1> DEFINE f == Head(queue[n][m])
           rest == [queue EXCEPT ![n][m] = Tail(@)]
<1>1. queue[n][m] # <<>> /\ Receive(n, m, f, rest, TRUE) /\ UNCHANGED <<pending, accepted>>
  BY DEF Deliver, clientVars
<1>2. /\ P \in Node /\ queue[n][m] \in Seq(SoundFrame) /\ HeadsOnly(queue[n][m])
      /\ \A k \in Node : Leads(k) <=> k = P
  BY StableFacts, OnlyPrimaryLeads DEF PrimaryInv, OneSender
<1>3. f \in SoundFrame /\ f.kind = "FollowerHeads"
  BY <1>1, <1>2, ReadFacts, HeadsKept
<1>4. ApplyFollowerHeads(n, m, f, rest) /\ f.head \in Nat
  BY <1>1, <1>3, FrameFields DEF Receive, ApplyReplicate, ApplyReplicateSnapshot, ApplyReplicateMeta
<1>5. UNCHANGED <<room, link>>
  BY <1>4 DEF ApplyFollowerHeads
<1>6. /\ rest \in [Node -> [Node -> Seq(SoundFrame)]]
      /\ \A b \in Node : rest[P][b] = queue[P][b]
  <2>1. Tail(queue[n][m]) \in Seq(SoundFrame)
    BY <1>1, <1>2, ReadFacts
  <2> QED BY <1>2, <2>1 DEF LogInv, WiresSound, Wires
<1> HIDE DEF rest, f
<1>7. CASE Leads(m) /\ room[m] # EmptyRoom
  <2> DEFINE floor == IF f.head < RoomHead(room[m]) THEN f.head ELSE RoomHead(room[m])
             frames == CatchUpFrames(m, floor)
  <2>1. /\ m = P /\ ClaimIf(P, frames)
        /\ queue' = [rest EXCEPT ![P][n] = SendCatchUp(@, frames)]
    BY <1>2, <1>4, <1>7 DEF ApplyFollowerHeads
  <2>2. floor \in Nat /\ frames = CatchUpFrames(P, floor)
    <3>1. RoomHead(room[m]) \in Nat
      BY <1>2, <2>1, StableFacts, FS_CardinalityType
    <3> QED BY <1>4, <2>1, <3>1
  <2> HIDE DEF floor, frames
  <2>3. \A b \in Node : queue'[P][b] = IF b = n THEN SendCatchUp(queue[P][n], frames) ELSE queue[P][b]
    BY <1>2, <1>6, <2>1
  <2>4. /\ queue'[P][n] = SendCatchUp(queue[P][n], frames)
        /\ \A k \in Node \ {n} : queue'[P][k] = queue[P][k]
        /\ \A k \in Node : link'[P][k] = link[P][k]
    BY <1>5, <2>3
  <2> QED BY <1>1, <1>5, <2>1, <2>2, <2>4, SteadySend
<1>8. CASE ~(Leads(m) /\ room[m] # EmptyRoom)
  <2>1. queue' = rest /\ UNCHANGED <<seenEpoch, led>>
    BY <1>4, <1>8 DEF ApplyFollowerHeads, epochVars
  <2>2. /\ \A k \in Node : queue'[P][k] = queue[P][k] /\ link'[P][k] = link[P][k]
        /\ \A k \in Node : pending'[k] \subseteq pending[k]
    BY <1>1, <1>5, <1>6, <2>1
  <2> QED BY <1>1, <1>5, <2>1, <2>2, SteadyIdle
<1> QED BY <1>7, <1>8

(* A dial succeeds.                                                        *)
LEMMA SteadyPeerUp ==
  ASSUME LogInv, LogInv', EpochTypes, PrimaryInv, NoneForgotten, SteadyInv,
         NEW n \in Node, NEW m \in Node \ {n}, PeerUp(n, m)
  PROVE  SteadyInv'
<1> DEFINE down == relayDown[n] \ {m}
           frames == IF EffectivePrimary(n, down) = n /\ room[n] # EmptyRoom
                     THEN CatchUpFrames(n, watermark[n][m]) ELSE {}
           heads == [kind |-> "FollowerHeads", head |-> RoomHead(room[n])]
<1>1. /\ <<n, m>> \in Dialed
      /\ link' = [link EXCEPT ![n][m] = "up"]
      /\ queue' = [queue EXCEPT ![n][m] = TrySend(SendCatchUp(@, frames), heads)]
      /\ ClaimIf(n, frames)
      /\ UNCHANGED <<room, pending, accepted>>
  BY DEF PeerUp, clientVars
<1>2. P \in Node /\ RoomHead(room[n]) \in Nat /\ watermark[n][m] \in Nat
  BY StableFacts, FS_CardinalityType
<1>3. heads \in SoundFrame /\ heads.kind = "FollowerHeads"
  BY <1>2, FrameBuilt
<1>4. n # P => frames = {}
  <2>1. EffectivePrimary(n, down) = P
    BY PrimaryLeads DEF PrimaryInv, OneLead
  <2> QED BY <2>1
<1>5. frames = {} \/ frames = CatchUpFrames(n, watermark[n][m])
  OBVIOUS
<1> HIDE DEF frames, heads
<1>6. CASE n = P
  <2>1. /\ queue'[P][m] = TrySend(SendCatchUp(queue[P][m], frames), heads)
        /\ \A k \in Node \ {m} : queue'[P][k] = queue[P][k]
    BY <1>1, <1>2, <1>6 DEF LogInv, WiresSound, Wires
  <2>2. \A k \in Node : link'[P][k] = link[P][k] \/ (<<P, k>> \in Dialed /\ link'[P][k] = "up")
    <3>1. \A k \in Node : link'[P][k] = IF k = m THEN "up" ELSE link[P][k]
      BY <1>1, <1>2, <1>6 DEF LogInv, LinksTyped
    <3>2. <<P, m>> \in Dialed
      BY <1>1, <1>6
    <3> QED BY <3>1, <3>2
  <2> QED BY <1>1, <1>2, <1>3, <1>5, <1>6, <2>1, <2>2, SteadySend
<1>7. CASE n # P
  <2>1. \A k \in Node : queue'[P][k] = queue[P][k] /\ link'[P][k] = link[P][k]
    BY <1>1, <1>2, <1>7 DEF LogInv, WiresSound, Wires, LinksTyped
  <2>2. UNCHANGED <<seenEpoch, led>>
    BY <1>1, <1>4, <1>7 DEF ClaimIf, epochVars
  <2>3. \A k \in Node : pending'[k] \subseteq pending[k]
    BY <1>1
  <2> QED BY <1>1, <2>1, <2>2, <2>3, SteadyIdle
<1> QED BY <1>6, <1>7

(* An ack releases only what a majority holds: each follower counted has   *)
(* as many ops as the cut, and so the cut.                                 *)
LEMMA SteadyAck ==
  ASSUME LogInv, LogInv', PrimaryInv, PrimaryInv', NoneForgotten, SteadyInv,
         NEW n \in Node, NEW m \in Node \ {n}, RecordReplicaAck(n, m)
  PROVE  SteadyInv'
<1> DEFINE marks == [watermark[n] EXCEPT ![m] =
                       IF Head(acks[n][m]) > @ THEN Head(acks[n][m]) ELSE @]
           released == {p \in pending[n] : QuorumMet(n, marks, p.seq)}
<1>1. /\ watermark' = [watermark EXCEPT ![n] = marks]
      /\ pending' = [pending EXCEPT ![n] = @ \ released]
      /\ accepted' = accepted \union UNION {p.ops : p \in released}
      /\ UNCHANGED <<room, seenEpoch, led, queue, link>>
  BY DEF RecordReplicaAck, epochVars, linkVars
<1>2. P \in Node /\ watermark' \in [Node -> [Node -> Nat]] /\ pending \in [Node -> SUBSET Withheld]
  BY PrimaryLeads DEF LogInv, LinksTyped, ClientsTyped
<1>3. watermark'[n] = marks
  BY <1>1 DEF LogInv, LinksTyped
<1>4. \A k \in Node : pending'[k] \subseteq pending[k]
  BY <1>1, <1>2
<1> HIDE DEF marks
<1>5. ASSUME NEW p \in released, NEW op \in p.ops
      PROVE  Cardinality({k \in Node : op \in room[k].seen}) >= Majority
  <2>1. n = P
    BY <1>5 DEF SteadyInv, CutsTracked
  <2>2. /\ p \in Withheld /\ QuorumMet(P, marks, p.seq) /\ p \in pending[P]
        /\ marks \in [Node -> Nat]
    BY <1>2, <1>3, <2>1
  <2>3. PICK T \in SUBSET Op : CutOf(p, T)
    BY <2>2 DEF SteadyInv, CutsTracked
  <2>4. T \subseteq room[P].seen /\ op \in T /\ p.seq \in Nat /\ Cardinality(T) = p.seq /\ IsFiniteSet(T)
    BY <1>2, <2>2, <2>3, StableFacts, FS_Subset DEF CutOf, Seen, Withheld
  <2>5. ASSUME NEW k \in Node \ {P}
        PROVE  /\ T \subseteq room[k].seen \/ room[k].seen \subseteq T
               /\ IsFiniteSet(room[k].seen)
               /\ marks[k] <= Cardinality(room[k].seen)
    <3>1. IsFiniteSet(Seen(k)) /\ queue[P][k] \in Seq(SoundFrame)
      BY <1>2, StableFacts
    <3>2. marks[k] <= Cardinality(Seen(k))
      <4>1. watermark'[P][k] <= Cardinality(Seen(k)')
        BY DEF PrimaryInv, Behind
      <4> QED BY <1>1, <1>3, <2>1, <4>1 DEF Seen
    <3>3. CASE <<P, k>> \in Dialed
      <4>1. Tracks(queue[P][k], Seen(k), T) /\ 0 \in 0 .. Len(queue[P][k])
        BY <2>3, <3>1, <3>3 DEF CutOf
      <4>2. Upto(queue[P][k], 0, Seen(k)) = Seen(k)
        BY DEF Upto
      <4> QED BY <3>1, <3>2, <4>1, <4>2 DEF Tracks, Seen
    <3>4. CASE <<P, k>> \notin Dialed
      <4>1. Seen(k) = {}
        BY <3>4 DEF SteadyInv, Followed
      <4> QED BY <3>1, <3>2, <4>1 DEF Seen
    <3> QED BY <3>3, <3>4
  <2> QED BY <2>2, <2>4, <2>5, QuorumHolds
<1> HIDE DEF released
<1>6. AcceptedOnMajority'
  BY <1>1, <1>5 DEF SteadyInv, AcceptedOnMajority
<1>7. OneEpoch'
  BY <1>1 DEF SteadyInv, OneEpoch
<1>8. Followed' /\ CutsTracked'
  <2>1. \A k : Seen(k)' = Seen(k)
    BY <1>1 DEF Seen
  <2>2. \A k \in Node \ {P} : Moved(k)
    <3>1. \A k \in Node : queue[P][k] \in Seq(SoundFrame)
      BY <1>2, StableFacts
    <3> QED BY <1>1, <2>1, <3>1 DEF Moved, Extends
  <2>3. \A k \in Node : link'[P][k] # "closed"
    BY <1>1 DEF SteadyInv, Followed
  <2> QED BY <1>1, <1>4, <2>1, <2>2, <2>3, MovesTracked DEF SteadyInv
<1> QED BY <1>6, <1>7, <1>8 DEF SteadyInv

(* Every step of a cluster with a steady primary.                          *)
LEMMA SteadyStep ==
  ASSUME SteadyPrimary, LogInv, LogInv', EpochTypes, PrimaryInv, PrimaryInv', NoneForgotten,
         RoomLeft, SteadyInv, [Next]_vars
  PROVE  SteadyInv'
<1>1. P \in Node /\ StablePrimary
  BY PrimaryLeads DEF SteadyPrimary
<1>2. ASSUME NEW n \in Node, NEW batch \in Batch, ClientWrite(n, batch) \/ ClientResend(n, batch)
      PROVE  SteadyInv'
  BY <1>2, SteadyWrite DEF ClientResend, SteadyPrimary
<1>3. ASSUME NEW n \in Node, NEW entry \in pending[n], ClientDisconnect(n, entry)
      PROVE  SteadyInv'
  <2>1. /\ UNCHANGED <<room, seenEpoch, led, accepted, queue, link>>
        /\ pending' = [pending EXCEPT ![n] = @ \ {entry}]
    BY <1>3 DEF ClientDisconnect, epochVars, linkVars
  <2>2. \A k \in Node : pending'[k] \subseteq pending[k]
    BY <2>1 DEF LogInv, ClientsTyped
  <2> QED BY <2>1, <2>2, SteadyIdle
<1>4. ASSUME NEW n \in Node, NEW m \in Node \ {n}, Deliver(n, m)
      PROVE  SteadyInv'
  BY <1>4, SteadyRead, SteadyHeads
<1>5. ASSUME NEW n \in Node, NEW m \in Node \ {n}, DeliverStray(n, m) \/ DropStray(n, m)
      PROVE  SteadyInv'
  BY <1>5, StableFacts DEF DeliverStray, DropStray
<1>6. ASSUME NEW n \in Node, NEW m \in Node \ {n}, PeerDown(n, m) \/ PeerClosed(n, m)
      PROVE  SteadyInv'
  <2>1. n # P
    BY <1>6 DEF PeerDown, PeerClosed, SteadyPrimary, SteadyInv, Followed
  <2>2. PICK k \in 0 .. Len(queue[n][m]) : SocketLost(n, m, k)
    BY <1>6 DEF PeerDown, PeerClosed
  <2>3. UNCHANGED <<room, seenEpoch, led, accepted, pending>>
    BY <2>2 DEF SocketLost, epochVars, clientVars
  <2>4. \A b \in Node : queue'[P][b] = queue[P][b] /\ link'[P][b] = link[P][b]
    BY <1>1, <2>1, <2>2 DEF SocketLost, LogInv, WiresSound, Wires, LinksTyped
  <2>5. \A b \in Node : pending'[b] \subseteq pending[b]
    BY <2>3
  <2> QED BY <2>3, <2>4, <2>5, SteadyIdle
<1>7. ASSUME NEW n \in Node, NEW m \in Node \ {n}, DialFailed(n, m)
      PROVE  SteadyInv'
  <2>1. UNCHANGED <<room, seenEpoch, led, accepted, pending, queue, link>>
    BY <1>7 DEF DialFailed, epochVars, clientVars
  <2>2. \A b \in Node : pending'[b] \subseteq pending[b]
    BY <2>1
  <2> QED BY <2>1, <2>2, SteadyIdle
<1>8. ASSUME NEW n \in Node, Restart(n) \/ RestartWiped(n)
      PROVE  SteadyInv'
  BY <1>8 DEF Restart, RestartWiped, SteadyPrimary, StablePrimary
<1>9. CASE UNCHANGED vars
  <2>1. UNCHANGED <<room, seenEpoch, led, accepted, pending, queue, link>>
    BY <1>9 DEF vars, epochVars, linkVars, clientVars
  <2>2. \A b \in Node : pending'[b] \subseteq pending[b]
    BY <2>1
  <2> QED BY <2>1, <2>2, SteadyIdle
<1> QED BY <1>2, <1>3, <1>4, <1>5, <1>6, <1>7, <1>8, <1>9, SteadyPeerUp, SteadyAck DEF Next

LEMMA SteadyInit == Init => SteadyInv
<1> SUFFICES ASSUME Init PROVE SteadyInv
  OBVIOUS
<1>1. P \in Node
  BY PrimaryLeads
<1>2. /\ \A m \in Node : queue[P][m] = <<>> /\ link[P][m] = "down" /\ Seen(m) = {} /\ pending[m] = {}
      /\ \A m \in Node : seenEpoch[m] = 0 /\ led[m] = 0
      /\ accepted = {}
  BY <1>1 DEF Init, Seen, EmptyRoom
<1>3. OneEpoch
  BY <1>1, <1>2 DEF OneEpoch, Range
<1>4. Followed
  BY <1>1, <1>2 DEF Followed, Whole
<1> QED BY <1>1, <1>2, <1>3, <1>4 DEF SteadyInv, CutsTracked, AcceptedOnMajority

(* A client's Accepted means that a majority of the replicas hold the op,  *)
(* although the primary only compares counts, as long as the primary and   *)
(* its links last and none of its queues has filled up (registry.rs        *)
(* record_replica_ack and quorum_met, replication.rs record_ack).          *)
THEOREM AcceptedHeld ==
  ASSUME SteadyPrimary
  PROVE  Spec /\ []RoomLeft => []AcceptedOnMajority
<1>1. StablePrimary
  BY DEF SteadyPrimary
<1>2. LogInv /\ EpochIInv /\ PrimaryInv /\ (LogInv /\ EpochIInv /\ PrimaryInv)' /\ RoomLeft
         /\ SteadyInv /\ [Next]_vars => SteadyInv'
  BY <1>1, PrimaryStep, SteadyStep DEF EpochIInv
<1>3. SteadyInv => AcceptedOnMajority
  BY DEF SteadyInv
<1> QED BY <1>1, <1>2, <1>3, SteadyInit, PrimaryInvariant, PTL DEF Spec
=============================================================================

-------------------------- MODULE RoomReplication --------------------------
(***************************************************************************)
(* Leader-to-follower replication of one room across the nodes of its      *)
(* replica set: crates/server/src/registry.rs (the leader's fan-out, the   *)
(* follower's gate and apply, majority acks), replication.rs (watermarks), *)
(* leadership.rs (epochs), and the peer links of runtime.rs.               *)
(*                                                                         *)
(* Every node runs one actor, so a handler is one step.  Between the       *)
(* actors run the peer links: node n dials m, owns a bounded frame queue   *)
(* to m that outlives the socket, and reads m's acks from the same socket. *)
(***************************************************************************)
EXTENDS RoomHub

CONSTANTS
    Node,           \* the room's replica set
    Placement,      \* the same nodes in rendezvous order, primary first
    Batch,          \* the op batches clients send
    FrameCapacity,  \* PEER_FRAME_CAPACITY
    Resend,         \* whether clients re-send what they already sent
    Dialed,         \* the links <<dialer, dialed>> this instance opens
    FlakyLink,      \* the ones that may drop
    LateFrames,     \* whether a dropped socket's frames may still be read
    Crashable,      \* the nodes that may restart with their disk intact
    Wipeable,       \* the nodes that may restart with an empty disk
    MaxFaults       \* bound on link drops and restarts in a behaviour

ASSUME NodeAssumption == IsFiniteSet(Node) /\ Cardinality(Node) > 1
ASSUME PlacementAssumption ==
    Placement \in Seq(Node) /\ Range(Placement) = Node /\ Len(Placement) = Cardinality(Node)
ASSUME BatchAssumption == Batch \subseteq Seq(Op)
ASSUME BoundAssumption ==
    /\ FrameCapacity \in Nat \ {0}
    /\ MaxFaults \in Nat
    /\ Resend \in BOOLEAN
    /\ LateFrames \in BOOLEAN
    /\ Dialed \subseteq {nm \in Node \X Node : nm[1] # nm[2]}
    /\ FlakyLink \subseteq Dialed
    /\ Crashable \subseteq Node
    /\ Wipeable \subseteq Node

VARIABLES
    room,       \* room[n]: n's replica of the room (RoomHub)
    seenEpoch,  \* LeadershipEpochs.seen
    led,        \* LeadershipEpochs.led, 0 when absent
    epochFile,  \* the epoch on n's disk
    stamped,    \* history: every epoch n put on a frame
    relayDown,  \* Membership.relay_down
    link,       \* link[n][m]: the socket n dialed to m
    queue,      \* queue[n][m]: frames n queued for m, socket buffer included
    stray,      \* stray[n][m]: frames of a dropped socket m has yet to read
    acks,       \* acks[n][m]: ReplicaAcks m wrote to n's socket
    watermark,  \* Replication.acked
    pending,    \* Registry.pending_acks
    accepted,   \* history: ops some client holds an Accepted for
    faults      \* faults left

epochVars == <<seenEpoch, led, epochFile, stamped>>
linkVars == <<relayDown, link, stray>>
clientVars == <<pending, accepted>>
vars == <<room, epochVars, linkVars, queue, acks, watermark, clientVars, faults>>

Epochs == INSTANCE LeadershipEpochs WITH seen <- seenEpoch

Frame ==
    [kind : {"Replicate"}, ops : Seq(Op), epoch : Nat]
      \union [kind : {"ReplicateSnapshot"}, seq : Nat, state : SUBSET Op, epoch : Nat]
      \union [kind : {"ReplicateMeta"}, epoch : Nat]
      \union [kind : {"FollowerHeads"}, head : Nat]

Withheld == [ops : SUBSET Op, seq : Nat]

Init ==
    /\ room = [n \in Node |-> EmptyRoom]
    /\ seenEpoch = [n \in Node |-> 0]
    /\ led = [n \in Node |-> 0]
    /\ epochFile = [n \in Node |-> 0]
    /\ stamped = [n \in Node |-> {}]
    /\ relayDown = [n \in Node |-> {}]
    /\ link = [n \in Node |-> [m \in Node |-> "down"]]
    /\ queue = [n \in Node |-> [m \in Node |-> <<>>]]
    /\ stray = [n \in Node |-> [m \in Node |-> <<>>]]
    /\ acks = [n \in Node |-> [m \in Node |-> <<>>]]
    /\ watermark = [n \in Node |-> [m \in Node |-> 0]]
    /\ pending = [n \in Node |-> {}]
    /\ accepted = {}
    /\ faults = MaxFaults
-----------------------------------------------------------------------------
(* Leadership is read off the node's own view of who is live: the first    *)
(* replica, in placement order, whose relay link is not down.              *)
EffectivePrimary(n, down) ==
    Placement[CHOOSE i \in DOMAIN Placement :
                /\ Placement[i] \notin down
                /\ \A j \in 1 .. i - 1 : Placement[j] \in down]

Leads(n) == EffectivePrimary(n, relayDown[n]) = n

Majority == Cardinality(Node) \div 2 + 1

(* Mutant of QuorumMet: counts a follower one sequence short.              *)
QuorumMetEarly(n, marks, seq) ==
    1 + Cardinality({m \in Node \ {n} : marks[m] + 1 >= seq}) >= Majority

(* Mutant of QuorumMet: asks for a watermark past the sequence.            *)
QuorumMetStrict(n, marks, seq) ==
    1 + Cardinality({m \in Node \ {n} : marks[m] > seq}) >= Majority

(* A majority holds `seq` by n's reckoning: n itself and every follower    *)
(* whose watermark has reached it.                                         *)
QuorumMet(n, marks, seq) ==
    1 + Cardinality({m \in Node \ {n} : marks[m] >= seq}) >= Majority

(* n claims leadership and stamps frames, persisting an advance first.     *)
ClaimAndPersistEpoch(n) ==
    LET e == Epochs!ClaimedEpoch(seenEpoch[n], led[n]) IN
    /\ seenEpoch' = [seenEpoch EXCEPT ![n] = Epochs!Observed(@, e)]
    /\ led' = [led EXCEPT ![n] = e]
    /\ epochFile' = [epochFile EXCEPT ![n] = IF e > seenEpoch[n] THEN e ELSE @]
    /\ stamped' = [stamped EXCEPT ![n] = @ \union {e}]

(* Mutant of TrySend: an unbounded queue.                                  *)
SendUnbounded(q, f) == Append(q, f)

(* A full peer queue drops the frame.                                      *)
TrySend(q, f) == IF Len(q) < FrameCapacity THEN Append(q, f) ELSE q

(* The frames that bring a follower at `floor` up to n's head: the log     *)
(* tail, a snapshot below the floor, or just the room's root when the      *)
(* follower is not behind.  An empty room sends nothing.                   *)
CatchUpFrames(n, floor) ==
    LET e == Epochs!ClaimedEpoch(seenEpoch[n], led[n])
        c == CatchUp(room[n], floor)
    IN IF c.kind = "snapshot"
       THEN {[kind |-> "ReplicateSnapshot", seq |-> c.seq, state |-> c.state, epoch |-> e]}
       ELSE IF c.ops # <<>>
       THEN {[kind |-> "Replicate", ops |-> c.ops, epoch |-> e]}
       ELSE IF RoomHead(room[n]) # 0
       THEN {[kind |-> "ReplicateMeta", epoch |-> e]}
       ELSE {}

(* Queue the catch-up frame, if there is one; building it claims an epoch. *)
SendCatchUp(q, frames) ==
    IF frames = {} THEN q ELSE TrySend(q, CHOOSE f \in frames : TRUE)

ClaimIf(n, frames) ==
    IF frames = {} THEN UNCHANGED epochVars ELSE ClaimAndPersistEpoch(n)

RecordWithheld(n, marks, entry) ==
    IF QuorumMet(n, marks, entry.seq)
    THEN /\ accepted' = accepted \union entry.ops
         /\ UNCHANGED pending
    ELSE /\ pending' = [pending EXCEPT ![n] = @ \union {entry}]
         /\ UNCHANGED accepted
-----------------------------------------------------------------------------
(* A client's batch reaches a node that believes it leads: the fresh ops   *)
(* commit, fan out, and the Accepted waits for a majority.                 *)
ClientWrite(n, batch) ==
    LET fresh == Fresh(room[n], batch)
        frame == [kind |-> "Replicate", ops |-> fresh,
                  epoch |-> Epochs!ClaimedEpoch(seenEpoch[n], led[n])]
        committed == Commit(room[n], fresh)
    IN /\ Leads(n)
       /\ fresh # <<>>
       /\ Resend \/ \A m \in Node : Range(batch) \intersect room[m].seen = {}
       /\ room' = [room EXCEPT ![n] = committed]
       /\ ClaimAndPersistEpoch(n)
       /\ queue' = [queue EXCEPT ![n] =
                      [m \in Node |-> IF <<n, m>> \in Dialed THEN TrySend(@[m], frame) ELSE @[m]]]
       /\ RecordWithheld(n, watermark[n],
                         [ops |-> Range(batch), seq |-> RoomHead(committed)])
       /\ UNCHANGED <<linkVars, acks, watermark, faults>>

(* A batch the node already holds is acknowledged at once.  The frame that *)
(* spreads the room's authority root, where a resend establishes it, is    *)
(* left out with the root.                                                 *)
ClientResend(n, batch) ==
    /\ Resend
    /\ Leads(n)
    /\ Range(batch) \subseteq room[n].seen
    /\ accepted' = accepted \union Range(batch)
    /\ UNCHANGED <<room, epochVars, linkVars, queue, acks, watermark, pending, faults>>

(* The author's connection closes: the ack it was owed is dropped.         *)
ClientDisconnect(n, entry) ==
    /\ pending' = [pending EXCEPT ![n] = @ \ {entry}]
    /\ UNCHANGED <<room, epochVars, linkVars, queue, acks, watermark, accepted, faults>>
-----------------------------------------------------------------------------
(* Mutant of ReplicaGate: fences a frame at the epoch already seen.        *)
ReplicaGateStrict(m, e) ==
    IF e <= seenEpoch[m] THEN "Fenced"
    ELSE IF Leads(m) /\ ~Epochs!LeadsBelow(led[m], e) THEN "Reject"
    ELSE "Apply"

(* The gate every replication frame passes before it is applied.           *)
ReplicaGate(m, e) ==
    IF e < seenEpoch[m] THEN "Fenced"
    ELSE IF Leads(m) /\ ~Epochs!LeadsBelow(led[m], e) THEN "Reject"
    ELSE "Apply"

(* Whether m closes the connection frame f came on.                        *)
Rejects(m, f) ==
    \/ f.kind \in {"Replicate", "ReplicateSnapshot"} /\ ReplicaGate(m, f.epoch) = "Reject"
    \/ f.kind = "ReplicateMeta" /\ room[m] # EmptyRoom /\ ReplicaGate(m, f.epoch) = "Reject"

(* Mutant of Defer: the observed epoch is not persisted.                   *)
DeferInMemory(m, e) ==
    /\ seenEpoch' = [seenEpoch EXCEPT ![m] = Epochs!Observed(@, e)]
    /\ led' = [led EXCEPT ![m] = Epochs!Superseded(@, e)]
    /\ UNCHANGED <<epochFile, stamped>>

(* An admitted frame makes m defer to its sender's epoch.  The write of    *)
(* the epoch file is taken to succeed.                                     *)
Defer(m, e) ==
    /\ seenEpoch' = [seenEpoch EXCEPT ![m] = Epochs!Observed(@, e)]
    /\ led' = [led EXCEPT ![m] = Epochs!Superseded(@, e)]
    /\ epochFile' = [epochFile EXCEPT ![m] = IF e > seenEpoch[m] THEN e ELSE @]
    /\ UNCHANGED stamped

(* m's answer to n, when the socket the frame came on is still up.         *)
Acked(n, m, seq, live) ==
    IF live THEN [acks EXCEPT ![n][m] = Append(@, seq)] ELSE acks

(* m closes the connection a frame it rejects came on.                     *)
CloseLink(n, m, live) ==
    link' = IF live THEN [link EXCEPT ![n][m] = "closed"] ELSE link

(* A frame of n's reaches m.  `q` is what remains queued, `live` whether   *)
(* the socket it came on still stands.                                     *)
ApplyReplicate(n, m, f, live) ==
    /\ f.kind = "Replicate"
    /\ \/ /\ ReplicaGate(m, f.epoch) = "Apply"
          /\ Defer(m, f.epoch)
          /\ LET applied == Ingest(room[m], f.ops)
             IN /\ room' = [room EXCEPT ![m] = applied]
                /\ acks' = Acked(n, m, RoomHead(applied), live)
          /\ UNCHANGED link
       \/ /\ ReplicaGate(m, f.epoch) = "Fenced"
          /\ UNCHANGED <<room, epochVars, acks, link>>
       \/ /\ ReplicaGate(m, f.epoch) = "Reject"
          /\ CloseLink(n, m, live)
          /\ UNCHANGED <<room, epochVars, acks>>
    /\ UNCHANGED watermark

ApplyReplicateSnapshot(n, m, f, live) ==
    /\ f.kind = "ReplicateSnapshot"
    /\ \/ /\ ReplicaGate(m, f.epoch) = "Apply"
          /\ Defer(m, f.epoch)
          /\ room' = [room EXCEPT ![m] = InstallSnapshot(f.state, f.seq)]
          /\ acks' = Acked(n, m, f.seq, live)
          /\ UNCHANGED link
       \/ /\ ReplicaGate(m, f.epoch) = "Fenced"
          /\ UNCHANGED <<room, epochVars, acks, link>>
       \/ /\ ReplicaGate(m, f.epoch) = "Reject"
          /\ CloseLink(n, m, live)
          /\ UNCHANGED <<room, epochVars, acks>>
    /\ UNCHANGED watermark

(* A root-only frame touches no op and is never acknowledged; a node that  *)
(* does not hold the room ignores it before the gate.                      *)
ApplyReplicateMeta(n, m, f, live) ==
    /\ f.kind = "ReplicateMeta"
    /\ \/ /\ room[m] = EmptyRoom \/ ReplicaGate(m, f.epoch) = "Fenced"
          /\ UNCHANGED <<epochVars, link>>
       \/ /\ room[m] # EmptyRoom /\ ReplicaGate(m, f.epoch) = "Apply"
          /\ Defer(m, f.epoch)
          /\ UNCHANGED link
       \/ /\ room[m] # EmptyRoom /\ ReplicaGate(m, f.epoch) = "Reject"
          /\ CloseLink(n, m, live)
          /\ UNCHANGED epochVars
    /\ UNCHANGED <<room, acks, watermark>>

(* n reports its durable head to m.  A leader takes the report, clamped to *)
(* its own head, as n's watermark and queues the catch-up from there; it   *)
(* releases no withheld ack.                                               *)
ApplyFollowerHeads(n, m, f, q) ==
    /\ f.kind = "FollowerHeads"
    /\ \/ /\ Leads(m) /\ room[m] # EmptyRoom
          /\ LET floor == IF f.head < RoomHead(room[m]) THEN f.head ELSE RoomHead(room[m])
                 frames == CatchUpFrames(m, floor)
             IN /\ watermark' = [watermark EXCEPT ![m][n] = floor]
                /\ queue' = [q EXCEPT ![m][n] = SendCatchUp(@, frames)]
                /\ ClaimIf(m, frames)
       \/ /\ ~(Leads(m) /\ room[m] # EmptyRoom)
          /\ queue' = q
          /\ UNCHANGED <<watermark, epochVars>>
    /\ UNCHANGED <<room, acks, link>>

Receive(n, m, f, q, live) ==
    \/ ApplyReplicate(n, m, f, live) /\ queue' = q
    \/ ApplyReplicateSnapshot(n, m, f, live) /\ queue' = q
    \/ ApplyReplicateMeta(n, m, f, live) /\ queue' = q
    \/ ApplyFollowerHeads(n, m, f, q)

Deliver(n, m) ==
    /\ link[n][m] = "up"
    /\ queue[n][m] # <<>>
    /\ Receive(n, m, Head(queue[n][m]), [queue EXCEPT ![n][m] = Tail(@)], TRUE)
    /\ UNCHANGED <<relayDown, stray, clientVars, faults>>

(* m reads a frame from a socket n has already given up on, or gives the   *)
(* rest of them up too.                                                    *)
DeliverStray(n, m) ==
    /\ stray[n][m] # <<>>
    /\ LET f == Head(stray[n][m])
       IN /\ Receive(n, m, f, queue, FALSE)
          /\ stray' = [stray EXCEPT ![n][m] = IF Rejects(m, f) THEN <<>> ELSE Tail(@)]
    /\ UNCHANGED <<relayDown, clientVars, faults>>

DropStray(n, m) ==
    /\ stray[n][m] # <<>>
    /\ stray' = [stray EXCEPT ![n][m] = <<>>]
    /\ UNCHANGED <<room, epochVars, relayDown, link, queue, acks, watermark, clientVars, faults>>

(* The leader side of an ack: the watermark only rises, and every withheld *)
(* Accepted a majority now covers is released.                             *)
RecordReplicaAck(n, m) ==
    /\ acks[n][m] # <<>>
    /\ LET marks == [watermark[n] EXCEPT ![m] =
                       IF Head(acks[n][m]) > @ THEN Head(acks[n][m]) ELSE @]
           released == {p \in pending[n] : QuorumMet(n, marks, p.seq)}
       IN /\ watermark' = [watermark EXCEPT ![n] = marks]
          /\ pending' = [pending EXCEPT ![n] = @ \ released]
          /\ accepted' = accepted \union UNION {p.ops : p \in released}
    /\ acks' = [acks EXCEPT ![n][m] = Tail(@)]
    /\ UNCHANGED <<room, epochVars, linkVars, queue, faults>>
-----------------------------------------------------------------------------
(* n's dial to m succeeds.  n marks m live, and on that view queues the    *)
(* catch-up for a follower it leads, then reports its own durable head.    *)
PeerUp(n, m) ==
    LET down == relayDown[n] \ {m}
        frames == IF EffectivePrimary(n, down) = n /\ room[n] # EmptyRoom
                  THEN CatchUpFrames(n, watermark[n][m]) ELSE {}
        heads == [kind |-> "FollowerHeads", head |-> RoomHead(room[n])]
    IN /\ <<n, m>> \in Dialed
       /\ link[n][m] = "down"
       /\ link' = [link EXCEPT ![n][m] = "up"]
       /\ relayDown' = [relayDown EXCEPT ![n] = down]
       /\ queue' = [queue EXCEPT ![n][m] = TrySend(SendCatchUp(@, frames), heads)]
       /\ ClaimIf(n, frames)
       /\ UNCHANGED <<room, stray, acks, watermark, clientVars, faults>>

(* The socket from n to m is lost with its unread acks and the k frames    *)
(* already written to it; what is still in the queue survives the redial.  *)
SocketLost(n, m, k) ==
    /\ link' = [link EXCEPT ![n][m] = "down"]
    /\ relayDown' = [relayDown EXCEPT ![n] = @ \union {m}]
    /\ queue' = [queue EXCEPT ![n][m] = SubSeq(@, k + 1, Len(@))]
    /\ acks' = [acks EXCEPT ![n][m] = <<>>]
    /\ UNCHANGED <<room, epochVars, watermark, clientVars>>

(* The network drops the socket: m may still read what was written to it.  *)
PeerDown(n, m) ==
    /\ link[n][m] = "up"
    /\ <<n, m>> \in FlakyLink /\ faults > 0
    /\ faults' = faults - 1
    /\ \E k \in 0 .. Len(queue[n][m]) :
          /\ SocketLost(n, m, k)
          /\ stray' = IF LateFrames
                      THEN [stray EXCEPT ![n][m] = @ \o SubSeq(queue[n][m], 1, k)]
                      ELSE stray

(* m closed the socket, and reads no more of it.                           *)
PeerClosed(n, m) ==
    /\ link[n][m] = "closed"
    /\ \E k \in 0 .. Len(queue[n][m]) : SocketLost(n, m, k)
    /\ UNCHANGED <<stray, faults>>

(* n's dial to m fails.                                                    *)
DialFailed(n, m) ==
    /\ <<n, m>> \in FlakyLink
    /\ link[n][m] = "down"
    /\ m \notin relayDown[n]
    /\ relayDown' = [relayDown EXCEPT ![n] = @ \union {m}]
    /\ UNCHANGED <<room, epochVars, link, queue, stray, acks, watermark, clientVars, faults>>

(* The process dies and comes back: the store gives back the room and the  *)
(* epoch, everything else starts over, and its sockets close.              *)
Reboot(n, r, e) ==
    /\ faults > 0
    /\ faults' = faults - 1
    /\ room' = [room EXCEPT ![n] = r]
    /\ seenEpoch' = [seenEpoch EXCEPT ![n] = e]
    /\ epochFile' = [epochFile EXCEPT ![n] = e]
    /\ led' = [led EXCEPT ![n] = 0]
    /\ relayDown' = [relayDown EXCEPT ![n] = {}]
    /\ link' = [a \in Node |-> [b \in Node |->
                  IF a = n THEN "down"
                  ELSE IF b = n /\ link[a][b] = "up" THEN "closed" ELSE link[a][b]]]
    /\ queue' = [queue EXCEPT ![n] = [m \in Node |-> <<>>]]
    /\ stray' = [a \in Node |-> [stray[a] EXCEPT ![n] = <<>>]]
    /\ acks' = [acks EXCEPT ![n] = [m \in Node |-> <<>>]]
    /\ watermark' = [watermark EXCEPT ![n] = [m \in Node |-> 0]]
    /\ pending' = [pending EXCEPT ![n] = {}]
    /\ UNCHANGED <<stamped, accepted>>

(* Mutant of Restart: the persisted epoch is not seeded.                   *)
RestartUnfenced(n) == n \in Crashable /\ Reboot(n, room[n], 0)

Restart(n) == n \in Crashable /\ Reboot(n, room[n], epochFile[n])

RestartWiped(n) == n \in Wipeable /\ Reboot(n, EmptyRoom, 0)
-----------------------------------------------------------------------------
Next ==
    \E n \in Node :
        \/ \E batch \in Batch : ClientWrite(n, batch) \/ ClientResend(n, batch)
        \/ \E entry \in pending[n] : ClientDisconnect(n, entry)
        \/ \E m \in Node \ {n} :
              \/ Deliver(n, m)
              \/ DeliverStray(n, m)
              \/ DropStray(n, m)
              \/ RecordReplicaAck(n, m)
              \/ PeerUp(n, m)
              \/ PeerDown(n, m)
              \/ PeerClosed(n, m)
              \/ DialFailed(n, m)
        \/ Restart(n)
        \/ RestartWiped(n)

Spec == Init /\ [][Next]_vars

(* What the runtime keeps doing on every link: frames and acks are moved,  *)
(* a lost socket is noticed and redialed.                                  *)
Fairness ==
    /\ WF_vars(\E nm \in Dialed : Deliver(nm[1], nm[2]) \/ RecordReplicaAck(nm[1], nm[2]))
    /\ WF_vars(\E nm \in Dialed : PeerUp(nm[1], nm[2]) \/ PeerClosed(nm[1], nm[2]))

FairSpec == Spec /\ Fairness
-----------------------------------------------------------------------------
TypeOK ==
    /\ room \in [Node -> Room]
    /\ seenEpoch \in [Node -> Nat]
    /\ led \in [Node -> Nat]
    /\ epochFile \in [Node -> Nat]
    /\ stamped \in [Node -> SUBSET Nat]
    /\ relayDown \in [Node -> SUBSET Node]
    /\ link \in [Node -> [Node -> {"down", "up", "closed"}]]
    /\ queue \in [Node -> [Node -> Seq(Frame)]]
    /\ \A n, m \in Node : Len(queue[n][m]) <= FrameCapacity
    /\ stray \in [Node -> [Node -> Seq(Frame)]]
    /\ acks \in [Node -> [Node -> Seq(Nat)]]
    /\ watermark \in [Node -> [Node -> Nat]]
    /\ pending \in [Node -> SUBSET Withheld]
    /\ accepted \in SUBSET Op
    /\ faults \in 0 .. MaxFaults

(* A node's head counts the distinct ops it holds: acks and watermarks     *)
(* compare heads, so a head that ran ahead of the ops would lie to the     *)
(* quorum.  Kept across compaction, snapshot transfer and failover.        *)
HeadCountsOps == \A n \in Node : RoomHead(room[n]) = Cardinality(room[n].seen)

(* As long as no write of the epoch file fails (a failure is swallowed):   *)
(* what a restart reads back is the fence the node was applying, and no    *)
(* frame in flight carries an epoch that its sender, unless its disk is    *)
(* lost, would not still honour.                                           *)
EpochDurable ==
    /\ \A n \in Node : epochFile[n] = seenEpoch[n]
    /\ \A n, m \in Node : \A f \in Range(queue[n][m]) \union Range(stray[n][m]) :
          f.kind # "FollowerHeads" =>
              f.epoch \in stamped[n] /\ (n \notin Wipeable => f.epoch <= epochFile[n])

(* Epochs behave as LeadershipEpochs promises, restarts and lost disks     *)
(* included.                                                               *)
EpochRefinement == Epochs!Spec

(* The write path's promise: a client's Accepted means a majority of the   *)
(* replicas hold the op.                                                   *)
AcceptedOnMajority ==
    \A op \in accepted : Cardinality({n \in Node : op \in room[n].seen}) >= Majority

(* The follower the primary credits with its whole head holds exactly the  *)
(* primary's ops, though watermarks are mere counts.                       *)
FullWatermarkIsIdentical ==
    LET p == Placement[1] IN
    \A m \in Node \ {p} :
        watermark[p][m] >= RoomHead(room[p]) => room[m].seen = room[p].seen

(* No step takes from a replica an op it holds: a frame only ever adds,    *)
(* and a snapshot replaces a replica by one that contains it.              *)
NoOpForgotten ==
    [][\A n \in Node : room[n].seen \subseteq room'[n].seen]_vars

(* Everyone takes p for the leader, every link is up, nothing in flight.   *)
Settled(p) ==
    /\ \A n \in Node : EffectivePrimary(n, relayDown[n]) = p
    /\ \A nm \in Dialed : /\ link[nm[1]][nm[2]] = "up"
                           /\ queue[nm[1]][nm[2]] = <<>>
                           /\ acks[nm[1]][nm[2]] = <<>>

(* Once the cluster has settled on one leader, with every link up and      *)
(* nothing in flight, that leader holds every op a client was told is      *)
(* accepted.                                                               *)
SettledLeaderHoldsAccepted ==
    \A p \in Node : Settled(p) => accepted \subseteq room[p].seen

(* Whatever the primary commits reaches every replica.                     *)
FollowersConverge ==
    \A op \in Op : op \in room[Placement[1]].seen ~> \A n \in Node : op \in room[n].seen

IsWithheld(op) == \E n \in Node : \E p \in pending[n] : op \in p.ops

(* A withheld Accepted is eventually released, or its client gone          *)
(* (registry.rs, record_replica_ack).                                      *)
WithheldIsReleased == \A op \in Op : IsWithheld(op) ~> ~IsWithheld(op)
=============================================================================

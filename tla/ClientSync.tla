----------------------------- MODULE ClientSync -----------------------------
(***************************************************************************)
(* A room's clients against its server: the sans-I/O client session        *)
(* (crates/core/src/client.rs) with its replica, resume cursor and outbox, *)
(* the SDK provider that connects it, and the server's handling of         *)
(* Subscribe and Ops (crates/server/src/session.rs, registry.rs).          *)
(*                                                                         *)
(* An op is <<client, seq>>.  A replica is the set of ops folded into it.  *)
(* Each connection is a pair of FIFO queues.  A dropped connection loses   *)
(* what the client had not yet received, while the server may still read   *)
(* what the client had sent (`stale`).                                     *)
(***************************************************************************)
EXTENDS RoomHub

CONSTANTS
    Client,
    MaxEdits,            \* bound on the edits of one client
    MaxDrops,            \* bound on dropped connections
    MaxCompactions,      \* bound on compactions of the room
    Refusable,           \* clients whose writes the server may come to refuse
    SnapshotOverOutbox   \* whether a client with unacknowledged edits may be
                         \* caught up by a snapshot; if not, the room compacts
                         \* only while every outbox is empty, and a client
                         \* behind the compaction edits once it has caught up

ASSUME ClientSyncAssumption ==
    /\ MaxEdits \in Nat
    /\ Op = Client \X (1..MaxEdits)
    /\ CompactionThreshold = 0
    /\ SnapshotOverOutbox \in BOOLEAN

VARIABLES
    room,       \* the server's room
    history,    \* every op the room committed, in order of its sequence
    bound,      \* clients whose live connection holds a subscription
    doc,        \* [Client -> SUBSET Op], the replica
    cursor,     \* [Client -> Nat], last_seen_seq
    outbox,     \* [Client -> Seq(Op)], authored and not yet acknowledged
    minted,     \* [Client -> Nat], the last sequence minted
    rejected,   \* ops reported to the app as rejected
    online,     \* clients with a live connection
    up,         \* [Client -> Seq], frames to the server
    down,       \* [Client -> Seq], frames to the client
    stale,      \* [Client -> Seq], frames of dropped connections still unread
    drops, compactions

vars == <<room, history, bound, doc, cursor, outbox, minted, rejected, online,
          up, down, stale, drops, compactions>>

serverVars == <<room, history, bound>>
clientVars == <<doc, cursor, outbox, minted, rejected>>
wireVars == <<online, up, down, stale>>

Subscribe(c) == [type |-> "subscribe", seq |-> cursor[c]]
OpsFrame(ops) == [type |-> "ops", ops |-> ops]

Init ==
    /\ room = EmptyRoom
    /\ history = <<>>
    /\ bound = {}
    /\ doc = [c \in Client |-> {}]
    /\ cursor = [c \in Client |-> 0]
    /\ outbox = [c \in Client |-> <<>>]
    /\ minted = [c \in Client |-> 0]
    /\ rejected = {}
    /\ online = {}
    /\ up = [c \in Client |-> <<>>]
    /\ down = [c \in Client |-> <<>>]
    /\ stale = [c \in Client |-> <<>>]
    /\ drops = 0
    /\ compactions = 0

-----------------------------------------------------------------------------
(***************************************************************************)
(* The client.                                                             *)
(***************************************************************************)

(* A local edit folds into the replica at once, joins the outbox, and is   *)
(* framed when the connection is open.                                     *)
Edit(c) ==
    LET op == <<c, minted[c] + 1>>
    IN /\ minted[c] < MaxEdits
       /\ ~SnapshotOverOutbox => cursor[c] >= room.base
       /\ minted' = [minted EXCEPT ![c] = @ + 1]
       /\ doc' = [doc EXCEPT ![c] = @ \union {op}]
       /\ outbox' = [outbox EXCEPT ![c] = Append(@, op)]
       /\ up' = [up EXCEPT ![c] = IF c \in online THEN Append(@, OpsFrame(<<op>>)) ELSE @]
       /\ UNCHANGED <<serverVars, cursor, rejected, online, down, stale, drops, compactions>>

(* A new socket, once authenticated, resumes the channel from its cursor   *)
(* and replays the outbox.                                                 *)
Connect(c) ==
    /\ c \notin online
    /\ online' = online \union {c}
    /\ up' = [up EXCEPT ![c] = IF outbox[c] = <<>> THEN <<Subscribe(c)>>
                               ELSE <<Subscribe(c), OpsFrame(outbox[c])>>]
    /\ UNCHANGED <<serverVars, clientVars, down, stale, drops, compactions>>

(* The socket dies.  Frames on their way down are lost; of those on their  *)
(* way up the server may still read any prefix.                            *)
Drop(c) ==
    /\ c \in online
    /\ drops < MaxDrops
    /\ drops' = drops + 1
    /\ online' = online \ {c}
    /\ bound' = bound \ {c}
    /\ down' = [down EXCEPT ![c] = <<>>]
    /\ up' = [up EXCEPT ![c] = <<>>]
    /\ \E k \in 0..Len(up[c]) : stale' = [stale EXCEPT ![c] = @ \o SubSeq(up[c], 1, k)]
    /\ UNCHANGED <<room, history, clientVars, compactions>>

(* Every op of a delta counts one sequence, whether new to the replica or  *)
(* not.                                                                    *)
ReceiveOps(c, f) ==
    /\ f.type = "ops"
    /\ doc' = [doc EXCEPT ![c] = @ \union Range(f.ops)]
    /\ cursor' = [cursor EXCEPT ![c] = @ + Len(f.ops)]
    /\ UNCHANGED <<outbox, minted, rejected>>

(* A snapshot replaces the replica.                                        *)
ReceiveSnapshot(c, f) ==
    /\ f.type = "snapshot"
    /\ doc' = [doc EXCEPT ![c] = f.state]
    /\ cursor' = [cursor EXCEPT ![c] = f.seq]
    /\ UNCHANGED <<outbox, minted, rejected>>

(* Mutant of ReceiveAccepted: an acknowledgement empties the outbox.       *)
ReceiveAcceptedAll(c, f) ==
    /\ f.type = "accepted"
    /\ outbox' = [outbox EXCEPT ![c] = <<>>]
    /\ UNCHANGED <<doc, cursor, minted, rejected>>

ReceiveAccepted(c, f) ==
    /\ f.type = "accepted"
    /\ outbox' = [outbox EXCEPT ![c] = Picked(@, {i \in DOMAIN @ : @[i][2] > f.through})]
    /\ UNCHANGED <<doc, cursor, minted, rejected>>

ReceiveRejected(c, f) ==
    /\ f.type = "rejected"
    /\ outbox' = [outbox EXCEPT ![c] = Picked(@, {i \in DOMAIN @ : @[i] \notin Range(f.ops)})]
    /\ rejected' = rejected \union (Range(outbox[c]) \intersect Range(f.ops))
    /\ UNCHANGED <<doc, cursor, minted>>

ClientReceive(c) ==
    /\ down[c] # <<>>
    /\ down' = [down EXCEPT ![c] = Tail(@)]
    /\ LET f == Head(down[c])
       IN \/ ReceiveOps(c, f)
          \/ ReceiveSnapshot(c, f)
          \/ ReceiveAccepted(c, f)
          \/ ReceiveRejected(c, f)
    /\ UNCHANGED <<serverVars, online, up, stale, drops, compactions>>

-----------------------------------------------------------------------------
(***************************************************************************)
(* The server.  `to` is the set of connections an answer can still reach.  *)
(***************************************************************************)

(* Subscribe binds the channel and answers with what the cursor misses.    *)
HandleSubscribe(c, f) ==
    LET answer == CatchUp(room, f.seq)
    IN /\ f.type = "subscribe"
       /\ bound' = bound \union {c}
       /\ down' = [down EXCEPT ![c] = Append(@,
                     IF answer.kind = "ops" THEN OpsFrame(answer.ops)
                     ELSE [type |-> "snapshot", seq |-> answer.seq, state |-> answer.state])]
       /\ UNCHANGED <<room, history>>

Queued(q, d, frames) == [q EXCEPT ![d] = @ \o frames]

(* Mutant of FanOut: the whole batch goes out, replays included.           *)
FanOutBatch(others, ops, fresh, q) ==
    [d \in Client |-> IF d \in others THEN Append(q[d], OpsFrame(ops)) ELSE q[d]]

(* What the batch added goes to every bound channel but the author's.      *)
FanOut(others, ops, fresh, q) ==
    [d \in Client |-> IF d \in others /\ fresh # <<>> THEN Append(q[d], OpsFrame(fresh)) ELSE q[d]]

(* Mutant of CommitOps: a replay that adds nothing is not acknowledged.    *)
CommitOpsFreshAck(c, ops, live) ==
    LET fresh == Fresh(room, ops)
        through == ops[Len(ops)][2]
        acked == IF live /\ fresh # <<>>
                 THEN Queued(down, c, <<[type |-> "accepted", through |-> through]>>)
                 ELSE down
        others == IF live THEN bound \ {c} ELSE bound
    IN /\ room' = Commit(room, fresh)
       /\ history' = history \o fresh
       /\ down' = FanOut(others, ops, fresh, acked)
       /\ UNCHANGED bound

(* Mutant of CommitOps: a batch whose connection has gone reaches nobody.  *)
CommitOpsUnheard(c, ops, live) ==
    LET fresh == Fresh(room, ops)
        through == ops[Len(ops)][2]
        acked == Queued(down, c, <<[type |-> "accepted", through |-> through]>>)
    IN /\ room' = Commit(room, fresh)
       /\ history' = history \o fresh
       /\ down' = IF live THEN FanOut(bound \ {c}, ops, fresh, acked) ELSE down
       /\ UNCHANGED bound

(* The batch is committed, acknowledged to its connection if that still    *)
(* lives, and fanned out.  To a frame of a dropped connection the author's *)
(* new connection is one more reader.                                      *)
CommitOps(c, ops, live) ==
    LET fresh == Fresh(room, ops)
        through == ops[Len(ops)][2]
        acked == IF live THEN Queued(down, c, <<[type |-> "accepted", through |-> through]>>)
                 ELSE down
        others == IF live THEN bound \ {c} ELSE bound
    IN /\ room' = Commit(room, fresh)
       /\ history' = history \o fresh
       /\ down' = FanOut(others, ops, fresh, acked)
       /\ UNCHANGED bound

RefuseOps(c, ops, live) ==
    /\ c \in Refusable
    /\ down' = IF live THEN Queued(down, c, <<[type |-> "rejected", ops |-> ops]>>) ELSE down
    /\ UNCHANGED <<room, history, bound>>

HandleOps(c, f, live) ==
    /\ f.type = "ops"
    /\ CommitOps(c, f.ops, live) \/ RefuseOps(c, f.ops, live)

ServerReceive(c) ==
    /\ up[c] # <<>>
    /\ up' = [up EXCEPT ![c] = Tail(@)]
    /\ HandleSubscribe(c, Head(up[c])) \/ HandleOps(c, Head(up[c]), TRUE)
    /\ UNCHANGED <<clientVars, online, stale, drops, compactions>>

(* A frame of a dropped connection: a Subscribe answers nobody.            *)
ServerReceiveStale(c) ==
    /\ stale[c] # <<>>
    /\ stale' = [stale EXCEPT ![c] = Tail(@)]
    /\ \/ Head(stale[c]).type = "subscribe" /\ UNCHANGED <<serverVars, down>>
       \/ HandleOps(c, Head(stale[c]), FALSE)
    /\ UNCHANGED <<clientVars, online, up, drops, compactions>>

CompactRoom ==
    /\ room.log # <<>>
    /\ compactions < MaxCompactions
    /\ ~SnapshotOverOutbox => \A c \in Client : outbox[c] = <<>>
    /\ compactions' = compactions + 1
    /\ room' = Compact(room)
    /\ UNCHANGED <<history, bound, clientVars, wireVars, drops>>

-----------------------------------------------------------------------------
Next ==
    \/ \E c \in Client :
          \/ Edit(c) \/ Connect(c) \/ Drop(c) \/ ClientReceive(c)
          \/ ServerReceive(c) \/ ServerReceiveStale(c)
    \/ CompactRoom

Spec == Init /\ [][Next]_vars

(* Providers redial for ever, and both ends keep reading their sockets.    *)
Fairness ==
    \A c \in Client : /\ WF_vars(Connect(c))
                      /\ WF_vars(ClientReceive(c))
                      /\ WF_vars(ServerReceive(c))
                      /\ WF_vars(ServerReceiveStale(c))

FairSpec == Spec /\ Fairness

-----------------------------------------------------------------------------
(* An edit is never lost: until the room holds it, it is in its author's   *)
(* outbox or was reported as rejected, whatever connections drop and       *)
(* whichever acknowledgement arrives first.                                *)
NoEditLost ==
    \A c \in Client : \A s \in 1..minted[c] :
        <<c, s>> \in room.seen \union Range(outbox[c]) \union rejected

(* The resume cursor never passes an op the replica lacks, although the    *)
(* client counts what it receives and is not sent its own ops.             *)
CursorNeverSkips ==
    \A c \in Client :
        /\ cursor[c] <= Len(history)
        /\ \A i \in 1..cursor[c] : history[i] \in doc[c]

(* A connected client with nothing under way in either direction.          *)
Quiet(c) == c \in bound /\ up[c] = <<>> /\ down[c] = <<>> /\ outbox[c] = <<>>

(* Once everything sent has been read, every connected replica holds       *)
(* exactly the room, but for edits the server rejected.                    *)
Converged ==
    \A c \in Client :
        Quiet(c) /\ (\A d \in Client : stale[d] = <<>>) =>
            room.seen \subseteq doc[c] /\ doc[c] \ room.seen \subseteq rejected

(* An edit does not stay unacknowledged for ever.                          *)
OutboxDrains == \A c \in Client : outbox[c] # <<>> ~> outbox[c] = <<>>
=============================================================================

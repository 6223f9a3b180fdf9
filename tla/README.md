# crdtsync in TLA+

A verification project for crdtsync: a CRDT document core (`crates/core`), a
sync server that keeps rooms of op logs and replicates them (`crates/server`),
and the client session that SDKs wrap. The modules here model its control, TLC
checks them on small instances, TLAPS proves theorems for every instance.
`PROJECT.json` maps each definition to the lines it models, and lists the runs,
the mutants that show each property can fail, the hazards and the theorems.

Run a model with `tlc -config X.cfg M`, a proof with `tlapm M.tla`.

## 1. The system

Many clients hold replicas of a *room*. A client edits its replica at once,
queues the ops in an outbox and sends them. The server's *hub* deduplicates ops
by id, appends them to the room's log, folds them into its own replica, compacts
the log into a snapshot, fans ops out to the other subscribers, to each what it
may read and at the schema version it speaks, and acknowledges the author. In a
cluster a room has a replica set in rendezvous order; the first live replica
leads, stamps its frames with an epoch and withholds each `Accepted` until a
majority holds the op. Rooms also carry branches, published branches and named
versions, all kept in files by the store, and the ephemeral presence of who is
there.

| Component | State | Operations | Talks to | What is hard |
|---|---|---|---|---|
| Room log (`server/lib.rs`) | floor, retained log, dedup set, replica | ingest, compact, catch-up, install snapshot | everything | the head must count ops exactly, across compaction and snapshot transfer |
| Replication (`registry.rs`, `replication.rs`, `runtime.rs`) | watermarks, withheld acks, peer queues, sockets | write, fan-out, apply, ack, head report, catch-up | peer nodes | acks are counts; queues drop; sockets die with frames in flight; restarts |
| Leadership (`leadership.rs`) | seen epoch, led epoch, epoch file | claim, observe, step down, persist | replication | claims made without seeing each other; the fence must survive a restart |
| Membership (`membership.rs`, `gossip.rs`, `placement.rs`) | roster, incarnations, verifiers, relay view, tombstones | gossip, probe, suspect, reap, refute, adopt, place | leadership | nodes disagree about who is alive; what was reaped is still gossiped |
| Store (`store.rs`) | one file per kind and room | append, replace, remove, load | hub | crash between two writes, torn tails, files left behind |
| Branches, versions (`lib.rs`, `auto_version.rs`) | branch registry, tails, bases, active HEAD, versions, ordinals, tree cache | fork, restore, publish, delete, capture, retain | store, sessions | several files per operation, names reused, cached trees |
| Client session (`core/client.rs`, SDK providers) | replica, resume cursor, outbox, peers' presence | edit, subscribe, receive, resend | server sessions | the cursor counts; acks lost; snapshot over unsent edits |
| Server session (`session.rs`, `registry.rs`) | subscriptions, outgoing queues | Subscribe, Ops, Unsubscribe, branch and version messages, redaction, translation | hub, replication | frames of an old connection after the new one; two ways to join must agree |
| Sequence CRDT (`list.rs`, `text.rs`) | nodes, compressed tombstone runs | insert, delete, merge, encode, decode | document | arrival order, run welding and cutting |
| Document (`doc.rs`, `map.rs`, `counter.rs`, `register.rs`) | slots, containers, tallies, annotations, tuples, clocks per zone, seen set, buffer, transactions | emit, apply, drain, evict, snapshot | sequence, tree moves | ops before what they need, containers displaced and put back, partial groups |
| XML tree (`treemove.rs`, `doc.rs`) | nodes, move log, placements | insert, move, delete, refold | document, sequence | moves that together make a cycle, a delete over a move |
| Undo (`undo.rs`, `doc.rs`) | undo and redo stacks, revived ids | record, undo, redo | document, tree | what was deleted is made anew under another id |
| Access control (`core/acl.rs`, `server/acl.rs`) | tuples with their revokers | grant, revoke, decide, gate an op | document, sessions | authority that rests on tuples which are themselves revoked |
| Migration (`migration.rs`, `translate.rs`) | the chain of schema versions | rewrite an op, rewrite a snapshot | sessions | the op seam and the snapshot seam must show one document |
| Awareness (`lib.rs`, `registry.rs`, `client.rs`) | presence per client, grace, ages | set, replay, expire, clear | sessions | two tabs of one actor, grace after a drop, a sibling's expiry |

Each node runs one actor for all its rooms, so a handler runs to completion.
The concurrency is between nodes, between sockets and their queues, between
clients, between replicas, and, with a crash, between the file writes of one
handler.

What makes each part correct: an acknowledged op is held by a majority and is
served later; epochs only rise and never fall with a restart; a follower that is
credited with the head equals the leader; running nodes settle on one running
leader; every reader of every stream gets exactly what it misses, restarts change
nothing a reader can see; no client edit is lost and quiet replicas equal the
room; replicas with the same ops are equal, whatever the order, and are what the
ops mean; a transaction takes effect as a whole; the tree stays a tree; undo puts
back what was shown; a verdict follows from the tuples alone; a reader sees the
same document whichever way it joined; presence is shown while, and only while,
it is held.

## 2. Modules

| Module | Models | Extends |
|---|---|---|
| `RoomHub` | one stream as the hub holds it, as operators | |
| `LeadershipEpochs` | abstract specification of the epochs, no disk and no network | |
| `RoomReplication` | the cluster replicating one room | `RoomHub`, instantiates `LeadershipEpochs` |
| `Membership` | gossip, liveness, reaping, adoption and the leader each node sees | |
| `RoomStreams` | main, branches, published branches and versions of a room over its files | `RoomHub` |
| `ClientSync` | clients, connections and the server's session for one room | `RoomHub` |
| `Sequence` | the list CRDT with compressed tombstones, as operators | |
| `TextReplicas` | replicas editing one text and folding each other's ops | `Sequence` |
| `Document` | one replica of a document: slots, containers, counters, annotations, tuples, buffer, transactions, snapshot | |
| `DocReplicas` | replicas of a document: edits, transactions, undo, giving up, adoption of a snapshot | `Document` |
| `TreeMoves` | one replica of an XML tree with its move log | |
| `TreeReplicas` | replicas of a tree: edits, twin stamps, undo, revival | `TreeMoves` |
| `AccessControl` | the evaluator of tuples, both layers, and the read gate of an op | |
| `Delegation` | principals granting, denying and revoking over an element that moves | `AccessControl` |
| `Migration` | the schema chain: ops and snapshots rewritten for a reader | `Document` |
| `Redaction` | a room and its readers: fan-out, log and snapshot, each gated, scoped and translated | `Migration`, `AccessControl` |
| `Awareness` | the presence of one room, from hub to session | |
| `RoomHubProofs` | lemmas on rooms and sequences | `RoomHub` |
| `RoomReplicationProofs`, `ClientSyncProofs`, `MembershipProofs`, `DelegationProofs`, `RoomStreamsProofs`, `AwarenessProofs`, `TreeReplicasProofs` | theorems and their lemmas | the module |
| `MC*` | constants for TLC: links, ops, menus of edits, budgets, symmetry | the module |

How state and actions correspond to the code:

* **RoomHub.** A room is `[base, log, seen]`. A document is a function of the ops
  folded into it, so `seen` is both the dedup index and the replica. `Ingest`,
  `Compact`, `CatchUp` and `InstallSnapshot` are the hub functions of those names.
* **RoomReplication.** `room`, `seenEpoch`, `led`, `watermark` and `pending` are the
  registry's fields per node, `epochFile` the file, `queue` the bounded peer frame
  queue with what is in the socket buffer, `acks` the way back. `stray` holds frames
  of a socket its dialer has given up and the other side still reads. One action per
  message handler (`ApplyReplicate`, `ApplyReplicateSnapshot`, `ApplyReplicateMeta`,
  `ApplyFollowerHeads`, `RecordReplicaAck`), per client event (`ClientWrite`,
  `ClientResend`, `ClientDisconnect`) and per link event. `stamped` and `accepted`
  are history variables. Leadership is computed from `relayDown` exactly as
  `effective_primary` does; here the relay links alone decide, the gossip view that
  also counts is `Membership`'s subject.
* **Membership.** `view[n]` is node n's table: per member its incarnation, state,
  failed probes and age, the verifiers it was told of, the relay links down, the
  configured and the reaped. A gossip round is three steps (`StartRound`,
  `ApplyGossip`, `FinishRound`, or `FailRound` with the relayed probes), with
  anything in between; `Sweep` ages, reaps and expires tombstones. `linked` is a
  history variable: who has really dialed whom.
* **RoomStreams.** `mem` is the hub, `disk` the files, `hist` the op sequence each
  stream and version stands for (a history variable). An operation is a *plan*: its
  durable writes in order, with the memory reached, and what a failing write leaves.
  `Perform` runs a plan to its end, or crashes after any of its writes, or fails one
  of them. Appends may be cut between records, or inside one where `Tears` is set.
* **ClientSync.** `doc`, `cursor`, `outbox` and `minted` are the session's fields,
  `up`/`down` the connection's queues, `stale` frames of dropped connections that
  the server still reads. The refusal of a client's writes is a free choice for the
  clients in `Refusable`.
* **Sequence, TextReplicas.** `nodes` and `dead` are the two maps of `List`; a dead
  record is a run. `Spans`, `Cuts` and `InOrder` are the walk over nodes and pieces
  of runs, `Placement` the insertion rule, `Bury` the merge of another's run,
  `EncodeState`/`DecodeState` the snapshot. `Text(S)` is the reference: the same tree
  walk over single items with no compression, straight from a set of ops. A list's
  `Seated` ranking of two claims to one id is left out here: stamps name their author
  and a mint is above everything the author holds, so honest claims never meet (the
  tree module has them, as twins).
* **Document, DocReplicas.** A replica is one record. An element id is the path it
  is derived from (`Child`), which is what the hash of the code stands for. `slots`
  hold stamp, value and the highest create ever seen at the slot; `held` the
  containers and `tallies` the counters, displaced or not; `marks` the annotations,
  `tuples` the access control set. `Apply` buffers what is not `Ready`, holds the
  members of a transaction until `IsComplete`, and drains. `spent` are the
  transaction keys used up. `MintFloor` is the document-wide floor of a new stamp.
  `history` holds the stacks of inverses (`InverseOf`), replayed by `Undo`/`Redo`.
  `SlotOf`, `MarkOf`, `Sum` are the reference: what a set of ops means with no order.
* **TreeMoves, TreeReplicas.** `log` is the move log in stamp order, refolded from the
  late arrival on (`RefoldMoves`); a move into its own descendants is inert. `places`
  are a node's placements, `dead` and `away` those deleted and suppressed, `parents`
  the links reachability walks. `Twin` lets a second op carry a stamp already minted
  into the same list, as a restored device does. Sibling order is left to `Sequence`.
* **AccessControl, Delegation.** `Settled` is the bounded pass loop of
  `decide_capability_with_authority` with its resolution of a revoke in flux,
  `DecideCapability` the plain layer, `OpReadGate` and `Admits` the gate of a served
  op. `records` is the grow-only set with the revokers of each tuple.
* **Migration, Redaction.** `TranslateOps` is the op seam and `MigrateLeafSlots` the
  snapshot seam of a version change. `room` keeps the replica, every op with the
  version it was written at, and how much is compacted away. `CatchUpOps`
  (a log) and `FanOut` (a live commit) gate, narrow and translate a delta, each in the
  order its code does, and destrand what is left of a split transaction;
  `ServedSnapshot` does the same to a state (`ProjectReadPaths`, `ProjectZones`,
  `TranslateSnapshot`, `Scrub`).
* **Awareness.** `presence` is the hub's map from client and key to actor, value and
  ages; `stale` the departed within their grace; `roomApp` and `governing` which app
  and version decide time to live and throttle; `phase`, `old` and `outbox` the
  connections, the lingering ones included; `view` what each session shows. Time is
  kept as ages, counted up to the point past which no rule tells them apart.

## 3. Runs

All runs pass. `CHECK_DEADLOCK FALSE` stands where the bounded number of edits, ops
and faults lets the system come to rest.

| Run | Instance | Shows |
|---|---|---|
| `stable` | 2 nodes, 3 ops, 2 faults: primary's link drops, follower restarts | a follower with a full watermark is identical (`FullWatermarkIsIdentical`); no replica loses an op (`NoOpForgotten`) |
| `epochs` | 2 nodes, 1 op, 2 faults: failover both ways, late frames, resends, restart, lost disk, queue of 2 | bounded queues (`TypeOK`), heads count ops, the epoch file is the fence, the epochs implement `LeadershipEpochs` |
| `live` | 3 nodes, 2 ops, no faults, compaction at 2, queues that never fill, each op sent once, one follower dialing back, fair links | an `Accepted` means a majority holds the op; committed ops reach every replica, withheld acks are released |
| `ring` | 3 nodes, replication factor 2, one may crash, one fault, one round under way | a member is placed on first-hand evidence only; every running node settles on one running leader |
| `served` | 3 ops, 2 branches, 2 versions, one crash or failed write | every reader of every stream gets exactly what it misses, from the log and from cached trees; restarts are invisible; versions hold what they captured, in order |
| `client` | 2 clients, 2 edits each, 1 drop, 1 compaction, one client may be refused | no edit lost, the cursor never skips, quiet replicas equal the room, outboxes drain |
| `text` | 2 replicas, 4 ops, 4 items, runs of up to 2, tombstone records of 1 | convergence, also through a snapshot; the compressed list shows the text its ops define; merges are unions; no interleaving |
| `document` | 2 replicas, 1 key, 1 nested map, up to 4 edits, 1 transaction, 3 undos, 1 eviction, 1 adoption, in eight budgets | each replica holds what its ops mean and strands none; snapshots are accepted and faithful; transactions are whole; no id or stamp is minted twice; undo and redo restore |
| `moves` | 2 replicas, 3 nodes to begin with, up to 3 edits, 1 twin, 2 undos, in four budgets | convergence, links that agree with the log, one rooted tree, every node shown once or deleted, undo and redo restore |
| `delegation` | 4 principals, 9 tuples of which 4 written, 2 revokes, an element in 2 places | the bounded passes end at the reference, and agree with the plain layer where no authority is in question; nothing is gained or lost without authority; the creator keeps everything |
| `joins` | 4 clients, 3 schema versions, 1 zone, up to 3 edits, 1 compaction, 1 rejoin, in six budgets | log and snapshot show a joiner the same; a live subscriber sees what a fresh one would; no write of a redacted client is swallowed as a duplicate |
| `awareness` | 3 clients of 2 actors and 2 apps, 3 keys, up to 3 updates, 2 lost connections, in four budgets | sessions show what is held; nothing is dropped without cause; ghosts go |

A *budget* is one choice of bounds; `Init` picks one and the whole behaviour spends
it. Every budget spends its bounds on one group of interactions (all slot edits on
both replicas; transactions delivered in pieces; undo with the other's ops coming
in; ...), since their product is out of reach.

Why the bounds suffice for what is asked: the replication hazards need one fault
while a frame is in flight and one more to expose it, hence two; three nodes are
needed where a majority differs from all. In `served` one interruption is
placed at every point of every operation (except a crash in a publish onto a writable
branch, and a failed write in a branch append or a delete: see the known
divergences), and compaction at two ops makes it happen in the middle of forks and
restores; batches of one op reach the same states as longer ones there, a torn batch
being a prefix of single ops. Two ticks and a window of one version make one automatic
version evict another, also where the write of that fails. Clients read the tree of one
of the two branches, the
one that is written (`ReadFrom`); the other's tree is cached only when it is published
from. In `text` a run cut from inside takes an insert, a concurrent insert hung off
it, and two deletes; four ops hold that. A tombstone record of one id makes every
longer run cross the record limit. In `document` a displaced container that comes
back takes a create, an overwrite and a second create; three edits hold that, four
where a transaction and a stray of it have to meet. In `moves` two moves make a cycle
and a third one breaks it; a moved text whose birth stamp an element takes is two edits
and a twin. In `delegation` a revoke whose author is itself revoked
takes three owners in a line and two revokes. In `joins` a split transaction and a
compaction meet in one budget, a grant that changes and a rejoin in another; in two
the renamed key holds a container, deleted and made again, or deleted beside a write to
the key that the delete moves to.

The passing runs keep some cases apart that the code does not handle; the constants
that switch them off are named (`Resend`, `FlakyLink`, `Reuse`, `Tears`, `CrashIn`,
`FailIn`, `SnapshotOverOutbox`, `Prompt`, and the budgets' `stale` and `steady`), and
section 5 lists them, most with a configuration that shows the case.

What each instance takes for granted:

* `epochs`: writes of the epoch file succeed. `Hub::persist_epoch` (`lib.rs:1288-1295`)
  swallows an error, after which a restart reads a lower fence than the node had applied;
  `EpochDurable` and the theorem `EpochsDurable` speak of the time before. The room's
  authority root is not modelled, nor the frame that a resend sends on its own where it
  establishes the root (`registry.rs:3224-3234`).
* `served`: a write that fails leaves the file as it was. A `sync_all` or a directory flush
  that fails with the new bytes in place (`store.rs:174`, `store.rs:431`) returns the same
  error, memory takes the change back, and a restart shows it.
* `client`: the room compacts while every outbox is empty, and a client behind the
  compaction edits once it has caught up (`SnapshotOverOutbox` is false).
* `ring`: gossip outruns the reap and tombstone clocks (`Prompt`; 30 sweeps before a
  reap and 300 before a tombstone expires, against one round a second). Without it a
  cluster of two can reap each other for good, and a stale `Alive` brings a reaped
  member back. Every node is configured with every other; a joiner is a demonstration.
* `document`: honest envelopes, one undo origin, intentions of one op or one group. The
  edits offered in the undo budgets name only what is shown.
* `moves`: twin inserts of one kind agree on what they insert; one twin stamp in two
  lists, whose outcome depends on the order of arrival, is left out.
* `delegation`: authors are named truthfully, owners are made from the creator
  downward, and an owner is revoked by its seniors only.
* `joins`: commit and fan-out are one step (frame order is `ClientSync`'s subject), all
  writes are authorised, one app governs, the main branch only, zone keys hold only
  containers, no XML nodes. Annotations are compared where what they hang on is there,
  tuples where their scope is: elsewhere they show and decide nothing.
* `awareness`: one room, which the hub holds (the sweep forgets the governing app of
  others), one channel per connection, every session may read (`peer_may_read` passes), a client
  id always authenticates as one actor, a monotone clock; a replay is one frame;
  no failover.

**Fairness.** `RoomReplication!Fairness`: as long as some link can, one delivers a
frame or an ack, and as long as one is down or closed, one is redialed or noticed
(`runtime.rs`, `dial.rs` loop with back-off); it says less than fairness of every
link, and in a bounded instance comes to the same. `Membership!Fairness`: a round under
way ends by an answer or a timeout, redials never stop, and the random choice of a
peer reaches each again and again (strong fairness of `StartRound`); sweeps, losses,
crashes and restarts are not fair. `ClientSync!Fairness`: providers redial for ever
and both ends keep reading. `Awareness`: time passes, the runtime's interval runs the
sweep, a live connection's queue is delivered. Client edits, faults, compaction and
refusals are never fair. `Drop` has no fairness and is bounded.

## 4. Proofs

Eight modules hold theorems or the lemmas they rest on, and prove for every value of
the constants that satisfies the named assumptions of the module extended. Where a
theorem has a hypothesis of its own, it names the faults the code does not handle;
section 5 has the counterexamples.

| Theorem | Module | Hypothesis | Inductive invariant |
|---|---|---|---|
| `EpochsTyped`, `EpochsSound`, `FenceMonotone` (of `LeadershipEpochs`) | `RoomReplicationProofs` | none | `EpochInvariant`, with the types |
| `EpochsRefined`, `EpochsDurable` | `RoomReplicationProofs` | none | `EpochIInv` |
| `HeadsCount`, `ReplicationTyped` | `RoomReplicationProofs` | none | `LogInv` |
| `FullWatermark`, `NothingForgotten` | `RoomReplicationProofs` | `StablePrimary` | `PrimaryInv` |
| `AcceptedHeld` | `RoomReplicationProofs` | `SteadyPrimary`, `[]RoomLeft` | `SteadyInv`, with `PrimaryInv` |
| `EditsSafe` | `ClientSyncProofs` | none | `SyncInv` |
| `CursorSafe`, `QuietAgrees` | `ClientSyncProofs` | `~SnapshotOverOutbox` | `CursorInv` |
| `FirstHandPlacement` | `MembershipProofs` | none | `FirstHand` |
| `CreatorSafe` | `DelegationProofs` | `NoOwnToCreator` | `RecordsInv` |
| `RestartSafe` | `RoomStreamsProofs` | `CleanFaults` | `Kept` |
| `HistoryServed`, `VersionsSafe` | `RoomStreamsProofs` | `CleanFaults`, `Tracked` | `Kept` and `Told` |
| `PresenceShown` | `AwarenessProofs` | none | `PresenceInv` |
| `NothingEarly` | `AwarenessProofs` | none | `GraceInv`, with `PresenceInv` |
| `TreeRooted`, `TreeShownOnce` | `TreeReplicasProofs` | none | `TreesSound` |

`RoomHubProofs` has no theorem, only the lemmas on `RoomHub` that the others cite: what
concatenating, cutting and picking from a sequence yields (`ConcatRange`, `SubSeqRange`,
`PickedElements`), that dedup keeps each new op once (`FreshOps`), and that ingest,
compaction, catch-up and snapshot install keep a room *sound* (`SoundRoom`: the head is
the number of ops held, and the retained log is among them).

* **Epochs.** A leader leads at the highest epoch it saw, a node that keeps its disk
  never stamped above what it saw, and every fence value was claimed: inductive together
  with the types. `EpochsRefined` shows that replication implements this specification.
  Its invariant adds to the types that the epoch file equals the fence and that every
  frame in a queue or a stray socket carries an epoch its sender stamped
  (`FramesStamped`): a frame that is applied must correspond to an abstract frame.
  `EpochsDurable` follows from `EpochsSound` through the refinement. The theorems on the
  abstract specification are stated of the instance replication implements, `Epochs!Spec`.
* **The replicated log.** `HeadCountsOps` is not inductive: a snapshot on its way installs
  the sequence it names. `WiresSound` says that every such frame names the number of ops
  it carries, and that queues stay within their capacity.
* **The primary.** Acks and head reports are counts, so `FullWatermarkIsIdentical` needs
  to know what a count is about. `StablePrimary`: the first replica in placement order
  neither restarts nor loses a follower's link to it, no disk is lost, no frame outlives
  its socket; its own links may drop frames and followers may restart. `OneLead` says that
  nobody doubts it, `OneSender` that nobody else sends ops, `Behind` that a follower holds
  a part of its ops, that what is queued is a part too, that a snapshot on its way has
  all that the follower holds and all that is queued before it (`Covers`), and that no
  count in flight and no watermark exceeds what the follower holds.
* **Accepted.** The primary releases an `Accepted` when a majority's watermarks reach the
  head it had when it committed the op; the watermark says how many ops a follower holds,
  not which. `SteadyInv` says why the count suffices. `OneEpoch`: the primary leads in one
  generation and nobody fences its frames. `Followed`: what a follower lacks is queued for
  it. `CutsTracked`: for each withheld `Accepted` there is a *cut*, the ops the primary
  held when it committed; a follower that reads its queue frame by frame passes through
  exactly that set (`Tracks`), so once it holds as many ops as the cut it holds the cut
  (`CutHeld`), and a majority of such counts is a majority of holders (`QuorumHolds`).
  `SteadyPrimary` adds to `StablePrimary` that no node restarts, no op is resent and the
  links of the primary do not drop; links between followers may. `RoomLeft`: no queue of
  the primary's is full. Section 5 has what happens without each of them.
* **Clients.** `EditsInv` follows an edit through outbox, connection, stale connections and
  acknowledgements. For the cursor, the room's log is the end of a history (`HistoryInv`);
  a connection opens with one Subscribe naming the cursor (`Opening`); a snapshot is sent
  only to a client with nothing of its own under way (`SnapshotsAlone`, which is where
  `SnapshotOverOutbox` matters); and reading the frames on their way one by one never
  leaves the cursor past an op the replica lacks (`Traced`).
* **Membership.** A verifier in a view, in a gossip under way or in an answer has itself
  dialed the member it vouches for: hearsay is passed on but never made.
* **Delegation.** The evaluator is a bounded iteration. `PassesIn` follows it by
  well-founded minimality over the number of passes; `CreatorOnTop` shows that no pass
  revokes or suppresses the creator, whatever the passes have made of everyone else.
  `NoOwnToCreator`: no grant of ownership of the root names the creator.
* **Streams.** `Kept`: the files can be loaded (`Sane`) and the hub agrees with what loading
  them gives (`Agree`). It says more than `RestartInvisible`, because the head of a branch
  on disk may trail its tail, a file may be left under a name no pointer reads, and a
  snapshot may overlap the log. Each operation is a plan of writes: `GoodWrites` says that
  the files after each write, and after each piece of an append, can be loaded, and that a
  write that fails leaves memory in agreement; `PerformKeeps` turns that into the step, and
  there is one lemma per operation. `CleanFaults`: a crash leaves whole records, a fork
  takes a clean name, and no write fails inside a branch append or a delete.
* **Streams against their histories.** `RestartSafe` says that memory and files agree, not
  that either is right. `Told` relates both to the history of what was committed. In the
  files (`FilesTell`) the snapshot holds the first ops of main's history and the log all
  the others, possibly with some of the snapshot's again (`MainTold`); a branch's tail is
  its history after its fork point and its base is its history up to it, be it a file of
  its own or main's prefix (`TailTold`, `BaseTold`); a version is the state it was taken
  of, under an ordinal below the counter. In memory (`HubTells`) the retained log is the
  end of main's history and each cached tree a prefix of its branch's. The argument has
  the shape of the one for `Kept`: `TellsWrites` for a plan, `PerformTells` for a step, one
  lemma per operation. `Tracked` leaves out two cases in which the code does lose track
  of a history: a fork of a branch, which reads main's log, and a crash inside a publish
  onto a writable branch.
* **Awareness.** `PresenceAgrees` speaks of a session with nothing left to read; the
  invariant speaks of every session that watches the room. `ToldRight`: reading the frames on
  their way one by one (`Reads`) ends with what is right for the presence held now
  (`Matches`). An update or a join adds a frame at the end; a sweep ends entries of
  several clients, and `Trimmed` says what a session has lost and kept after being told
  of one of them, so that the whole loop over the departed, in whatever order, trims it
  as the presence was trimmed. `GraceInv`: a client in its grace has no connection, a
  lingering connection with something unread had joined, and whoever is in the room or
  holds presence is governed by a version of its app no older than its own. The last is
  what `bind_room_app` and `reconcile_room_apps` maintain between them, and where
  lowering the version with the last session to leave would end an entry early.
* **Tree.** `Rooted` alone is not inductive: undoing a move gives its node the parent the
  log remembers, and nothing in `Rooted` says that this was sound. `TreesSound` says of
  every replica that its parent relation can be *traced* (`Traced`): there is a sequence of
  relations, one before and one after each move of the log, the last of them the tree as
  it is, such that each is the one before with the move applied (or not, where it would
  make a cycle), the log has remembered what the move overwrote, and **every one of them
  hangs** from the fragment (`Hung`: no set of nodes leads only into itself). Then undoing
  back to a stamp is stepping back along the trace (`UndoTakesBack`, `RewoundIs`), and
  redoing what is later builds a new one, because a move that is neither onto nor below
  itself keeps a hanging tree hanging (`MoveHangs`) and a new leaf hangs below its owner in
  every tree of the trace at once (`LeafHangs`, `BirthKept`). `AncestorsOf` is an iteration;
  `Closure` shows that it computes the least closed set, by minimality over the number of
  nodes left out, and `HungRooted` turns a hanging tree into `Rooted`. The folds over the
  log, the buffer, a snapshot and a plan are unrolled by the same minimality
  (`UndoFold`, `RedoFold`, `DrainFold`, `RebuildFold`, `PlannedFold`). The rest of what
  `Rooted` needs keeps the operations within the nodes: placements name nodes born before,
  a move never names the fragment, and buffered ops and the histories' steps are well
  formed.
* **What the tree shows.** `Folded` says what a fold leaves suppressed, which gives
  `ShownOnce` where the log's parent of a node has a placement of it to show: after a
  placement was lost to another op of the same stamp, nothing about a single tree says
  so. `Shelved` and `ArrivedBut` do. Every entry of the log put its node where it is held
  now (`Lodged`: who is put out takes its entry along); a node is where it was born or
  where an entry put it; and a node's birthplace is held, by the node itself if it is an
  element (`BirthsHeld`), because an element outranks whatever else claims that place
  (`ElementWins`, `ElementStays`). A text may lose its birthplace to the element of the
  same stamp, but a text that was moved stays moved (`MovedByLog`: nothing is ever below
  it, so none of its moves makes a cycle), and so it is looked for where it is
  (`PlacedThere`). `Unique`: a stamp names one placement. That is kept because every op is
  minted past the clock of its replica (`Below`, `EmitGood`) and because `Twin` repeats a
  stamp in its own list; one stamp under two lists is not modelled. Any number of moves
  and births may share a stamp in one list, in both theorems.

Only model-checked:

* Liveness (`FollowersConverge`, `WithheldIsReleased`, `OneLeader`, `OutboxDrains`,
  `GhostsGo`), which depends on fairness.
* `Converged` and `UndoRestores` of the tree compare the results of two histories of
  operations, an induction over the ops. The clause `LinksFollowLog` of `Converged` is no
  invariant for three ops on one stamp, which the bounds of `moves` leave out
  (`Tree_thrice.cfg`, section 5).
* Everything about the sequence's walk and the document's fold (`TextReplicas`,
  `DocReplicas`), which are recursive over data: what a fold computes, not what it keeps.
* What the evaluator's passes settle to (`SettlesToReference`, `AuthorityNeeded`): a pass
  in between may grant what the last one takes back, so no invariant of the single pass
  says it.
* The seams of `Redaction`, recursive over paths and over the chain of versions.

## 5. Known divergences

Met while modelling: places where the code does something a comment or a document
denies, or where a property holds only with the case kept out. A configuration
shows the case where one is named: TLC finds the property it lists violated.

Replication and membership:

* Two link drops: the acks are counts, so a later ack credits a frame that was lost,
  and the follower misses the op for good (`Replication_gap_forever.cfg`), where
  `registry.rs:251` and `runtime.rs:59` expect a catch-up. With three nodes and two ops
  one drop suffices for an `Accepted` that no majority holds.
* A frame that finds a full queue is dropped, and the ack of the next one counts for it:
  with two nodes and no fault an op is accepted that only the primary holds
  (`Replication_full_queue.cfg`; `runtime.rs:57-61` has the follower catch up and the
  majority hold the write).
* A promoted backup's majority-acknowledged op is not on the primary that returns and
  leads again (`Replication_recovered_primary.cfg`; `ARCHITECTURE.md:963`).
* A resent op is acknowledged at once though its first `Accepted` is still withheld
  (`registry.rs:3243`): with `Resend` true `AcceptedOnMajority` fails.
* Two nodes that claim without having heard of each other lead at the same epoch
  (`leadership.rs:7`). `LeadershipEpochs` allows it.
* A head report clamps a follower's watermark to the leader's head although the
  follower may hold other ops (`replication.rs:34-36`).
* Acknowledgements withheld by a node that loses leadership stay with it
  (`registry.rs:128-131`); a snapshot or an ack of a socket already replaced is still
  taken (`lib.rs:1754`, `registry.rs:713`).
* A node learned by gossip that dies for good is kept live by two survivors, each
  vouching for it to the other's indirect probe (`Membership_joiner.cfg`;
  `registry.rs:1555`).

Streams and store:

* What is appended behind a torn record is not read back (`Streams_torn_tail.cfg`;
  `store.rs:10`, `store.rs:172`).
* A base file left by a crash inside a fork is adopted by a later fork of that name
  (`Streams_orphan_base.cfg`; `lib.rs:1211-1225`).
* A branch forked from another branch serves main's log below its fork point
  (`lib.rs:3001-3010`), so `served` forks from main only.
* `rename_branch` leaves tail, base and active HEAD under the old name; no message
  reaches it.
* A crash inside a publish onto a writable branch gives that branch the published
  base; one inside a re-publish leaves the old sequence with the new state; readers
  above a re-published sequence are not updated.
* A failed registry write in `ingest_branch` leaves the branch's head behind its tail;
  a partly failed delete leaves the active HEAD on the deleted branch.
* Publish names its version by source and sequence; after the source is deleted and
  restored again the name may stand for another state, which is then not captured.

Client:

* A snapshot catch-up over unsent edits drops them from the client's replica; the room
  commits the resent ops and never sends them back to their author (`Client_offline_edit.cfg`;
  `client.rs:829`, `provider.ts:5-7`).
* Rejected edits stay in the client's replica (`client.rs:935`), where
  `ARCHITECTURE.md:1304` has it revert; `Converged` allows for them.

Document, tree and text:

* `TextCursor::delete_ids` emits when any of its ids is present: an id that has not
  arrived yet is skipped locally and waited for by every peer.
* The inverse of an `AclRevoke` does not ask whether the tuple was revoked before, so
  undoing a second revoke grants it again (`Document_regrant.cfg`;
  `doc.rs:5425-5437`, against `ranged_inverse`, `doc.rs:5588`).
* `undo.rs` calls a stamp unique per zone; `mint_floor` makes it unique per document.
* Re-creating a deleted subtree substitutes its root only: a second undo does not
  reach a child made anew with its parent (`Tree_revived.cfg`; `doc.rs:5839`).
* A birth that is refused its placement re-points the node's link at its birth list
  (`doc.rs:4368`) and does not refold: where a third op repeats the stamp of a child that
  lost its placement to a twin and was moved since, the link follows the order of
  arrival and not the log, which `doc.rs:4651-4653` rules out (`Tree_thrice.cfg`). A
  snapshot taken then is not read back as it was either: loading it refolds.
* A text that lost its birth placement to an element of the same stamp and holds only
  placements moves gave it comes back from a snapshot without the owner it was created
  under, as `doc.rs:2869-2873` says (`Edgeless`). `Converged` asks that of a snapshot and
  nothing less: everything else is read back as it was. Should such a text then lose its
  last placement too, a replica that loaded a snapshot has no link for it where the
  others have the one to its birth list; neither shows it.

Access control:

* A revoke whose authority oscillates is settled by the number of passes
  (`Delegation_flux.cfg`; `acl.rs:618-628` says it is not an artifact of it).
* A revoked co-owner regains ownership by revoking its revoker; a cycle of grants that
  a revoke has cut off from its root oscillates; a co-owner that grants `own` of the
  root to the creator makes the creator revocable (`acl.rs:557`); an owner cannot
  renounce its own grant.
* At the server a revoker is a replica id while grantor and creator are actor keys
  (`DECISIONS.md:988`).

Serving a reader:

* In a room written at several versions a snapshot joiner and an op joiner may see
  different keys (`Redaction_mixed.cfg`; `translate.rs:316-318`, `session.rs:2818`).
* A counter renamed onto another is merged by maximum at the snapshot seam and by sum
  at the op seam; a live scalar over a displaced container, and ops buffered in a
  snapshot, are not rewritten alike; a projected snapshot keeps displaced containers
  and tallies in its registries and clears the room's buffer; a zone snapshot drops
  inert tuples that the op seam keeps.
* A delete at a renamed key is forgotten by the slot once the container there is made
  again: the op seam moves the delete, which removes an older value at the new key, and
  the snapshot seam, which carries the container, keeps that value.
* Reveal shells advance a cursor past the ops they stand for; after a compaction the
  backfill of a reveal misses what was compacted; ops into a displaced container are
  gated at the root.

Awareness:

* A resumed session keeps entries that were cleared while it was away, and a
  reconnecting client is replayed its own presence as a peer's
  (`session.rs:1048`, against `registry.rs:3293` and `ARCHITECTURE.md:789`).
* Two tabs of one actor on one key: a joiner may be replayed either tab's value, and a
  peer keeps the value of the one that expired (`lib.rs:915`, against `lib.rs:690-697`).
* A coalesced update is dropped where the architecture keeps the latest, and presence
  is per room where `ARCHITECTURE.md:1110` has it per room and branch.

## 6. Not modelled, and the plan

Next, in this order:

1. Theorems: `MintsUnique` of `DocReplicas`.
2. `Membership` in place of `relayDown` in `RoomReplication`: each is checked against
   the other's interface now, their product is not.
3. Relative positions of the sequence and with them mark expansion; XML nodes in
   `Redaction` (reveal shells and their backfill); branch and version messages of the
   session; several undo origins and nested intentions; the mint ceiling.

Left out for good: TLS and token checks, blobs, webhooks, audit, index, the admin
front end, bindings and code generation (pass-through, or output nothing reads
back); schema validation and repair, pure functions of one tree; the framing of the
wire protocol, which writes fields in order.

---------------------------- MODULE RoomStreams ----------------------------
(***************************************************************************)
(* The streams of one room - main, its branches, its published branches -  *)
(* with its named versions and its active branch, as the hub holds them    *)
(* (crates/server/src/lib.rs) and as the store keeps them in one file per  *)
(* kind (crates/server/src/store.rs).  Every file is replaced atomically,  *)
(* but an operation that touches several files writes them one after the   *)
(* other: a crash may fall between any two of them, and any one may fail,  *)
(* in which case the code undoes part of what it did in memory.            *)
(*                                                                         *)
(* A document state is the set of ops folded into it.  `hist` is a history *)
(* variable: the op sequence each stream, and each captured version,       *)
(* stands for.  It changes at the write that makes the change durable.     *)
(***************************************************************************)
EXTENDS RoomHub, Integers, FiniteSetsExt

CONSTANTS
    Main,         \* the default branch, never deleted
    Branch,       \* names for other branches
    Author,       \* the stream each op is written to: a channel has one stream
    MaxBatch,     \* the largest batch of ops in one message
    Name,         \* names for manual versions
    Tick,         \* the timestamps in the names of automatic versions
    Keep,         \* the automatic trigger's retention window
    ForkFrom,     \* the streams clients fork
    ReadFrom,     \* the branches clients read whole, which caches their trees
    Reuse,        \* whether a fork may take a name whose files were left behind
    Tears,        \* whether a crash may leave part of a record in a log
    CrashIn,      \* the operations a crash may interrupt
    FailIn,       \* the operations in which a write may fail
    MaxFaults,    \* bound on crashes, restarts and failed writes
    MaxOrdinal    \* bound on captured versions

Stream == {Main} \union Branch

(* The first bytes of a record whose rest never reached the disk.          *)
Torn == "torn"

ASSUME StreamAssumption ==
    /\ IsFiniteSet(Op) /\ Torn \notin Op /\ MaxBatch \in Nat
    /\ Main \notin Branch
    /\ Author \in [Op -> Stream]
    /\ ForkFrom \subseteq Stream
    /\ ReadFrom \subseteq Branch

VARIABLES
    mem,      \* the hub's state
    disk,     \* the room's files
    hist,     \* history variable: [stream, version], op sequences
    faults    \* crashes, restarts and failed writes so far

vars == <<mem, disk, hist, faults>>

(* The origin of every automatic version of the one trigger modelled.      *)
Trigger == "trigger"

Put(f, k, v) == [x \in DOMAIN f \union {k} |-> IF x = k THEN v ELSE f[x]]
Drop(f, k) == Restrict(f, DOMAIN f \ {k})
Empty == Restrict([n \in {} |-> n], {})

(* A room nothing was ever written to is absent from the hub's table.      *)
Held(m) == m.room # EmptyRoom

-----------------------------------------------------------------------------
(***************************************************************************)
(* Reading a stream.                                                       *)
(***************************************************************************)

StreamHead(m, s) == IF s = Main THEN RoomHead(m.room) ELSE m.branches[s].head

(* Where the part of main's log that a live fork shares ends.              *)
BaseEnd(m, b) == Min({m.branches[b].fork, RoomHead(m.room)})

After(seq, c) == SubSeq(seq, c + 1, Len(seq))

Monus(a, b) == IF a > b THEN a - b ELSE 0

(* Mutant of CatchUpBranch: the refusal looks at the fork point alone.     *)
CatchUpBranchUnclipped(m, b, c) ==
    LET fork == m.branches[b].fork
        tail == After(m.tails[b], Monus(c, fork))
        r == m.room
    IN CASE b \in DOMAIN m.bases /\ c < fork ->
              [kind |-> "snapshot", seq |-> fork + Len(m.tails[b]),
               state |-> m.bases[b] \union Range(m.tails[b])]
         [] b \in DOMAIN m.bases /\ c >= fork -> [kind |-> "ops", ops |-> tail]
         [] OTHER ->
              [kind |-> "ops",
               ops |-> SubSeq(r.log, Monus(c, r.base) + 1, BaseEnd(m, b) - r.base) \o tail]

(* Catch-up of a branch: an owned base is served as a snapshot with the    *)
(* tail folded in; a live fork reads its base from main's log and is       *)
(* refused where compaction has dropped what the reader still needs.       *)
CatchUpBranch(m, b, c) ==
    LET fork == m.branches[b].fork
        tail == After(m.tails[b], Monus(c, fork))
        r == m.room
    IN CASE b \in DOMAIN m.bases /\ c < fork ->
              [kind |-> "snapshot", seq |-> fork + Len(m.tails[b]),
               state |-> m.bases[b] \union Range(m.tails[b])]
         [] b \in DOMAIN m.bases /\ c >= fork -> [kind |-> "ops", ops |-> tail]
         [] b \notin DOMAIN m.bases /\ Min({BaseEnd(m, b), r.base}) > c ->
              [kind |-> "unavailable"]
         [] OTHER ->
              [kind |-> "ops",
               ops |-> SubSeq(r.log, Monus(c, r.base) + 1, BaseEnd(m, b) - r.base) \o tail]

CatchUpStream(m, s, c) ==
    IF s = Main THEN CatchUp(m.room, c) ELSE CatchUpBranch(m, s, c)

(* A branch's whole state: none, or one.                                   *)
FoldStream(m, b) ==
    LET whole == CatchUpBranch(m, b, 0)
    IN IF b \in DOMAIN m.bases THEN {m.bases[b] \union Range(m.tails[b])}
       ELSE IF whole.kind = "ops" THEN {Range(whole.ops)}
       ELSE {}

(* Mutant of TreeKey: does not notice that main's log moved on.            *)
TreeKeyUnshared(m, b) ==
    [fork |-> m.branches[b].fork,
     baseLen |-> {Cardinality(m.bases[b]) : x \in {b} \intersect DOMAIN m.bases},
     shared |-> {}]

(* What a cached stream tree was folded from: a base is known by its size. *)
TreeKey(m, b) ==
    [fork |-> m.branches[b].fork,
     baseLen |-> {Cardinality(m.bases[b]) : x \in {b} \intersect DOMAIN m.bases},
     shared |-> {<<m.room.base, BaseEnd(m, b)>> : x \in {b} \ DOMAIN m.bases}]

(* The tree a read leaves in the cache: the held one extended by the new   *)
(* part of the tail while it is still keyed right, else a fresh fold.      *)
StreamTree(m, b) ==
    LET key == TreeKey(m, b)
        tail == m.tails[b]
        extends == /\ b \in DOMAIN m.trees
                   /\ m.trees[b].key = key
                   /\ m.trees[b].tailLen <= Len(tail)
    IN IF \E s \in key.shared : s[1] > 0 /\ s[2] > 0
       THEN {}
       ELSE IF extends
            THEN {[m.trees[b] EXCEPT !.doc = @ \union Range(After(tail, m.trees[b].tailLen)),
                                     !.tailLen = Len(tail)]}
            ELSE {[key |-> key, tailLen |-> Len(tail), doc |-> d] : d \in FoldStream(m, b)}

ForgetTree(m, b) == [m EXCEPT !.trees = Drop(@, b)]

ReadTree(m, b) ==
    [m EXCEPT !.trees = IF StreamTree(m, b) = {} THEN Drop(@, b)
                        ELSE Put(@, b, CHOOSE t \in StreamTree(m, b) : TRUE)]

(* A stream's materialised state: none, or one.                            *)
Materialized(m, s) ==
    IF s = Main
    THEN {m.room.seen : x \in {y \in {s} : Held(m)}}
    ELSE {t.doc : t \in StreamTree(m, s)}

-----------------------------------------------------------------------------
(***************************************************************************)
(* Loading a room from its files.                                          *)
(***************************************************************************)

(* Decoding stops at a record the file ends in the middle of.  (With later *)
(* records behind it the bytes are misframed; stopping is the mildest      *)
(* outcome, refusing to load is the other.)                                *)
DecodeRecords(log) ==
    LET torn == {i \in DOMAIN log : log[i] = Torn}
    IN IF torn = {} THEN log ELSE SubSeq(log, 1, Min(torn) - 1)

(* Mutant of NextOrdinal: restarts at the last ordinal used.               *)
NextOrdinalReused(versions) == Max({0} \union {versions[n].ordinal : n \in DOMAIN versions})

(* The counter restarts above every ordinal on disk.                       *)
NextOrdinal(versions) == Max({0} \union {versions[n].ordinal + 1 : n \in DOMAIN versions})

(* Replay of a room's log over its snapshot, which dedups the overlap.     *)
LoadRoom(d) ==
    LET floor == CHOOSE s \in d.snap : TRUE
        room == IF d.snap = {} THEN EmptyRoom
                ELSE InstallSnapshot(floor.state, floor.base)
        fresh == Fresh(room, DecodeRecords(d.log))
    IN [room EXCEPT !.log = fresh, !.seen = @ \union Range(fresh)]

(* Mutant of LoadTails: a file left by a failed removal is loaded.         *)
LoadTailsStale(d) == [b \in Branch |-> DecodeRecords(d.blog[b])]

(* A published branch has no tail, whatever file is left under its name.   *)
LoadTails(d) ==
    [b \in Branch |->
        IF b \in DOMAIN d.branches /\ d.branches[b].published
        THEN <<>> ELSE DecodeRecords(d.blog[b])]

InstallRoom(d) ==
    LET tails == LoadTails(d)
        registered == DOMAIN d.branches
    IN [room |-> LoadRoom(d),
        versions |-> d.versions,
        ordinal |-> NextOrdinal(d.versions),
        branches |-> [b \in registered |->
            IF tails[b] = <<>> THEN d.branches[b]
            ELSE [d.branches[b] EXCEPT !.head = d.branches[b].fork + Len(tails[b])]],
        tails |-> tails,
        bases |-> Restrict(d.bbase, DOMAIN d.bbase \intersect registered),
        active |-> IF d.active \in registered THEN d.active ELSE Main,
        trees |-> Empty]

-----------------------------------------------------------------------------
(***************************************************************************)
(* Operations.  An operation is followed as a plan: the durable writes it  *)
(* makes in order, and the memory, files and history it has reached.  Each *)
(* write records what a failure of it leaves behind.                       *)
(***************************************************************************)

Start(m) == [writes |-> <<>>, mem |-> m, disk |-> disk, hist |-> hist]

(* Go on to memory m through the write that turns the files into d; if it  *)
(* fails the files are `kept` and the hub is left with memory `undone`.    *)
WriteOr(p, m, d, h, kept, undone) ==
    [writes |-> Append(p.writes, [disk |-> d, hist |-> h, torn |-> {},
                                  kept |-> kept, undone |-> undone]),
     mem |-> m, disk |-> d, hist |-> h]

(* ... and the files are as they were: not what a flush that fails after   *)
(* the bytes are in place leaves.                                          *)
WriteFile(p, m, d, h, undone) ==
    WriteOr(p, m, d, h, [disk |-> p.disk, hist |-> p.hist], undone)

(* What a crash in the middle of an append leaves of the batch: some of    *)
(* its records, and perhaps a piece of the next one.                       *)
AppendPieces(ops) ==
    UNION {{[kept |-> SubSeq(ops, 1, k), file |-> SubSeq(ops, 1, k)]} \union
           (IF Tears THEN {[kept |-> SubSeq(ops, 1, k), file |-> Append(SubSeq(ops, 1, k), Torn)]}
            ELSE {}) : k \in 0..(Len(ops) - 1)}

LogAppend(p, m, s, ops) ==
    LET File(piece) == IF s = Main
                       THEN [p.disk EXCEPT !.log = @ \o piece]
                       ELSE [p.disk EXCEPT !.blog[s] = @ \o piece]
        Past(piece) == [p.hist EXCEPT !.stream[s] = @ \o piece]
        q == WriteFile(p, m, File(ops), Past(ops), p.mem)
        crashes == {[disk |-> File(x.file), hist |-> Past(x.kept)] : x \in AppendPieces(ops)}
    IN [q EXCEPT !.writes[Len(q.writes)].torn = crashes]

(* Take the plan: all of it, or as far as a crash or a failed write lets   *)
(* it.  A crash after the last write is a restart.                         *)
Perform(kind, p) ==
    \/ /\ mem' = p.mem
       /\ disk' = p.disk
       /\ hist' = p.hist
       /\ UNCHANGED faults
    \/ /\ kind \in CrashIn
       /\ faults < MaxFaults
       /\ faults' = faults + 1
       /\ \E i \in DOMAIN p.writes :
             LET w == p.writes[i]
                 whole == IF i < Len(p.writes) THEN {[disk |-> w.disk, hist |-> w.hist]} ELSE {}
             IN \E left \in w.torn \union whole :
                   /\ disk' = left.disk
                   /\ hist' = left.hist
                   /\ mem' = InstallRoom(left.disk)
    \/ /\ kind \in FailIn
       /\ faults < MaxFaults
       /\ faults' = faults + 1
       /\ \E i \in DOMAIN p.writes :
             LET w == p.writes[i]
             IN /\ disk' = w.kept.disk
                /\ hist' = w.kept.hist
                /\ mem' = w.undone

(* The snapshot lands before the log goes; memory compacts before either.  *)
Compaction(p) ==
    LET m == [p.mem EXCEPT !.room = Compact(@)]
        snapped == [p.disk EXCEPT !.snap = {[base |-> m.room.base, state |-> m.room.seen]}]
        q == WriteFile(p, m, snapped, p.hist, m)
    IN WriteFile(q, m, [snapped EXCEPT !.log = <<>>], p.hist, m)

(* Persist the branch registry; a failure puts the previous one back.      *)
WriteBranches(p, m, h) == WriteFile(p, m, [p.disk EXCEPT !.branches = m.branches], h, p.mem)

(* Capture a version unless its name is taken.  A failed write takes the   *)
(* version out again but leaves the ordinal spent.                         *)
CaptureVersion(p, name, origin, seq, state, past) ==
    IF name \in DOMAIN p.mem.versions THEN p
    ELSE LET spent == [p.mem EXCEPT !.ordinal = @ + 1]
             v == [seq |-> seq, origin |-> origin, ordinal |-> p.mem.ordinal, state |-> state]
             m == [spent EXCEPT !.versions = Put(@, name, v)]
         IN WriteFile(p, m, [p.disk EXCEPT !.versions = m.versions],
                      [p.hist EXCEPT !.version = Put(@, name, past)], spent)

(* Mutant of CaptureMain: places the version at the compaction floor.      *)
CaptureMainAtFloor(p, name, origin) ==
    IF Held(p.mem)
    THEN CaptureVersion(p, name, origin, p.mem.room.base, p.mem.room.seen,
                        p.hist.stream[Main])
    ELSE p

CaptureMain(p, name, origin) ==
    IF Held(p.mem)
    THEN CaptureVersion(p, name, origin, RoomHead(p.mem.room), p.mem.room.seen,
                        p.hist.stream[Main])
    ELSE p

(* The trigger's own captures beyond the window, oldest first.             *)
Evicted(versions) ==
    LET group == {n \in DOMAIN versions : versions[n].origin = {Trigger}}
    IN {n \in group :
          Cardinality({k \in group : versions[k].ordinal > versions[n].ordinal}) >= Keep}

RetainByOrigin(p) ==
    LET doomed == Evicted(p.mem.versions)
        m == [p.mem EXCEPT !.versions = Restrict(@, DOMAIN @ \ doomed)]
    IN IF doomed = {} THEN p
       ELSE WriteFile(p, m, [p.disk EXCEPT !.versions = m.versions],
                      [p.hist EXCEPT !.version = Restrict(@, DOMAIN @ \ doomed)], p.mem)

(* A name is clean when no crash or failed delete left files under it.     *)
Clean(b) ==
    /\ mem.tails[b] = <<>>
    /\ disk.blog[b] = <<>>
    /\ b \notin DOMAIN disk.bbase
    /\ disk.active # b

NewFork(at) == [fork |-> at, head |-> at, published |-> FALSE]

(* The base lands before the pointer; a failed pointer takes it away again.*)
ForkFromVersion(p, new, version) ==
    LET v == p.mem.versions[version]
        based == [p.mem EXCEPT !.bases = Put(@, new, v.state), !.trees = Drop(@, new)]
        q == WriteFile(p, based, [p.disk EXCEPT !.bbase = Put(@, new, v.state)], p.hist, p.mem)
        m == [based EXCEPT !.branches = Put(@, new, NewFork(v.seq))]
        undone == [based EXCEPT !.bases = Drop(@, new)]
    IN WriteOr(q, m, [q.disk EXCEPT !.branches = m.branches],
               [p.hist EXCEPT !.stream[new] = p.hist.version[version]],
               [disk |-> [q.disk EXCEPT !.bbase = Drop(@, new)], hist |-> p.hist],
               undone)

SetActiveBranch(p, b) ==
    IF p.mem.active = b THEN p
    ELSE WriteFile(p, [p.mem EXCEPT !.active = b], [p.disk EXCEPT !.active = b], p.hist, p.mem)

(* The served base changes under a branch that is already published as     *)
(* soon as its file does; a new published branch appears with its pointer. *)
RepointPublished(p, b, seq, state, past) ==
    LET h == [p.hist EXCEPT !.stream[b] = past]
        live == b \in DOMAIN p.mem.branches
        based == [p.mem EXCEPT !.bases = Put(@, b, state), !.trees = Drop(@, b)]
        q == WriteFile(p, based, [p.disk EXCEPT !.bbase = Put(@, b, state)],
                       IF live THEN h ELSE p.hist, p.mem)
        Restored(bases) == IF b \in DOMAIN p.mem.bases THEN Put(bases, b, p.mem.bases[b])
                           ELSE Drop(bases, b)
        pointed == [based EXCEPT !.branches =
                      Put(@, b, [fork |-> seq, head |-> seq, published |-> TRUE])]
        r == WriteOr(q, pointed, [q.disk EXCEPT !.branches = pointed.branches], h,
                     [disk |-> [q.disk EXCEPT !.bbase = Restored(@)], hist |-> p.hist],
                     [based EXCEPT !.bases = Restored(@)])
        m == [pointed EXCEPT !.tails[b] = <<>>]
    IN WriteFile(r, m, [r.disk EXCEPT !.blog[b] = <<>>], h, m)

-----------------------------------------------------------------------------
Init ==
    /\ mem = [room |-> EmptyRoom, versions |-> Empty, ordinal |-> 0, branches |-> Empty,
              tails |-> [b \in Branch |-> <<>>], bases |-> Empty, active |-> Main,
              trees |-> Empty]
    /\ disk = [log |-> <<>>, snap |-> {}, versions |-> Empty, branches |-> Empty,
               blog |-> [b \in Branch |-> <<>>], bbase |-> Empty, active |-> Main]
    /\ hist = [stream |-> [s \in Stream |-> <<>>], version |-> Empty]
    /\ faults = 0

Batches(s) == BoundedSeq({o \in Op : Author[o] = s}, MaxBatch)

IngestOps(ops) ==
    LET fresh == Fresh(mem.room, ops)
        grown == [mem EXCEPT !.room.log = @ \o fresh, !.room.seen = @ \union Range(fresh)]
        p == LogAppend(Start(mem), grown, Main, fresh)
        full == CompactionThreshold > 0 /\ Len(grown.room.log) >= CompactionThreshold
    IN /\ fresh # <<>>
       /\ Perform("ingest", IF full THEN Compaction(p) ELSE p)

(* The tail dedups against itself only; the head follows in a second write.*)
IngestBranch(b, ops) ==
    LET fresh == Fresh([EmptyRoom EXCEPT !.seen = Range(mem.tails[b])], ops)
        grown == [mem EXCEPT !.tails[b] = @ \o fresh]
        p == LogAppend(Start(mem), grown, b, fresh)
        m == [grown EXCEPT !.branches[b].head = mem.branches[b].fork + Len(grown.tails[b])]
    IN /\ b \in DOMAIN mem.branches
       /\ ~mem.branches[b].published
       /\ fresh # <<>>
       /\ Perform("ingest_branch", WriteBranches(p, m, p.hist))

CompactRoom ==
    /\ Held(mem)
    /\ Perform("compact", Compaction(Start(mem)))

(* Import or clone into an absent room: a snapshot of a whole document.    *)
ImportRoom(state) ==
    LET room == InstallSnapshot(state, Cardinality(state))
        p == Start([mem EXCEPT !.room = room, !.trees = Empty])
        snapped == [disk EXCEPT !.snap = {[base |-> room.base, state |-> state]}]
        h == [hist EXCEPT !.stream[Main] = SetToSeq(state)]
    IN /\ ~Held(mem)
       /\ Perform("import", WriteFile(p, p.mem, snapped, h, mem))

CreateVersion(name) ==
    /\ mem.ordinal < MaxOrdinal
    /\ name \notin DOMAIN mem.versions
    /\ Held(mem)
    /\ Perform("version", CaptureMain(Start(mem), name, {}))

(* An automatic trigger captures, then holds its window.                   *)
AutoVersion(tick) ==
    LET p == IF Keep = 0 THEN Start(mem)
             ELSE CaptureMain(Start(mem), <<"auto", tick>>, {Trigger})
    IN /\ mem.ordinal < MaxOrdinal
       /\ Perform("version", RetainByOrigin(p))

(* A renamed version leaves its trigger's retention window.                *)
RenameVersion(from, to) ==
    LET v == [mem.versions[from] EXCEPT !.origin = {}]
        m == [mem EXCEPT !.versions = Put(Drop(@, from), to, v)]
        h == [hist EXCEPT !.version = Put(Drop(@, from), to, hist.version[from])]
    IN /\ from \in DOMAIN mem.versions
       /\ to \notin DOMAIN mem.versions
       /\ Perform("version", WriteFile(Start(mem), m, [disk EXCEPT !.versions = m.versions], h, mem))

DeleteVersion(name) ==
    LET m == [mem EXCEPT !.versions = Drop(@, name)]
        h == [hist EXCEPT !.version = Drop(@, name)]
    IN /\ name \in DOMAIN mem.versions
       /\ Perform("version", WriteFile(Start(mem), m, [disk EXCEPT !.versions = m.versions], h, mem))

(* Fork at the source's head, which is what the wire message asks for.     *)
ForkBranch(new, from) ==
    LET at == StreamHead(mem, from)
        m == ForgetTree([mem EXCEPT !.branches = Put(@, new, NewFork(at))], new)
        h == [hist EXCEPT !.stream[new] = SubSeq(hist.stream[from], 1, at)]
    IN /\ new \notin DOMAIN mem.branches
       /\ from \in {Main} \union DOMAIN mem.branches
       /\ ~Reuse => Clean(new)
       /\ Perform("fork", WriteBranches(Start(mem), m, h))

ForkBranchFromVersion(new, version) ==
    /\ version \in DOMAIN mem.versions
    /\ new \notin DOMAIN mem.branches
    /\ ~Reuse => Clean(new)
    /\ Perform("fork_version", ForkFromVersion(Start(mem), new, version))

(* Fork from the version, record main as it stands, move the active HEAD.  *)
RestoreAsBranch(version, new) ==
    LET forked == ForkFromVersion(Start(mem), new, version)
        audited == CaptureMain(forked, <<"restore", new, RoomHead(mem.room)>>, {})
    IN /\ version \in DOMAIN mem.versions
       /\ new \notin DOMAIN mem.branches
       /\ ~Reuse => Clean(new)
       /\ mem.ordinal < MaxOrdinal
       /\ Perform("restore", SetActiveBranch(audited, new))

(* Publish the active branch's state onto a read-only branch.              *)
Publish(b) ==
    LET source == mem.active
        read == IF source = Main THEN mem ELSE ReadTree(mem, source)
        seq == StreamHead(mem, source)
        past == hist.stream[source]
        kind == IF b \in DOMAIN mem.branches /\ ~mem.branches[b].published
                THEN "publish_over" ELSE "publish"
    IN /\ source # b
       /\ ~Reuse => b \in DOMAIN mem.branches \/ Clean(b)
       /\ mem.ordinal < MaxOrdinal
       /\ \E state \in Materialized(mem, source) :
             Perform(kind,
                     RepointPublished(
                         CaptureVersion(Start(read), <<"publish", b, source, seq>>, {},
                                        seq, state, past),
                         b, seq, state, past))

(* The pointer goes first, then the tail, the base and the active HEAD.    *)
DeleteBranch(b) ==
    LET gone == [mem EXCEPT !.branches = Drop(@, b)]
        m == [gone EXCEPT !.tails[b] = <<>>, !.bases = Drop(@, b), !.trees = Drop(@, b)]
        h == [hist EXCEPT !.stream[b] = <<>>]
        p == WriteBranches(Start(mem), gone, h)
        q == WriteFile(p, m, [p.disk EXCEPT !.blog[b] = <<>>], h, m)
        r == WriteFile(q, m, [q.disk EXCEPT !.bbase = Drop(@, b)], h, m)
    IN /\ b \in DOMAIN mem.branches
       /\ Perform("delete", IF mem.active = b THEN SetActiveBranch(r, Main) ELSE r)

ReadStream(b) ==
    /\ b \in DOMAIN mem.branches
    /\ mem' = ReadTree(mem, b)
    /\ UNCHANGED <<disk, hist, faults>>

Restart ==
    /\ faults < MaxFaults
    /\ faults' = faults + 1
    /\ mem' = InstallRoom(disk)
    /\ UNCHANGED <<disk, hist>>

Next ==
    \/ \E ops \in Batches(Main) : IngestOps(ops)
    \/ \E b \in Branch : \E ops \in Batches(b) : IngestBranch(b, ops)
    \/ CompactRoom
    \/ \E state \in SUBSET {o \in Op : Author[o] = Main} \ {{}} : ImportRoom(state)
    \/ \E n \in Name : CreateVersion(n)
    \/ \E t \in Tick : AutoVersion(t)
    \/ \E v \in DOMAIN mem.versions : DeleteVersion(v) \/ \E n \in Name : RenameVersion(v, n)
    \/ \E b \in Branch : \/ \E s \in ForkFrom : ForkBranch(b, s)
                         \/ \E v \in DOMAIN mem.versions : \/ ForkBranchFromVersion(b, v)
                                                           \/ RestoreAsBranch(v, b)
                         \/ Publish(b)
                         \/ DeleteBranch(b)
    \/ \E b \in ReadFrom : ReadStream(b)
    \/ Restart

Spec == Init /\ [][Next]_vars

-----------------------------------------------------------------------------
(***************************************************************************)
(* Properties.                                                             *)
(***************************************************************************)

(* A reader who already holds the first c ops of history h gets from       *)
(* catch-up answer u exactly the rest, and lands on the head.              *)
Completes(u, h, c) ==
    CASE u.kind = "ops" -> u.ops = After(h, c)
      [] u.kind = "snapshot" -> u.state = Range(h) /\ u.seq = Len(h)
      [] u.kind = "unavailable" -> FALSE

(* Whatever compactions, restores, crashes and failed writes came before,  *)
(* a reader of any stream at any cursor is served exactly what it is       *)
(* missing, or is refused because compaction passed its fork's base; and   *)
(* the head counts the stream's ops.  A published branch is read from the  *)
(* start: its base is the state last published under its name.  A cached   *)
(* stream tree never answers differently from a fresh fold of the branch,  *)
(* whatever deletes, forks and republishes reused its name.                *)
ServesHistory ==
    /\ \A b \in DOMAIN mem.branches : Materialized(mem, b) = FoldStream(mem, b)
    /\ \A s \in {Main} \union DOMAIN mem.branches :
           LET h == hist.stream[s]
           IN IF s # Main /\ mem.branches[s].published
              THEN s \in DOMAIN mem.bases /\ FoldStream(mem, s) = {Range(h)}
              ELSE /\ StreamHead(mem, s) = Len(h)
                   /\ \A c \in 0..Len(h) :
                         LET u == CatchUpStream(mem, s, c)
                         IN Completes(u, h, c) \/ (u.kind = "unavailable" /\ c < mem.room.base)

(* Loading the files gives back the room, versions, branches, tails, bases *)
(* and active HEAD in force; only the compaction floor, the ordinal        *)
(* counter and the cached trees may differ.                                *)
RestartInvisible ==
    LET m == InstallRoom(disk)
    IN /\ RoomHead(m.room) = RoomHead(mem.room)
       /\ m.room.seen = mem.room.seen
       /\ \A f \in {"versions", "branches", "bases", "active"} : m[f] = mem[f]
       /\ \A b \in DOMAIN mem.branches : m.tails[b] = mem.tails[b]

(* Every op the hub holds is in a file that a restart reads: an append     *)
(* that returned survives any later restart.                               *)
AppendsDurable ==
    LET m == InstallRoom(disk)
    IN /\ mem.room.seen \subseteq m.room.seen
       /\ \A b \in DOMAIN mem.branches :
             ~mem.branches[b].published => Range(mem.tails[b]) \subseteq Range(m.tails[b])

(* A version holds the ops its stream had at its sequence, through renames,*)
(* restarts and failed writes.  Ordinals tell captures apart and the       *)
(* counter stays above all of them, restarts and evictions included, so    *)
(* that retention evicts in the order of capture.                          *)
VersionsFaithful ==
    /\ DOMAIN mem.versions = DOMAIN hist.version
    /\ \A n \in DOMAIN mem.versions :
          /\ mem.versions[n].state = Range(hist.version[n])
          /\ mem.versions[n].seq = Len(hist.version[n])
          /\ mem.versions[n].ordinal < mem.ordinal
          /\ \A k \in DOMAIN mem.versions : mem.versions[n].ordinal = mem.versions[k].ordinal => n = k
=============================================================================

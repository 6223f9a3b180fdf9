------------------------------ MODULE Redaction ------------------------------
(***************************************************************************)
(* What each reader of a room is served (crates/server/src/session.rs,     *)
(* registry.rs, and the projections of crates/core/src/doc.rs).  A reader  *)
(* may be refused paths by the document's access control tuples, may hold  *)
(* some zones only, and may speak another schema version.  It is served    *)
(* three ways: the ops of a commit as they are fanned out, the log from    *)
(* its cursor, or the room's state when the log has been compacted.        *)
(*                                                                         *)
(* A commit and its fan-out are one step here: the order of frames on a    *)
(* connection is ClientSync's subject.                                     *)
(***************************************************************************)
EXTENDS Migration, AccessControl

CONSTANTS
    Identity,     \* [Client -> the actor it authenticates as]
    Tiers,        \* [Client -> the read verdicts of the deployment and the schema]
    ZoneVerdict,  \* [Client -> [ZoneKey -> the deployment's verdict on the zone]]
    Selector,     \* [Client -> the zone it asks for, a set of at most one; {} is all]
    Version,      \* [Client -> the schema version it speaks]
    Budgets       \* the bounds explored, one of them in each behaviour: who is
                  \* subscribed from the start and who leaves and joins, the
                  \* edits that come first, the edits each client may make
                  \* then, how many of those, of compactions and of joins, and
                  \* whether all of them leave every reader's verdicts alone

ASSUME RedactionAssumption ==
    /\ Client \subseteq Nat \ {0}
    /\ \A c \in Client : Registered(Version[c]) /\ Selector[c] \subseteq ZoneKey

VARIABLES
    room,      \* [doc, log, base, creator, version]: the replica, every op ever
               \* committed with the version it was written at, how many of
               \* them are compacted away, the first writer and the highest
               \* version written (0 before the first)
    doc,       \* [Client -> replica]
    cursor,    \* [Client -> last_seen_seq]
    joined,    \* the clients subscribed
    budget

vars == <<room, doc, cursor, joined, budget>>

EmptyRoom == [doc |-> EmptyDoc(0), log |-> <<>>, base |-> 0, creator |-> {}, version |-> 0]

RoomSeq(r) == Len(r.log)

-----------------------------------------------------------------------------
(***************************************************************************)
(* The tree a stream serves, as the access control reads it.               *)
(***************************************************************************)
ElementPaths(d) == [m \in {h \in d.held : Resolvable(d, h)} |-> [i \in DOMAIN m |-> m[i][1]]]

RangedAnchors(d) == [a \in DOMAIN d.marks |-> d.marks[a].anchors]

Tree(d, creator) ==
    [records |-> d.tuples, creator |-> creator, index |-> ElementPaths(d),
     held |-> d.held, anchors |-> RangedAnchors(d)]

StreamTree(r) == Tree(r.doc, r.creator)

Reads(tree, c, path) == RecipientReadsPath(tree, Tiers[c], Identity[c], path)

(* Root read, or read of some subtree where the deployment has no say.     *)
MayRead(r, c) ==
    \/ Reads(StreamTree(r), c, <<>>)
    \/ Tiers[c].deployment = "abstain" /\ HasAnyReadGrant(StreamTree(r), Identity[c])

ZoneReadable(c, zone) == ZoneVerdict[c][zone] # "deny"

ReadableZones(c) == {z \in ZoneKey : ZoneReadable(c, z)}

(* A zone asked for by name that may not be read narrows to the root.      *)
ZoneScope(c) == IF Selector[c] = {} THEN ReadableZones(c) ELSE Selector[c] \intersect ReadableZones(c)

ZoneAdmits(zones, zone) == zone \in zones \union {"root"}

(* The version its merged state embodies must be within reach.             *)
ReachesGoverning(r, c) == r.version = 0 \/ Reachable(r.version, Version[c])

MaySubscribe(r, c) ==
    MayRead(r, c) /\ Selector[c] \subseteq ReadableZones(c) /\ ReachesGoverning(r, c)

-----------------------------------------------------------------------------
(***************************************************************************)
(* The filters of the ops.                                                 *)
(***************************************************************************)
OpsOf(delta) == [i \in DOMAIN delta |-> delta[i].op]

(* A delta keeps the version beside each op it keeps.                      *)
RetainDelta(delta, kept) ==
    LET ops == RetainAtomic(OpsOf(delta), kept)
    IN [i \in DOMAIN ops |-> [op |-> ops[i], version |-> At(delta, kept)[i].version]]

(* The positions of the ops a reader may read.                             *)
ReadableOps(tree, c, ops) ==
    IF tree.records = <<>> THEN DOMAIN ops
    ELSE {i \in DOMAIN ops : Admits(OpReadGate(tree, ops[i]), tree, Tiers[c], Identity[c])}

InScope(c, ops) == {i \in DOMAIN ops : ZoneAdmits(ZoneScope(c), ops[i].zone)}

ReadFilter(tree, c, delta) == RetainDelta(delta, ReadableOps(tree, c, OpsOf(delta)))

ZoneFilter(c, delta) == RetainDelta(delta, InScope(c, OpsOf(delta)))

CatchUpOps(r, c, delta) ==
    The(UNION {{TranslateDelta(narrowed, Version[c], ElementTypes(r.doc)) :
                    narrowed \in {ZoneFilter(c, ReadFilter(tree, c, delta))}} : tree \in {StreamTree(r)}})

(* The frontier frame: what the delta withholds of the reader's own ops.   *)
Withheld(c, delta, ops) ==
    {op \in Range(OpsOf(delta)) : op.id[1] = c /\ op.id \notin {o.id : o \in Range(ops)}}

(* The client: the frontier first, if there is one, then the ops.          *)
NoteWithheld(d, own) ==
    IF own = {} THEN d ELSE NotePublished(d, {op.id[2] : op \in own}, Max({op.stamp[1] : op \in own}))

ReceiveOps(d, ops) == FoldSteps(Apply, d, ops)

ServedOps(r, c, d, delta) ==
    The({[doc |-> ReceiveOps(NoteWithheld(d, Withheld(c, delta, ops)), ops), count |-> Len(ops)] :
            ops \in {CatchUpOps(r, c, delta)}})

(* A live batch that cannot be brought to its reader's version is dropped. *)
Translated(r, c, ops, version) ==
    IF version = Version[c] THEN ops
    ELSE IF ~Reachable(version, Version[c]) THEN <<>>
    ELSE TranslateOps(Chain(version, Version[c]), ops, ElementTypes(r.doc))

(* It is read against the tree it has made, translated, then narrowed.     *)
FanOut(r, tree, c, ops, version) ==
    The({RetainAtomic(batch, InScope(c, batch)) :
            batch \in {Translated(r, c, RetainAtomic(ops, ReadableOps(tree, c, ops)), version)}})

-----------------------------------------------------------------------------
(***************************************************************************)
(* The projections of a state.                                             *)
(***************************************************************************)
KeyZone(path) == IF path # <<>> /\ path[1] \in ZoneKey THEN path[1] ELSE "root"

Detached(d, purge) ==
    {at \in DOMAIN d.slots : IsContainer(d.slots[at].value.kind) /\ d.slots[at].value.val \in purge}

(* The containers in `purge` go with their slots, and the counters.        *)
Without(d, purge, cut, marks, tuples) ==
    [d EXCEPT !.slots = Restrict(@, {at \in DOMAIN @ \ cut : at[1] \notin purge}),
              !.held = @ \ purge,
              !.tallies = Restrict(@, DOMAIN @ \ purge),
              !.marks = Restrict(@, marks), !.tuples = Restrict(@, tuples)]

(* An annotation stays where every sequence its ends hang on does.         *)
KeptMarks(d, kept) == {a \in DOMAIN d.marks : d.marks[a].anchors \subseteq kept}

(* The ids the recipient published, applied here or held.                  *)
PublishedBy(d, c) == {id \in d.seen \union Buffered(d) : id[1] = c}

ScrubFrontierTo(d, published) == [d EXCEPT !.seen = published \ Buffered(d), !.reserved = {}, !.spent = {}]

ScrubHighWaterTo(d, c) == Floored([d EXCEPT !.high = [x \in Client |-> IF x = c THEN @[x] ELSE 0]])

(* Mutant of Scrub: nobody's ids survive.                                  *)
ScrubWhole(d, c, published) == ScrubHighWaterTo(ScrubFrontierTo(d, {}), c)

Scrub(d, c, published) == ScrubHighWaterTo(ScrubFrontierTo(d, published), c)

ZoneCut(d, index, zones) ==
    LET purge == {m \in DOMAIN index : ~ZoneAdmits(zones, KeyZone(index[m]))}
        InZones(t) == \E path \in ScopePath(index, d.tuples[t].val.scope) : ZoneAdmits(zones, KeyZone(path))
    IN Without(d, purge, Detached(d, purge), KeptMarks(d, DOMAIN index \ purge),
               {t \in DOMAIN d.tuples : InZones(t)})

(* What waits in the buffer is filtered as a delta is.                     *)
ZoneBuffer(d, zones) ==
    RetainAtomic(d.buffer, {i \in DOMAIN d.buffer : ZoneAdmits(zones, d.buffer[i].zone)})

ProjectZones(d, zones, c) ==
    Scrub([ZoneCut(d, ElementPaths(d), zones) EXCEPT
               !.clock = Restrict(@, {z \in DOMAIN @ : ZoneAdmits(zones, z)}),
               !.buffer = ZoneBuffer(d, zones)],
          c, PublishedBy(d, c))

(* The paths of containers, of slots and of scopes.                        *)
AllPaths(d, index) ==
    {index[m] : m \in DOMAIN index}
        \union {Append(index[at[1]], at[2]) : at \in {x \in DOMAIN d.slots : x[1] \in DOMAIN index}}
        \union UNION {ScopePath(index, d.tuples[t].val.scope) : t \in DOMAIN d.tuples}

Denied(read, path) == \E n \in 1..Len(path) : SubSeq(path, 1, n) \notin read

(* A slot that shows no container is read at its own path.                 *)
UnreadLeaves(d, index, read, purge) ==
    {at \in DOMAIN d.slots : /\ at[1] \in DOMAIN index \ purge
                             /\ ~IsContainer(d.slots[at].value.kind)
                             /\ Append(index[at[1]], at[2]) \notin read}

Counters(d, leaves) == {d.slots[at].value.val : at \in {x \in leaves : d.slots[x].value.kind = "counter"}}

(* A container under a path that is not read goes with all below it; a     *)
(* tuple stays where what it governs is read.                              *)
ReadCut(d, index, read) ==
    LET purge == {m \in DOMAIN index : Denied(read, index[m])}
        leaves == UnreadLeaves(d, index, read, purge)
        kept == {m \in DOMAIN index \ purge : index[m] \in read}
    IN Without(d, purge \union Counters(d, leaves), Detached(d, purge) \union leaves,
               KeptMarks(d, kept),
               {t \in DOMAIN d.tuples : \E path \in ScopePath(index, d.tuples[t].val.scope) : path \in read})

ProjectReadPaths(d, read, c) ==
    LET Scrubbed(left) == IF left = d /\ <<>> \in read THEN d
                          ELSE Scrub([left EXCEPT !.buffer = <<>>], c, PublishedBy(d, c))
    IN The({Scrubbed(left) : left \in {ReadCut(d, ElementPaths(d), read)}})

ReadPaths(tree, d, c) == {path \in AllPaths(d, tree.index) \union {<<>>} : Reads(tree, c, path)}

(* The paths first, and not for who is denied nothing; then the zones, and *)
(* not for who has them all.                                               *)
ServedPaths(d, tree, c) ==
    IF tree.records = <<>> \/ ReadsWholeDocument(tree, Tiers[c], Identity[c]) THEN d
    ELSE The({ProjectReadPaths(d, read, c) : read \in {ReadPaths(tree, d, c)}})

ServedZones(d, c) == IF ZoneScope(c) = ZoneKey THEN d ELSE ProjectZones(d, ZoneScope(c), c)

ProjectServedState(r, c) ==
    The(UNION {{EncodeState(ServedZones(read, c)) : read \in {DecodeState(EncodeState(ServedPaths(r.doc, tree, c)))}} :
                    tree \in {StreamTree(r)}})

(* The last retained sequence in the given zones.                          *)
PartitionHead(r, zones) ==
    Max({0} \union {n \in (r.base + 1)..RoomSeq(r) : ZoneAdmits(zones, r.log[n].op.zone)})

(* The sequence told to a reader of some zones is the last it may see.     *)
NarrowedWatermark(r, c, from) ==
    IF ZoneScope(c) = ZoneKey THEN RoomSeq(r) ELSE Max({from, PartitionHead(r, ZoneScope(c))})

CatchUpSnapshot(r, c, state) == IF r.version = 0 THEN state ELSE TranslateSnapshot(state, r.version, Version[c])

ServedSnapshot(r, c) == The({CatchUpSnapshot(r, c, state) : state \in {ProjectServedState(r, c)}})

ReceiveSnapshot(d, snapshot) == The({AdoptAs(state, d.client, NextSeq(d)) : state \in {snapshot}})

-----------------------------------------------------------------------------
(***************************************************************************)
(* Committing.  A write is tagged with the version of its writer, which    *)
(* can only raise the room's; the first writer is the creator.             *)
(***************************************************************************)
RaiseMaxOpVersion(r, version) == [r EXCEPT !.version = Max({@, version})]

EnsureCreator(r, c) == [r EXCEPT !.creator = IF @ = {} THEN {Identity[c].id} ELSE @]

Commit(r, c, ops) ==
    [RaiseMaxOpVersion(EnsureCreator(r, c), Version[c]) EXCEPT
        !.doc = ReceiveOps(@, ops),
        !.log = @ \o [i \in DOMAIN ops |-> [op |-> ops[i], version |-> Version[c]]]]

(* A value is named by the op that writes it.                              *)
Valued(kind, id) == IF kind.type \in {"MapSet", "RegisterSet"} THEN [kind EXCEPT !.val = id] ELSE kind

AuthorOne(made, edit) ==
    The({[doc |-> Emit(made.doc, op), ops |-> Append(made.ops, op)] :
            op \in {Mint(made.doc, edit.target, Valued(edit.kind, <<made.doc.client, FreeSeq(made.doc)>>))}})

Author(d, plan) ==
    The({IF plan.atomic THEN [doc |-> TagAtomic(made.doc, made.ops), ops |-> Tagged(made.ops)] ELSE made :
            made \in {FoldSteps(AuthorOne, [doc |-> d, ops |-> <<>>], plan.edits)}})

Possible(d, plan) ==
    LET edit == plan.edits[1]
    IN Resolvable(d, edit.target) /\ (edit.kind.type = "AclRevoke" => edit.kind.id \in DOMAIN d.tuples)

(* A write that raises the version evicts the subscribers it is out of     *)
(* reach for: `joined` once they are gone.                                 *)
EvictStranded(r) == {c \in joined : ReachesGoverning(r, c)}

EvictStrandedByLift(r) == IF r.version <= room.version THEN joined ELSE EvictStranded(r)

Publish(c, made, r) ==
    \E tree \in {StreamTree(r)} :
    \E batch \in {[x \in joined |-> IF x = c THEN <<>> ELSE FanOut(r, tree, x, made.ops, Version[c])]} :
       /\ room' = r
       /\ doc' = [x \in Client |-> IF x = c THEN made.doc
                                   ELSE IF x \in joined THEN ReceiveOps(doc[x], batch[x]) ELSE doc[x]]
       /\ cursor' = [x \in Client |-> IF x \in joined THEN cursor[x] + Len(batch[x]) ELSE cursor[x]]
       /\ joined' = EvictStrandedByLift(r)

EditAs(c, plan) ==
    /\ c \in joined /\ Possible(doc[c], plan)
    /\ \E made \in {Author(doc[c], plan)} : \E r \in {Commit(room, c, made.ops)} : Publish(c, made, r)

Setup ==
    /\ budget.setup # <<>>
    /\ EditAs(budget.setup[1].by, budget.setup[1].plan)
    /\ budget' = [budget EXCEPT !.setup = Tail(@)]

Edit(c) ==
    /\ budget.setup = <<>> /\ budget.edits > 0
    /\ \E item \in budget.menu : item.by = c /\ EditAs(c, item.plan)
    /\ budget' = [budget EXCEPT !.edits = @ - 1]

CompactRoom ==
    /\ budget.setup = <<>> /\ budget.compactions > 0 /\ room.base < RoomSeq(room)
    /\ room' = [room EXCEPT !.base = RoomSeq(room)]
    /\ budget' = [budget EXCEPT !.compactions = @ - 1]
    /\ UNCHANGED <<doc, cursor, joined>>

Leave(c) ==
    /\ budget.setup = <<>> /\ c \in joined \intersect budget.roaming /\ budget.joins > 0
    /\ joined' = joined \ {c}
    /\ UNCHANGED <<room, doc, cursor, budget>>

(* Subscribing with the replica `d`, from its cursor.                      *)
Subscribe(c, d, from) ==
    /\ budget.setup = <<>> /\ c \in budget.roaming \ joined /\ budget.joins > 0
    /\ MaySubscribe(room, c)
    /\ joined' = joined \union {c}
    /\ budget' = [budget EXCEPT !.joins = @ - 1]
    /\ IF from < room.base
       THEN /\ doc' = [doc EXCEPT ![c] = ReceiveSnapshot(d, ServedSnapshot(room, c))]
            /\ cursor' = [cursor EXCEPT ![c] = NarrowedWatermark(room, c, from)]
       ELSE \E served \in {ServedOps(room, c, d, SubSeq(room.log, from + 1, RoomSeq(room)))} :
               /\ doc' = [doc EXCEPT ![c] = served.doc]
               /\ cursor' = [cursor EXCEPT ![c] = from + served.count]
    /\ UNCHANGED room

(* A client comes back with what it has, or under its old identity with    *)
(* nothing.                                                                *)
Resume(c) == Subscribe(c, doc[c], cursor[c])

Rejoin(c) == Subscribe(c, EmptyDoc(c), 0)

Init ==
    /\ budget \in Budgets
    /\ room = EmptyRoom
    /\ doc = [c \in Client |-> EmptyDoc(c)]
    /\ cursor = [c \in Client |-> 0]
    /\ joined = budget.joined

Next ==
    \/ Setup \/ CompactRoom
    \/ \E c \in Client : Edit(c) \/ Leave(c) \/ Resume(c) \/ Rejoin(c)

Spec == Init /\ [][Next]_vars

-----------------------------------------------------------------------------
(***************************************************************************)
(* Properties.                                                             *)
(***************************************************************************)
Total(d, id) == FoldSet(LAMBDA c, n : n + Tally(d, id)[c].inc - Tally(d, id)[c].dec, 0, Client)

Shows(d, value) == IF value.kind = "counter" THEN <<"counter", <<Total(d, value.val)>>>>
                   ELSE <<value.kind, value.val>>

(* What a replica shows: the slots of the live maps, the annotations whose *)
(* sequences are there, and the tuples whose scope is (the others decide   *)
(* nothing).                                                               *)
Shown(d) ==
    [slots |-> {<<at, Shows(d, d.slots[at].value)>> : at \in
                   {s \in DOMAIN d.slots : Resolvable(d, s[1]) /\ d.slots[s].value # Nothing}},
     marks |-> {<<a, d.marks[a].val>> : a \in
                   {x \in DOMAIN d.marks : /\ ~d.marks[x].tombstone
                                           /\ \A m \in d.marks[x].anchors : Resolvable(d, m)}},
     tuples |-> {<<t, d.tuples[t]>> : t \in
                    {x \in DOMAIN d.tuples : ScopePath(ElementPaths(d), d.tuples[x].val.scope) # {}}}]

(* A reader that joins with nothing, served the log and served the state.  *)
FromOps(r, c) == ServedOps(r, c, EmptyDoc(c), r.log).doc

FromState(r, c) == ReceiveSnapshot(EmptyDoc(c), ServedSnapshot(r, c))

Whole(d) == \A op \in Range(d.buffer) : op.tx = NoTx

(* Whether it is served the log or a snapshot of the room, a reader comes  *)
(* to see the same document, whatever paths, zones and schema version it   *)
(* is held to, and nothing it was served waits for the rest of a           *)
(* transaction it will not be served.                                      *)
JoinsAgree ==
    \A c \in Client : MaySubscribe(room, c) =>
        \A ops \in {FromOps(room, c)}, state \in {FromState(room, c)} :
            Shown(ops) = Shown(state) /\ Whole(ops) /\ Whole(state)

(* A subscriber served commit by commit, or resumed from its cursor, sees  *)
(* what a reader that joins now would see, as long as nothing has changed  *)
(* what it may read; and no op it was served waits for one withheld.       *)
LiveMatchesFresh ==
    /\ \A c \in joined : Whole(doc[c])
    /\ budget.steady => \A c \in joined : \A fresh \in {FromOps(room, c)} : Shown(doc[c]) = Shown(fresh)

(* The next id and the next stamp a subscriber mints are new to the room,  *)
(* also where its own ops were withheld from it: a write under an id the   *)
(* room holds would be dropped as a duplicate.                             *)
NoWriteSwallowed ==
    \A c \in joined :
        /\ <<c, FreeSeq(doc[c])>> \notin {rec.op.id : rec \in Range(room.log)}
        /\ \A zone \in ZoneKey \union {"root"} :
              <<MintFloor(doc[c], zone) + 1, c>> \notin {rec.op.stamp : rec \in Range(room.log)}
=============================================================================

------------------------------ MODULE Document ------------------------------
(***************************************************************************)
(* One replica of a document (crates/core/src/doc.rs with map.rs,          *)
(* counter.rs and register.rs): map slots decided by the last writer,      *)
(* containers and counters kept by id while they are displaced from their  *)
(* slot, annotations and ACL tuples, the buffer of ops that cannot be      *)
(* applied yet, and atomic transactions, whose members wait for each       *)
(* other.                                                                  *)
(*                                                                         *)
(* An element id is the path it is derived from, a value is the stamp of   *)
(* the edit that first wrote it, a transaction id the set of its members'  *)
(* sequence numbers.                                                       *)
(***************************************************************************)
EXTENDS Integers, FiniteSets, TLC, SequencesExt, FiniteSetsExt

CONSTANTS
    Client,      \* positive integers; the order of client ids breaks ties
    ZoneKey,     \* keys of the root map that are zones of their own
    MaxTally     \* where a counter's tally saturates

Root == <<>>

(* A left fold that TLC evaluates step by step: each result is bound as an *)
(* element of a set before the next step uses it.                          *)
FoldSteps(Step(_, _), base, seq) ==
    LET fold[n \in 0..Len(seq)] == IF n = 0 THEN {base} ELSE {Step(x, seq[n]) : x \in fold[n - 1]}
    IN CHOOSE x \in fold[Len(seq)] : TRUE

Child(m, key, kind) == Append(m, <<key, kind>>)

Later(s, t) == s[1] > t[1] \/ (s[1] = t[1] /\ s[2] > t[2])

(* ContainerCreate: a stamp and a kind, or none.                           *)
NoCreate == [stamp |-> <<0, 0>>, kind |-> "none"]

KindRank(kind) == CASE kind = "none" -> 0 [] kind = "map" -> 1 [] kind = "list" -> 2

(* Mutant of Higher: the last create seen is the one retained.             *)
HigherLast(a, b) == IF b = NoCreate THEN a ELSE b

Higher(a, b) ==
    IF Later(b.stamp, a.stamp) \/ (a.stamp = b.stamp /\ KindRank(b.kind) > KindRank(a.kind))
    THEN b ELSE a

IsContainer(kind) == kind \in {"map", "list"}

CreateOf(value, stamp) ==
    IF IsContainer(value.kind) THEN [stamp |-> stamp, kind |-> value.kind] ELSE NoCreate

(* What a slot shows: a scalar or a register with its value, a counter or  *)
(* a container by its derived id, or nothing.                              *)
Nothing == [kind |-> "none", val |-> <<>>]

NoSlot == [stamp |-> <<0, 0>>, value |-> Nothing, create |-> NoCreate]

Slot(d, m, key) == IF <<m, key>> \in DOMAIN d.slots THEN d.slots[m, key] ELSE NoSlot

EmptyDoc(c) ==
    [client |-> c,
     slots |-> <<>>,          \* <<map, key>> -> slot, tombstones included
     held |-> {Root},         \* the containers in the registries
     displaced |-> {},        \* containers and counters without their slot
     tallies |-> <<>>,        \* counter -> client -> tally
     marks |-> <<>>,          \* annotation (its stamp) -> payload
     tuples |-> <<>>,         \* ACL tuple (its stamp) -> content, revokers
     clock |-> <<>>,          \* zone -> lamport
     high |-> [x \in Client |-> 0],   \* highest lamport held of each client
     seq |-> 0,               \* where the search for a free op id starts
     seen |-> {},             \* ids of the ops applied
     reserved |-> {},         \* own ids known to be published and withheld
     buffer |-> <<>>,         \* the ops held, as they arrived
     spent |-> {}]            \* transactions resolved, <<client, tx id>>

-----------------------------------------------------------------------------
(***************************************************************************)
(* Map slots.                                                              *)
(***************************************************************************)
HasId(value) == value.kind \in {"counter", "map", "list"}

(* The composite the slot showed loses it.                                 *)
Evict(displaced, slot) == displaced \union (IF HasId(slot.value) THEN {slot.value.val} ELSE {})

(* The later write has the slot; a delete is a write of nothing.  The      *)
(* highest create is retained whether it has the slot or not.              *)
SetSlot(d, m, key, value, stamp) ==
    LET prior == Slot(d, m, key)
        create == Higher(prior.create, CreateOf(value, stamp))
        loses == ~Later(stamp, prior.stamp)
        reinstalls == HasId(value) /\ prior.value = value
        slot == IF loses THEN [prior EXCEPT !.create = create]
                ELSE [stamp |-> stamp, value |-> value, create |-> create]
    IN [d EXCEPT !.slots = (<<m, key>> :> slot) @@ @,
                 !.displaced = IF loses \/ reinstalls THEN @ ELSE Evict(@, prior)]

(* Mutant of Seat: a container that comes back stays marked displaced.     *)
SeatForgotten(d, m, key, value) ==
    IF Slot(d, m, key).value = value THEN d ELSE [d EXCEPT !.displaced = @ \union {value.val}]

(* A composite is reinstated if it holds the slot, displaced but retained  *)
(* if it does not.                                                         *)
Seat(d, m, key, value) ==
    IF ~HasId(value) THEN d
    ELSE [d EXCEPT !.displaced = IF Slot(d, m, key).value = value THEN @ \ {value.val}
                                 ELSE @ \union {value.val}]

ContainerKind(type) ==
    CASE type = "MapCreate" -> "map" [] type = "ListCreate" -> "list" [] OTHER -> "none"

CounterTypes == {"CounterInc", "CounterDec"}

SlotTypes == {"MapSet", "RegisterSet", "MapDelete", "MapCreate", "ListCreate"} \union CounterTypes

(* What a write puts into the slot.                                        *)
ValueOf(m, kind) ==
    LET composite == IF kind.type \in CounterTypes THEN "counter" ELSE ContainerKind(kind.type)
    IN CASE kind.type = "MapDelete" -> Nothing
         [] kind.type = "MapSet" -> [kind |-> "scalar", val |-> kind.val]
         [] kind.type = "RegisterSet" -> [kind |-> "register", val |-> kind.val]
         [] OTHER -> [kind |-> composite, val |-> Child(m, kind.key, composite)]

NoTally == [x \in Client |-> [inc |-> 0, dec |-> 0]]

Tally(d, id) == IF id \in DOMAIN d.tallies THEN d.tallies[id] ELSE NoTally

AddTo(n, amount) == Min({n + amount, MaxTally})

(* The counter is found in the registry, so it counts on while a scalar    *)
(* holds its slot.                                                         *)
ApplyCounter(d, kind, id, author) ==
    LET way == IF kind.type = "CounterInc" THEN "inc" ELSE "dec"
    IN [d EXCEPT !.tallies = (id :> [Tally(d, id) EXCEPT ![author][way] = AddTo(@, kind.val[1])]) @@ @]

CreateContainer(d, id) == [d EXCEPT !.held = @ \union {id}]

(* A write to a slot: its counter or its container is registered, then the *)
(* slot is decided.                                                        *)
ApplySlot(d, m, kind, stamp, author) ==
    LET value == ValueOf(m, kind)
        registered == IF kind.type \in CounterTypes THEN ApplyCounter(d, kind, value.val, author)
                      ELSE IF IsContainer(value.kind) THEN CreateContainer(d, value.val) ELSE d
    IN IF m \notin d.held THEN d
       ELSE Seat(SetSlot(registered, m, kind.key, value, stamp), m, kind.key, value)

-----------------------------------------------------------------------------
(***************************************************************************)
(* Annotations and ACL tuples, named by the stamp of their creation.       *)
(***************************************************************************)
CreateMark(d, kind, stamp) ==
    IF stamp \in DOMAIN d.marks THEN d
    ELSE [d EXCEPT !.marks = @ @@ (stamp :> [val |-> kind.val, anchors |-> kind.anchors,
                                             stamp |-> stamp, tombstone |-> FALSE])]

SetMark(d, id, val, stamp) ==
    IF id \notin DOMAIN d.marks \/ ~Later(stamp, d.marks[id].stamp) THEN d
    ELSE [d EXCEPT !.marks[id] = [@ EXCEPT !.val = val, !.stamp = stamp]]

DeleteMark(d, id) ==
    IF id \in DOMAIN d.marks THEN [d EXCEPT !.marks[id].tombstone = TRUE] ELSE d

Grant(d, val, stamp) ==
    IF stamp \in DOMAIN d.tuples THEN d
    ELSE [d EXCEPT !.tuples = (stamp :> [val |-> val, revokers |-> {}]) @@ @]

Revoke(d, id, author) ==
    IF id \in DOMAIN d.tuples THEN [d EXCEPT !.tuples[id].revokers = @ \union {author}] ELSE d

-----------------------------------------------------------------------------
(***************************************************************************)
(* Applying an op.                                                         *)
(***************************************************************************)
RecordStamp(d, stamp) == [d EXCEPT !.high[stamp[2]] = Max({@, stamp[1]})]

ApplyKind(d, target, kind, stamp, author) ==
    CASE kind.type \in SlotTypes -> ApplySlot(d, target, kind, stamp, author)
      [] kind.type = "RangedCreate" -> CreateMark(d, kind, stamp)
      [] kind.type = "RangedSetPayload" -> SetMark(d, kind.id, kind.val, stamp)
      [] kind.type = "RangedDelete" -> DeleteMark(d, kind.id)
      [] kind.type = "AclGrant" -> Grant(d, kind.val, stamp)
      [] kind.type = "AclRevoke" -> Revoke(d, kind.id, author)

Clock(d, zone) == IF zone \in DOMAIN d.clock THEN d.clock[zone] ELSE 0

AdvanceClock(d, zone, to) == [d EXCEPT !.clock = (zone :> Max({Clock(d, zone), to})) @@ @]

ApplyNow(d, op) ==
    ApplyKind(RecordStamp(AdvanceClock([d EXCEPT !.seen = @ \union {op.id}], op.zone, op.stamp[1]), op.stamp),
              op.target, op.kind, op.stamp, op.id[1])

(* The containers from `id` up to the root.                                *)
Ancestors(id) == {SubSeq(id, 1, n) : n \in 0..Len(id)}

Materialised(d, id) == Ancestors(id) \subseteq d.held

Resolvable(d, id) == Materialised(d, id) /\ Ancestors(id) \intersect d.displaced = {}

(* Displacement is no reason to wait; a missing container, annotation or   *)
(* tuple is.                                                               *)
Ready(d, op) ==
    /\ Materialised(d, op.target)
    /\ op.kind.type \in {"RangedSetPayload", "RangedDelete"} => op.kind.id \in DOMAIN d.marks
    /\ op.kind.type = "AclRevoke" => op.kind.id \in DOMAIN d.tuples

-----------------------------------------------------------------------------
(***************************************************************************)
(* The buffer and the transactions waiting in it.                          *)
(***************************************************************************)
NoTx == [id |-> {}, count |-> 0]

Hold(d, op) == [d EXCEPT !.buffer = Append(@, op)]

Buffered(d) == {op.id : op \in Range(d.buffer)}

TxKey(op) == <<op.id[1], op.tx.id>>

Untagged(op) == [op EXCEPT !.tx = NoTx]

UntagResolved(d) ==
    [d EXCEPT !.buffer = [i \in DOMAIN @ |->
        IF @[i].tx # NoTx /\ TxKey(@[i]) \in d.spent THEN Untagged(@[i]) ELSE @[i]]]

TxBuckets(d) == {TxKey(op) : op \in {o \in Range(d.buffer) : o.tx # NoTx}}

Bucket(d, key) == {i \in DOMAIN d.buffer : d.buffer[i].tx # NoTx /\ TxKey(d.buffer[i]) = key}

(* Mutant of IsComplete: one member short is complete.                     *)
IsCompleteEarly(d, key) ==
    \A i \in Bucket(d, key) : d.buffer[i].tx.count <= Cardinality(Bucket(d, key)) + 1

IsComplete(d, key) ==
    \A i \in Bucket(d, key) : d.buffer[i].tx.count = Cardinality(Bucket(d, key))

(* A member that is not ready waits on alone.                              *)
CommitMember(d, op) == IF Ready(d, op) THEN ApplyNow(d, op) ELSE Hold(d, Untagged(op))

(* Out of the buffer: the first untagged op that is ready, else the        *)
(* members of the complete transaction that came first.                    *)
Due(d) ==
    LET ready == {i \in DOMAIN d.buffer : d.buffer[i].tx = NoTx /\ Ready(d, d.buffer[i])}
        complete == {Bucket(d, key) : key \in {k \in TxBuckets(d) : IsComplete(d, k)}}
    IN IF ready # {} THEN {Min(ready)}
       ELSE IF complete = {} THEN {} ELSE CHOOSE b \in complete : Min(b) = Min(UNION complete)

BySeq(ops) == SetToSortSeq(ops, LAMBDA a, b : a.id[2] < b.id[2])

SpendKeys(d, members) ==
    UntagResolved([d EXCEPT !.spent = @ \union {TxKey(op) : op \in {o \in members : o.tx # NoTx}}])

(* One round of the drain, the members of a transaction in the order of    *)
(* their sequence numbers.                                                 *)
DrainStep(d) ==
    LET due == Due(d)
        members == {d.buffer[i] : i \in due}
        rest == SelectSeq(d.buffer, LAMBDA op : op \notin members)
    IN IF due = {} THEN d
       ELSE FoldSteps(CommitMember, SpendKeys([d EXCEPT !.buffer = rest], members), BySeq(members))

(* To the fixpoint: a round applies an op or resolves a transaction.       *)
DrainBuffer(d) == FoldSteps(LAMBDA e, i : DrainStep(e), d, [i \in 1..(2 * Len(d.buffer)) |-> i])

Apply(d, op) ==
    LET o == IF TxKey(op) \in d.spent THEN Untagged(op) ELSE op
        free == [d EXCEPT !.reserved = @ \ {op.id}]
        waits == o.tx # NoTx \/ ~Ready(d, o)
        taken == IF waits THEN Hold(RecordStamp(free, o.stamp), o) ELSE ApplyNow(free, o)
    IN IF op.id \in d.seen \union Buffered(d) THEN d
       ELSE IF waits /\ o.tx = NoTx THEN taken
       ELSE DrainBuffer(taken)

(* Mutant of EvictPartialTransactions: the members are released and the    *)
(* keys kept.                                                              *)
EvictKeepingKeys(d) ==
    DrainBuffer([d EXCEPT !.buffer = [i \in DOMAIN @ |-> Untagged(@[i])]])

EvictPartialTransactions(d) ==
    DrainBuffer([d EXCEPT !.buffer = [i \in DOMAIN @ |-> Untagged(@[i])],
                          !.spent = @ \union TxBuckets(d)])

-----------------------------------------------------------------------------
(***************************************************************************)
(* Minting.                                                                *)
(***************************************************************************)
ZoneAt(path) == IF path # Root /\ path[1][1] \in ZoneKey THEN path[1][1] ELSE "root"

(* A create belongs to the zone of the child.                              *)
ZoneOfOp(target, kind) ==
    CASE kind.type = "MapCreate" -> ZoneAt(Child(target, kind.key, "map"))
      [] kind.type = "ListCreate" -> ZoneAt(Child(target, kind.key, "list"))
      [] OTHER -> ZoneAt(target)

(* Mutant of MintFloor: the clock of the zone alone.                       *)
MintFloorZone(d, zone) == Clock(d, zone)

MintFloor(d, zone) == Max({Clock(d, zone), d.high[d.client]})

Published(d) == d.seen \union Buffered(d) \union d.reserved

FreeSeq(d) ==
    Min({n \in d.seq..(d.seq + Cardinality(Published(d))) : <<d.client, n>> \notin Published(d)})

(* What a redacted catch-up withheld of this replica's own run.            *)
NotePublished(d, seqs, reach) ==
    RecordStamp([d EXCEPT !.reserved = @ \union ({<<d.client, n>> : n \in seqs} \ Published(d))],
                <<reach, d.client>>)

(* The op a local edit mints.                                              *)
Mint(d, target, kind) ==
    LET zone == ZoneOfOp(target, kind)
    IN [id |-> <<d.client, FreeSeq(d)>>, stamp |-> <<MintFloor(d, zone) + 1, d.client>>,
        target |-> target, kind |-> kind, tx |-> NoTx, zone |-> zone]

Emit(d, op) == ApplyNow([d EXCEPT !.seq = op.id[2] + 1], op)

(* A commit is one transaction for each zone its ops fall in.              *)
TxOf(ops, zone) ==
    LET members == {op \in Range(ops) : op.zone = zone}
    IN [id |-> {op.id[2] : op \in members}, count |-> Cardinality(members)]

Tagged(ops) == [i \in DOMAIN ops |-> [ops[i] EXCEPT !.tx = TxOf(ops, ops[i].zone)]]

TagAtomic(d, ops) ==
    IF ops = <<>> THEN d
    ELSE DrainBuffer(UntagResolved([d EXCEPT !.spent = @ \union
            {<<d.client, TxOf(ops, op.zone).id>> : op \in Range(ops)}]))

-----------------------------------------------------------------------------
(***************************************************************************)
(* Snapshots.  Displacement is not stored: it is recomputed from the       *)
(* slots.  The positions are floored from the ids the snapshot shows.      *)
(***************************************************************************)
InOpOrder(held) ==
    SetToSortSeq(Range(held), LAMBDA a, b : a.id[1] < b.id[1] \/ (a.id[1] = b.id[1] /\ a.id[2] < b.id[2]))

(* A live container is its own create, and the one retained is spelled     *)
(* out only where it is another; the decoder ranks the two again.          *)
Spelled(slot) ==
    [slot EXCEPT !.create = IF @ = CreateOf(slot.value, slot.stamp) THEN NoCreate ELSE @]

InsertDecoded(slot) == [slot EXCEPT !.create = Higher(@, CreateOf(slot.value, slot.stamp))]

EncodeState(d) ==
    [d EXCEPT !.displaced = {}, !.buffer = InOpOrder(@), !.slots = [at \in DOMAIN @ |-> Spelled(@[at])]]

Installed(d) == {Root} \union {s.value.val : s \in {x \in Range(d.slots) : HasId(x.value)}}

(* What the decoder refuses: a slot whose composite is in no registry, an  *)
(* op held twice or held and applied.                                      *)
Decodable(d) ==
    /\ Root \in d.held
    /\ \A s \in {x \in Range(d.slots) : HasId(x.value)} : s.value.val \in d.held \union DOMAIN d.tallies
    /\ Buffered(d) \intersect d.seen = {} /\ d.reserved \intersect (d.seen \union Buffered(d)) = {}
    /\ Cardinality(Buffered(d)) = Len(d.buffer)

SlotStamps(d) == {s.stamp : s \in Range(d.slots)} \union {s.create.stamp : s \in Range(d.slots)}

ShownStamps(d) ==
    SlotStamps(d) \union {a.stamp : a \in Range(d.marks)} \union {op.stamp : op \in Range(d.buffer)}

(* The declared position of a client is only ever raised.                  *)
Floored(d) ==
    [d EXCEPT !.high = [x \in Client |->
        Max({@[x]} \union {s[1] : s \in {t \in ShownStamps(d) : t[2] = x}})]]

DecodeState(snapshot) ==
    DrainBuffer(UntagResolved([Floored(snapshot) EXCEPT
        !.slots = [at \in DOMAIN @ |-> InsertDecoded(@[at])],
        !.displaced = (snapshot.held \union DOMAIN snapshot.tallies) \ Installed(snapshot)]))

NextSeq(d) == FreeSeq(d)

AdoptAs(snapshot, c, next) == [DecodeState(snapshot) EXCEPT !.client = c, !.seq = next, !.reserved = {}]
=============================================================================

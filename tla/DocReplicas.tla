---------------------------- MODULE DocReplicas -----------------------------
(***************************************************************************)
(* Replicas of one document: local edits, atomic transactions, undo and    *)
(* redo (crates/core/src/doc.rs, undo.rs), ops delivered in any order, a   *)
(* replica giving up on a transaction that stays partial, and a replica    *)
(* adopting another one's snapshot.                                        *)
(***************************************************************************)
EXTENDS Document

CONSTANTS
    Key,         \* keys of the maps
    MaxDepth,    \* bound on the nesting of maps
    Budgets      \* the bounds explored, one of them in each behaviour:
                 \* who edits, who receives, the edits on the menu, whether
                 \* one may name an annotation or a tuple already deleted,
                 \* and how many edits, transactions, undos, evictions and
                 \* adoptions

ASSUME DocReplicasAssumption ==
    /\ Client \subseteq Nat \ {0} /\ ZoneKey \subseteq Key
    /\ MaxTally \in Nat /\ MaxDepth \in Nat

VARIABLES
    ops,        \* every op published
    doc,        \* [Client -> document]
    open,       \* [Client -> the atomic transaction being recorded]
    history,    \* [Client -> undo history]
    budget,     \* what is left of the bounds
    gaveUp      \* [Client -> transactions this state was evicted from], observed

vars == <<ops, doc, open, history, budget, gaveUp>>

Closed == [atomic |-> FALSE, ops |-> <<>>, was |-> {}, foreign |-> {}]

(* Undo and redo stacks, the inverses of the intention being recorded, and *)
(* the new id of each annotation or tuple a revival made anew.             *)
NoHistory == [undo |-> <<>>, redo |-> <<>>, open |-> <<>>, revived |-> <<>>]

Init ==
    /\ ops = {}
    /\ doc = [c \in Client |-> EmptyDoc(c)]
    /\ open = [c \in Client |-> Closed]
    /\ history = [c \in Client |-> NoHistory]
    /\ budget \in Budgets
    /\ gaveUp = [c \in Client |-> {}]

-----------------------------------------------------------------------------
(***************************************************************************)
(* What a reader of a replica sees.                                        *)
(***************************************************************************)
Total(d, id) == FoldSet(LAMBDA c, n : n + Tally(d, id)[c].inc - Tally(d, id)[c].dec, 0, Client)

Read(d, value) == IF value.kind = "counter" THEN <<"counter", <<Total(d, value.val)>>>>
                  ELSE <<value.kind, value.val>>

(* Each value of the elements in S and how many of them have it.           *)
Counts(f, S) == {<<f[x].val, Cardinality({y \in S : f[y].val = f[x].val})>> : x \in S}

View(d) ==
    <<{<<at, Read(d, d.slots[at].value)>> : at \in
          {s \in DOMAIN d.slots : Resolvable(d, s[1]) /\ d.slots[s].value # Nothing}},
      Counts(d.marks, {a \in DOMAIN d.marks : ~d.marks[a].tombstone}),
      Counts(d.tuples, {t \in DOMAIN d.tuples : d.tuples[t].revokers = {}})>>

-----------------------------------------------------------------------------
(***************************************************************************)
(* The inverse of an edit, read off the state it is about to change.  A    *)
(* step with a `was` makes anew what was deleted, under a fresh id.        *)
(***************************************************************************)
Step(target, kind) == [target |-> target, kind |-> kind, was |-> <<>>]

(* What an edit does to a slot, and to an annotation or a tuple by its id. *)
Kind(type, key, val) == [type |-> type, key |-> key, id |-> <<>>, val |-> val]

Named(type, id, val) == [type |-> type, key |-> "", id |-> id, val |-> val, anchors |-> {}]

SlotInverse(d, m, key) ==
    LET value == Slot(d, m, key).value
    IN Step(m, CASE value.kind = "none" -> Kind("MapDelete", key, <<>>)
                 [] value.kind = "scalar" -> Kind("MapSet", key, value.val)
                 [] value.kind = "register" -> Kind("RegisterSet", key, value.val)
                 [] value.kind = "counter" -> Kind("CounterInc", key, <<0>>)
                 [] value.kind = "map" -> Kind("MapCreate", key, <<>>)
                 [] value.kind = "list" -> Kind("ListCreate", key, <<>>))

(* Mutant of CounterInverse: the delta is cancelled last.                  *)
CounterInverseLast(d, m, kind, cancel) ==
    <<Step(m, Kind(cancel, kind.key, kind.val)), SlotInverse(d, m, kind.key)>>

(* The slot step comes first, so that the reversed replay gives the slot   *)
(* back after it has cancelled the delta.                                  *)
CounterInverse(d, m, kind, cancel) ==
    (IF Slot(d, m, kind.key).value.kind = "counter" THEN <<>> ELSE <<SlotInverse(d, m, kind.key)>>)
        \o <<Step(m, Kind(cancel, kind.key, kind.val))>>

(* A tombstone is terminal: what comes back is a new annotation.           *)
RangedInverse(d, id) ==
    IF d.marks[id].tombstone THEN <<>>
    ELSE <<[target |-> Root, kind |-> Named("RangedCreate", <<>>, d.marks[id].val), was |-> id]>>

InverseOf(d, target, kind, stamp) ==
    CASE kind.type = "CounterInc" -> CounterInverse(d, target, kind, "CounterDec")
      [] kind.type = "CounterDec" -> CounterInverse(d, target, kind, "CounterInc")
      [] kind.type = "RangedCreate" -> <<Step(target, Named("RangedDelete", stamp, <<>>))>>
      [] kind.type = "RangedSetPayload" ->
           <<Step(target, Named("RangedSetPayload", kind.id, d.marks[kind.id].val))>>
      [] kind.type = "RangedDelete" -> RangedInverse(d, kind.id)
      [] kind.type = "AclGrant" -> <<Step(target, Named("AclRevoke", stamp, <<>>))>>
      [] kind.type = "AclRevoke" ->
           <<[target |-> target, kind |-> Named("AclGrant", <<>>, d.tuples[kind.id].val),
              was |-> kind.id]>>
      [] OTHER -> <<SlotInverse(d, target, kind.key)>>

(* A recording: the document, the ops emitted, the inverses recorded and   *)
(* the revivals.                                                           *)
EmitInto(r, target, kind) ==
    LET op == Mint(r.doc, target, kind)
    IN [r EXCEPT !.doc = Emit(@, op), !.ops = Append(@, op),
                 !.steps = @ \o InverseOf(r.doc, target, kind, op.stamp)]

Recording(d, steps, revived) == [doc |-> d, ops |-> <<>>, steps |-> steps, revived |-> revived]

(* The id an annotation or a tuple has come back as, revival after revival.*)
Current(revived, id) ==
    FoldSet(LAMBDA x, cur : IF cur \in DOMAIN revived THEN revived[cur] ELSE cur, id, DOMAIN revived)

FollowRevivals(r, kind) ==
    IF kind.type \in {"RangedSetPayload", "RangedDelete", "AclRevoke"}
    THEN [kind EXCEPT !.id = Current(r.revived, @)] ELSE kind

(* What comes back under a fresh id is remembered by the one it had.       *)
Revive(r, step) ==
    LET e == EmitInto(r, step.target, step.kind)
    IN [e EXCEPT !.revived = (step.was :> Last(e.ops).stamp) @@ @]

EmitInverse(r, step) ==
    IF step.was # <<>> THEN Revive(r, step) ELSE EmitInto(r, step.target, FollowRevivals(r, step.kind))

(* The container a step puts into a map slot.                              *)
Installs(step) ==
    CASE step.kind.type = "MapCreate" -> {Child(step.target, step.kind.key, "map")}
      [] step.kind.type = "ListCreate" -> {Child(step.target, step.kind.key, "list")}
      [] OTHER -> {}

(* The containers above `target` that this intention can put back are put  *)
(* back, the outermost first.                                              *)
Reinstate(r, target, plan) ==
    LET Link(e, n) ==
            LET at == {i \in DOMAIN plan : SubSeq(target, 1, n) \in Installs(plan[i])}
            IN IF at = {} \/ ~Materialised(e.doc, plan[Max(at)].target) THEN e
               ELSE EmitInto(e, plan[Max(at)].target, plan[Max(at)].kind)
    IN FoldLeft(Link, r, [n \in 1..Len(target) |-> n])

ReplaySteps(r, steps) ==
    LET plan == Reverse(steps)
        Replayed(e, step) ==
            LET ready == IF Resolvable(e.doc, step.target) THEN e ELSE Reinstate(e, step.target, plan)
            IN IF Materialised(ready.doc, step.target) THEN EmitInverse(ready, step) ELSE ready
    IN FoldLeft(Replayed, r, plan)

TagReplay(r) == [r EXCEPT !.doc = TagAtomic(@, r.ops), !.ops = Tagged(@)]

Replay(d, h, intention) ==
    LET r == ReplaySteps(Recording(d, <<>>, h.revived), intention.steps)
        drained == [r EXCEPT !.doc = DrainBuffer(@)]
    IN IF intention.atomic THEN TagReplay(drained) ELSE drained

-----------------------------------------------------------------------------
Foreign(d) == {id \in d.seen : id[1] # d.client}

(* An intention closed: its inverses, with what was shown before it and    *)
(* the others' ops applied by then (observed).                             *)
Intention(steps, atomic, was, foreign) ==
    [steps |-> steps, atomic |-> atomic, was |-> was, foreign |-> foreign]

CloseFresh(h, intention) ==
    [h EXCEPT !.open = <<>>, !.redo = IF intention.steps = <<>> THEN @ ELSE <<>>,
              !.undo = IF intention.steps = <<>> THEN @ ELSE Append(@, intention)]

(* A transact of one edit: applied, the buffer replayed, and its op        *)
(* published unless a transaction is being recorded.                       *)
Edit(c, target, kind) ==
    /\ budget.edits > 0
    /\ budget' = [budget EXCEPT !.edits = @ - 1]
    /\ \E r \in {EmitInto(Recording(doc[c], history[c].open, history[c].revived), target, kind)} :
          /\ doc' = [doc EXCEPT ![c] = DrainBuffer(r.doc)]
          /\ IF open[c].atomic
             THEN /\ open' = [open EXCEPT ![c].ops = @ \o r.ops]
                  /\ history' = [history EXCEPT ![c].open = r.steps]
                  /\ UNCHANGED ops
             ELSE /\ ops' = ops \union Range(r.ops)
                  /\ history' = [history EXCEPT ![c] =
                         CloseFresh(@, Intention(r.steps, FALSE, View(doc[c]), Foreign(doc[c])))]
                  /\ UNCHANGED open
    /\ UNCHANGED gaveUp

(* The value a fresh edit writes is named by its op's id.                  *)
Fresh(c) == <<c, FreeSeq(doc[c])>>

(* The edits a cursor can make: in a map held here; descending into a map  *)
(* that is there emits nothing.                                            *)
SlotEdits(c, m, key) ==
    {[target |-> m, kind |-> Kind(type, key, IF type \in CounterTypes THEN <<1>>
                                             ELSE IF type \in {"MapSet", "RegisterSet"} THEN Fresh(c)
                                             ELSE <<>>)] :
        type \in {t \in SlotTypes \intersect budget.menu :
                    /\ ContainerKind(t) # "none" => Len(m) < MaxDepth
                    /\ t = "MapCreate" => Slot(doc[c], m, key).value.kind # "map"}}

(* Annotations and tuples are named by their id.                           *)
NoteEdits(c) ==
    LET live == {a \in DOMAIN doc[c].marks : budget.stale \/ ~doc[c].marks[a].tombstone}
        granted == {t \in DOMAIN doc[c].tuples : budget.stale \/ doc[c].tuples[t].revokers = {}}
    IN {[target |-> Root, kind |-> kind] : kind \in
            {k \in {Named("RangedCreate", <<>>, Fresh(c)), Named("AclGrant", <<>>, Fresh(c))}
                    \union {Named("RangedSetPayload", a, Fresh(c)) : a \in live}
                    \union {Named("RangedDelete", a, <<>>) : a \in live}
                    \union {Named("AclRevoke", t, <<>>) : t \in granted} : k.type \in budget.menu}}

IsMap(id) == id # Root => Last(id)[2] = "map"

LocalEdit(c) ==
    \E edit \in NoteEdits(c) \union UNION {SlotEdits(c, m, key) : m \in {h \in doc[c].held : IsMap(h)}, key \in Key} :
        Edit(c, edit.target, edit.kind)

BeginAtomic(c) ==
    /\ budget.groups > 0 /\ ~open[c].atomic
    /\ budget' = [budget EXCEPT !.groups = @ - 1]
    /\ open' = [open EXCEPT ![c] = [atomic |-> TRUE, ops |-> <<>>,
                                       was |-> View(doc[c]), foreign |-> Foreign(doc[c])]]
    /\ UNCHANGED <<ops, doc, history, gaveUp>>

CommitAtomic(c) ==
    /\ open[c].atomic
    /\ doc' = [doc EXCEPT ![c] = TagAtomic(@, open[c].ops)]
    /\ ops' = ops \union Range(Tagged(open[c].ops))
    /\ history' = [history EXCEPT ![c] =
           CloseFresh(@, Intention(@.open, TRUE, open[c].was, open[c].foreign))]
    /\ open' = [open EXCEPT ![c] = Closed]
    /\ UNCHANGED <<budget, gaveUp>>

(* The substitutions go once no stacked intention can name them.           *)
Prune(h) == IF h.undo = <<>> /\ h.redo = <<>> THEN [h EXCEPT !.revived = <<>>] ELSE h

Stacks(undo, redo, revived) == Prune([undo |-> undo, redo |-> redo, open |-> <<>>, revived |-> revived])

(* Undo replays the last intention and leaves its mirror to redo; redo the *)
(* other way round.                                                        *)
Replaying(c, from) ==
    LET h == history[c]
        done == Last(h[from])
    IN /\ budget.undos > 0 /\ ~open[c].atomic /\ h[from] # <<>>
       /\ budget' = [budget EXCEPT !.undos = @ - 1]
       /\ \E r \in {Replay(doc[c], h, done)} :
             LET mirror == Intention(r.steps, done.atomic, View(doc[c]), Foreign(doc[c]))
             IN /\ doc' = [doc EXCEPT ![c] = r.doc]
                /\ ops' = ops \union Range(r.ops)
                /\ history' = [history EXCEPT ![c] =
                       IF from = "undo" THEN Stacks(Front(h.undo), Append(h.redo, mirror), r.revived)
                       ELSE Stacks(Append(h.undo, mirror), Front(h.redo), r.revived)]
       /\ UNCHANGED <<open, gaveUp>>

Undo(c) == Replaying(c, "undo")

Redo(c) == Replaying(c, "redo")

Receive(c, op) ==
    /\ op.id \notin doc[c].seen \union Buffered(doc[c])
    /\ doc' = [doc EXCEPT ![c] = Apply(@, op)]
    /\ UNCHANGED <<ops, open, history, budget, gaveUp>>

GiveUp(c) ==
    /\ budget.evictions > 0 /\ TxBuckets(doc[c]) # {}
    /\ budget' = [budget EXCEPT !.evictions = @ - 1]
    /\ doc' = [doc EXCEPT ![c] = EvictPartialTransactions(@)]
    /\ gaveUp' = [gaveUp EXCEPT ![c] = @ \union TxBuckets(doc[c])]
    /\ UNCHANGED <<ops, open, history>>

(* A replica takes over a snapshot in which all its own ops are.           *)
Adopt(c, s) ==
    /\ budget.adopts > 0 /\ c # s /\ ~open[c].atomic /\ ~open[s].atomic
    /\ {op.id : op \in {o \in ops : o.id[1] = c}} \subseteq doc[s].seen \union Buffered(doc[s])
    /\ budget' = [budget EXCEPT !.adopts = @ - 1]
    /\ doc' = [doc EXCEPT ![c] = AdoptAs(EncodeState(doc[s]), c, NextSeq(doc[c]))]
    /\ history' = [history EXCEPT ![c] = NoHistory]
    /\ gaveUp' = [gaveUp EXCEPT ![c] = gaveUp[s]]
    /\ UNCHANGED <<ops, open>>

Next ==
    \E c \in Client :
        \/ c \in budget.authors /\ (LocalEdit(c) \/ BeginAtomic(c))
        \/ CommitAtomic(c) \/ Undo(c) \/ Redo(c) \/ GiveUp(c)
        \/ c \in budget.receivers /\ \E op \in ops : Receive(c, op)
        \/ \E s \in Client : Adopt(c, s)

Spec == Init /\ [][Next]_vars

-----------------------------------------------------------------------------
(***************************************************************************)
(* The reference: what a set of ops means, with no order of arrival.       *)
(***************************************************************************)
AllOps == ops \union UNION {Range(open[c].ops) : c \in Client}

Applied(c) == {op \in AllOps : op.id \in doc[c].seen}

CreateKind(op) == ContainerKind(op.kind.type)

Writes(S, at) == {op \in S : op.target = at[1] /\ op.kind.key = at[2]}

Latest(S) == CHOOSE op \in S : \A o \in S : o = op \/ Later(op.stamp, o.stamp)

SlotOf(S, at) ==
    LET creates == {op \in Writes(S, at) : CreateKind(op) # "none"}
        top == Latest(Writes(S, at))
    IN [stamp |-> top.stamp, value |-> ValueOf(at[1], top.kind),
        create |-> IF creates = {} THEN NoCreate
                   ELSE [stamp |-> Latest(creates).stamp, kind |-> CreateKind(Latest(creates))]]

Sum(S, c, type) ==
    Min({MaxTally, FoldSet(LAMBDA op, n : n + op.kind.val[1], 0,
                           {op \in S : op.id[1] = c /\ op.kind.type = type})})

Deltas(S, id) ==
    {op \in Writes(S, <<Front(id), Last(id)[1]>>) : op.kind.type \in {"CounterInc", "CounterDec"}}

MarkOf(S, id) ==
    LET created == CHOOSE op \in S : op.kind.type = "RangedCreate" /\ op.stamp = id
        on == {op \in S : op.kind.type = "RangedSetPayload" /\ op.kind.id = id}
        top == Latest(on \union {created})
    IN [val |-> top.kind.val, anchors |-> created.kind.anchors, stamp |-> top.stamp,
        tombstone |-> \E op \in S : op.kind.type = "RangedDelete" /\ op.kind.id = id]

(* A replica holds exactly what the ops it applied mean, in whatever order *)
(* they came, through the buffer, a transaction or a snapshot: the last    *)
(* write of each slot and the highest create it ever had, every counter's  *)
(* tallies whether it has its slot or not, and each annotation and tuple.  *)
(* One that has received every op has applied them all: no delete, write   *)
(* or stray of a transaction given up waits for something that has come.   *)
ShowsItsOps ==
    \A c \in Client :
        LET S == Applied(c)
            d == doc[c]
            InSlot(op) == op.kind.key \in Key
        IN /\ {op.id : op \in AllOps} \subseteq d.seen \union Buffered(d) => d.buffer = <<>>
           /\ DOMAIN d.slots = {<<op.target, op.kind.key>> : op \in {o \in S : InSlot(o)}}
           /\ \A at \in DOMAIN d.slots : d.slots[at] = SlotOf(S, at)
           /\ d.held = {Root} \union {Child(op.target, op.kind.key, CreateKind(op)) :
                                         op \in {o \in S : CreateKind(o) # "none"}}
           /\ \A id \in DOMAIN d.tallies, x \in Client :
                 d.tallies[id][x] = [inc |-> Sum(Deltas(S, id), x, "CounterInc"),
                                     dec |-> Sum(Deltas(S, id), x, "CounterDec")]
           /\ DOMAIN d.marks = {op.stamp : op \in {o \in S : o.kind.type = "RangedCreate"}}
           /\ \A id \in DOMAIN d.marks : d.marks[id] = MarkOf(S, id)
           /\ DOMAIN d.tuples = {op.stamp : op \in {o \in S : o.kind.type = "AclGrant"}}
           /\ \A id \in DOMAIN d.tuples : d.tuples[id].revokers =
                 {op.id[1] : op \in {o \in S : o.kind.type = "AclRevoke" /\ o.kind.id = id}}

(* What a replica writes as its snapshot is accepted and is what it reads  *)
(* back, which of its containers are displaced included, in whatever state *)
(* of a transaction, a displacement or an undo it is written.              *)
SnapshotFaithful ==
    \A c \in Client :
        /\ Decodable(EncodeState(doc[c]))
        /\ DecodeState(EncodeState(doc[c])) = [doc[c] EXCEPT !.buffer = InOpOrder(@)]

(* The members of a transaction take effect together: before it resolves   *)
(* no member of it is applied, and once it has (unless by giving up) each  *)
(* is applied or waits only for what it edits.                             *)
AllOrNothing ==
    \A c \in Client, op \in {o \in ops : o.tx # NoTx} :
        LET ids == {<<op.id[1], n>> : n \in op.tx.id}
            d == doc[c]
        IN /\ TxKey(op) \notin d.spent => ids \intersect d.seen = {}
           /\ TxKey(op) \in d.spent \ gaveUp[c] =>
                 \A id \in ids : \/ id \in d.seen
                                 \/ \E o \in Range(d.buffer) : o.id = id /\ o.tx = NoTx /\ ~Ready(d, o)

(* No id and no stamp is minted twice, in any zone and across the adoption *)
(* of a snapshot.                                                          *)
MintsUnique ==
    \A o, p \in AllOps : (o.id = p.id \/ o.stamp = p.stamp) =>
        o.id = p.id /\ o.stamp = p.stamp /\ o.kind = p.kind /\ o.target = p.target

Unsaturated(d) == \A id \in DOMAIN d.tallies, c \in Client :
    d.tallies[id][c].inc < MaxTally /\ d.tallies[id][c].dec < MaxTally

(* Undo and redo put back what was shown before the intention they take    *)
(* back, as long as no other replica's op has come in since.               *)
UndoRestores ==
    \A c \in Client : \A stack \in {history[c].undo, history[c].redo} :
        /\ stack # <<>> /\ budget.undos > 0 /\ ~open[c].atomic /\ Last(stack).foreign = Foreign(doc[c])
        /\ Unsaturated(doc[c])
        => \A r \in {Replay(doc[c], history[c], Last(stack))} :
              Unsaturated(r.doc) => View(r.doc) = Last(stack).was
=============================================================================

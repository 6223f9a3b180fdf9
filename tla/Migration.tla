------------------------------ MODULE Migration ------------------------------
(***************************************************************************)
(* The schema chain of an application and what the server makes of a       *)
(* document for a reader at another version (crates/core/src/migration.rs, *)
(* crates/server/src/translate.rs, doc.rs migrate_leaf_slots): an op is    *)
(* stored once, at the version it was written at, and rewritten for its    *)
(* reader; a snapshot is rewritten slot by slot.                           *)
(***************************************************************************)
EXTENDS Document

CONSTANTS
    Edges,       \* Edges[v] is the migration from version v to v + 1, a sequence of steps
    RootType,    \* the map type of the root
    ChildType    \* <<map type, key>> -> the map type of the container there

(* A step is [type, ty, field, to]; only the field steps rewrite anything. *)
BackCompatible(step) == step.type \in {"AddType", "AddField"}

(* What a step makes of a key: at most one key.                            *)
RewriteUp(step, key) ==
    CASE step.type = "RenameField" /\ key = step.field -> {step.to}
      [] step.type = "RemoveField" /\ key = step.field -> {}
      [] OTHER -> {key}

RewriteDown(step, key) == IF step.type = "AddField" /\ key = step.field THEN {} ELSE {key}

(* A field step is inert on the maps of another type; where the type is    *)
(* not known it goes by the key alone.                                     *)
StepApplies(step, types) ==
    step.type \in {"AddField", "RemoveField", "RenameField"} => types \subseteq {step.ty}

EdgeSlice(low, high) == FlattenSeq(SubSeq(Edges, low, high - 1))

Registered(v) == v \in 1..(Len(Edges) + 1)

Reachable(from, to) ==
    /\ Registered(from) /\ Registered(to)
    /\ to < from => \A i \in DOMAIN EdgeSlice(to, from) : BackCompatible(EdgeSlice(to, from)[i])

(* The steps between two versions in the order they are walked.            *)
Chain(from, to) ==
    IF from <= to THEN [up |-> TRUE, steps |-> EdgeSlice(from, to)]
    ELSE [up |-> FALSE, steps |-> Reverse(EdgeSlice(to, from))]

TranslateKey(chain, key, types) ==
    LET walk[n \in 0..Len(chain.steps)] ==
            IF n = 0 THEN {key}
            ELSE LET step == chain.steps[n]
                 IN UNION {IF ~StepApplies(step, types) THEN {k}
                           ELSE IF chain.up THEN RewriteUp(step, k) ELSE RewriteDown(step, k) : k \in walk[n - 1]}
    IN walk[Len(chain.steps)]

CreatesContainer(op) == op.kind.type \in {"MapCreate", "ListCreate"}

(* A create is carried as it is, whatever its key: what hangs below it     *)
(* derives its id from that key.                                           *)
TranslateOp(chain, op, types) ==
    IF CreatesContainer(op) \/ "key" \notin DOMAIN op.kind THEN {op}
    ELSE {[op EXCEPT !.kind.key = k] : k \in TranslateKey(chain, op.kind.key, types)}

(* The transactions a filter splits, and their survivors riding alone.     *)
SplitGroups(ops) == {TxKey(op) : op \in {o \in ops : o.tx # NoTx}}

(* Mutant of DestrandSplit: the survivors keep their tags.                 *)
DestrandSplitNot(ops, split) == ops

DestrandSplit(ops, split) ==
    [i \in DOMAIN ops |-> IF ops[i].tx # NoTx /\ TxKey(ops[i]) \in split THEN Untagged(ops[i]) ELSE ops[i]]

At(seq, kept) == FlattenSeq([i \in DOMAIN seq |-> IF i \in kept THEN <<seq[i]>> ELSE <<>>])

(* Keep the ops at the positions in `kept`.                                *)
RetainAtomic(ops, kept) ==
    DestrandSplit(At(ops, kept), SplitGroups({ops[i] : i \in DOMAIN ops \ kept}))

TypeOf(types, m) == IF m \in DOMAIN types THEN {types[m]} ELSE {}

TranslateOps(chain, ops, types) ==
    LET images == [i \in DOMAIN ops |-> TranslateOp(chain, ops[i], TypeOf(types, ops[i].target))]
        kept == {i \in DOMAIN ops : images[i] # {}}
        Image(i) == CHOOSE op \in images[i] : TRUE
    IN RetainAtomic([i \in DOMAIN ops |-> IF i \in kept THEN Image(i) ELSE ops[i]], kept)

(* A delta of stored ops, each [op, version], version by version; an op    *)
(* without one, or already there, passes; one that cannot get there does   *)
(* not.  The members of a transaction have one version and stand together, *)
(* so that the runs of a version need not be told apart.                   *)
TranslateDelta(delta, to, types) ==
    LET ops == [i \in DOMAIN delta |-> delta[i].op]
        Images(i) ==
            IF delta[i].version \in {0, to} THEN {delta[i].op}
            ELSE IF ~Reachable(delta[i].version, to) THEN {}
            ELSE TranslateOp(Chain(delta[i].version, to), delta[i].op, TypeOf(types, delta[i].op.target))
        kept == {i \in DOMAIN delta : Images(i) # {}}
        Image(i) == CHOOSE op \in Images(i) : TRUE
    IN RetainAtomic([i \in DOMAIN delta |-> IF i \in kept THEN Image(i) ELSE ops[i]], kept)

-----------------------------------------------------------------------------
(***************************************************************************)
(* The types of the maps, root down through the live slots.                *)
(***************************************************************************)
DeclaredType(m) ==
    LET down[n \in 0..Len(m)] ==
            IF n = 0 THEN {RootType}
            ELSE {ChildType[t, m[n][1]] : t \in {x \in down[n - 1] : <<x, m[n][1]>> \in DOMAIN ChildType}}
    IN down[Len(m)]

ElementTypes(d) ==
    LET typed == {m \in d.held : /\ Resolvable(d, m) /\ DeclaredType(m) # {}
                                 /\ \A n \in DOMAIN m : m[n][2] = "map"}
    IN [m \in typed |-> CHOOSE t \in DeclaredType(m) : TRUE]

-----------------------------------------------------------------------------
(***************************************************************************)
(* Migrating a snapshot.  Every slot whose key changes is taken out, then  *)
(* put where it goes by the later stamp.  A live container stays where it  *)
(* is, as its create does; a deleted one comes back at the key it was      *)
(* created at, and its delete moves.                                       *)
(***************************************************************************)
Fate(chain, types, m, key) == TranslateKey(chain, key, TypeOf(types, m))

Movers(d, chain, types) == {at \in DOMAIN d.slots : Fate(chain, types, at[1], at[2]) # {at[2]}}

Deleted(slot) == slot.value = Nothing

HoldsContainer(d, at) == \E kind \in {"map", "list"} : Child(at[1], at[2], kind) \in d.held

Resurrects(d, at) ==
    LET slot == d.slots[at]
    IN Deleted(slot) /\ slot.create # NoCreate /\ Child(at[1], at[2], slot.create.kind) \in d.held

Carried(d, at) ==
    ~Resurrects(d, at) /\ (IsContainer(d.slots[at].value.kind) \/ (Deleted(d.slots[at]) /\ HoldsContainer(d, at)))

(* A counter or a register that moves gets the id its new key derives.     *)
Rehomed(value, m, key) ==
    IF value.kind = "counter" THEN [value EXCEPT !.val = Child(m, key, "counter")] ELSE value

PutSlotLww(slots, put) ==
    LET prior == IF put.at \in DOMAIN slots THEN slots[put.at] ELSE NoSlot
        create == Higher(prior.create, CreateOf(put.value, put.stamp))
    IN (put.at :> IF Later(put.stamp, prior.stamp)
                  THEN [stamp |-> put.stamp, value |-> put.value, create |-> create]
                  ELSE [prior EXCEPT !.create = create]) @@ slots

Puts(d, chain, types, at) ==
    LET slot == d.slots[at]
        dest == {<<at[1], key>> : key \in Fate(chain, types, at[1], at[2])}
        created == [kind |-> slot.create.kind, val |-> Child(at[1], at[2], slot.create.kind)]
    IN IF Carried(d, at) THEN {}
       ELSE {[at |-> to, stamp |-> slot.stamp, value |-> Rehomed(slot.value, at[1], to[2])] : to \in dest}
            \union IF Resurrects(d, at) THEN {[at |-> at, stamp |-> slot.create.stamp, value |-> created]} ELSE {}

(* A put cannot tie with another: the order does not matter.               *)
InStampOrder(puts) == SetToSortSeq(puts, LAMBDA a, b : Later(b.stamp, a.stamp))

MergeTally(a, b) ==
    [x \in Client |-> [inc |-> Max({a[x].inc, b[x].inc}), dec |-> Max({a[x].dec, b[x].dec})]]

(* The counter of a key moves whatever the slot shows: into the counter at *)
(* the new key, or away.                                                   *)
MigrateTallies(d, chain, types) ==
    LET counterAt(at) == Child(at[1], at[2], "counter")
        from == {at \in Movers(d, chain, types) : counterAt(at) \in DOMAIN d.tallies}
        to == UNION {{Child(at[1], key, "counter") : key \in Fate(chain, types, at[1], at[2])} : at \in from}
        stay == DOMAIN d.tallies \ {counterAt(at) : at \in from}
        Into(id) == {d.tallies[counterAt(at)] :
                        at \in {x \in from : \E key \in Fate(chain, types, x[1], x[2]) : id = Child(x[1], key, "counter")}}
                    \union IF id \in stay THEN {d.tallies[id]} ELSE {}
    IN [id \in stay \union to |-> FoldSet(MergeTally, NoTally, Into(id))]

MigrateLeafSlots(d, chain, types) ==
    LET movers == Movers(d, chain, types)
        taken == {at \in movers : ~Carried(d, at)}
        left == [at \in DOMAIN d.slots \ taken |-> d.slots[at]]
    IN [d EXCEPT !.slots = FoldSteps(PutSlotLww, left,
                               InStampOrder(UNION {Puts(d, chain, types, at) : at \in movers})),
                 !.tallies = MigrateTallies(d, chain, types)]

TranslateSnapshot(snapshot, from, to) ==
    IF from = to \/ ~Reachable(from, to) THEN snapshot
    ELSE LET Migrated(d) == EncodeState(MigrateLeafSlots(d, Chain(from, to), ElementTypes(d)))
         IN Migrated(DecodeState(snapshot))
=============================================================================

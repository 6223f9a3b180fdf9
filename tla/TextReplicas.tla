---------------------------- MODULE TextReplicas ----------------------------
(***************************************************************************)
(* Replicas editing one text: local inserts and deletes minted under a     *)
(* Lamport clock (crates/core/src/doc.rs, text.rs), and every replica      *)
(* folding the others' ops in whatever order they arrive, a delete waiting *)
(* in the buffer until the items it names are there.                       *)
(***************************************************************************)
EXTENDS Sequence

CONSTANTS
    Client,      \* positive integers; the order of client ids breaks ties
    MaxOps,      \* bound on the ops of all replicas together
    MaxItems,    \* bound on the items they insert
    MaxRun       \* bound on the length of one insert or delete

ASSUME TextReplicasAssumption ==
    /\ Client \subseteq Nat \ {0}
    /\ MaxOps \in Nat /\ MaxItems \in Nat /\ MaxRun \in Nat \ {0}

VARIABLES
    ops,        \* every op minted, each with the ops its author had applied
    list,       \* [Client -> list]
    clock,      \* [Client -> Nat], the Lamport clock
    seen,       \* [Client -> SUBSET ops], applied
    buffer      \* [Client -> SUBSET ops], held

vars == <<ops, list, clock, seen, buffer>>

Init ==
    /\ ops = {}
    /\ list = [c \in Client |-> EmptyList]
    /\ clock = [c \in Client |-> 0]
    /\ seen = [c \in Client |-> {}]
    /\ buffer = [c \in Client |-> {}]

(* One id per codepoint of an insert, one for any other op.                *)
Reach(op) == op.stamp[1] + (IF op.type = "insert" THEN op.len ELSE 1) - 1

InsertedIds(op) == IF op.type = "insert" THEN {RunId(op.stamp, k) : k \in 0..(op.len - 1)} ELSE {}

ApplyKind(l, op) ==
    IF op.type = "insert" THEN InsertRun(l, op.stamp, op.len, op.anchor)
    ELSE DeleteIds(l, op.ids)

(* Mutant of Ready: a delete is applied to whatever items are there.       *)
ReadyAlways(l, op) == TRUE

Ready(l, op) == op.type = "delete" => \A id \in op.ids : ContainsId(l, id)

-----------------------------------------------------------------------------
(* A local edit is stamped above the clock and applied at once.            *)
Emit(c, op) ==
    /\ Cardinality(ops) < MaxOps
    /\ Cardinality(UNION {InsertedIds(o) : o \in ops \union {op}}) <= MaxItems
    /\ ops' = ops \union {op}
    /\ list' = [list EXCEPT ![c] = ApplyKind(@, op)]
    /\ clock' = [clock EXCEPT ![c] = Reach(op)]
    /\ seen' = [seen EXCEPT ![c] = @ \union {op}]
    /\ UNCHANGED buffer

Stamps(S) == {op.stamp : op \in S}

InsertText(c, index, len) ==
    Emit(c, [type |-> "insert", stamp |-> <<clock[c] + 1, c>>, len |-> len,
             anchor |-> Place(list[c], index), after |-> Stamps(seen[c])])

DeleteText(c, index, count) ==
    LET live == LiveOrder(list[c])
        ids == {live[i] : i \in (index + 1)..Min({index + count, Len(live)})}
    IN /\ ids # {}
       /\ Emit(c, [type |-> "delete", stamp |-> <<clock[c] + 1, c>>, ids |-> ids,
                   after |-> Stamps(seen[c])])

(* Mutant of Drained: the replay stops after the first held op.            *)
DrainedOnce(l, held) ==
    LET due == {op \in held : Ready(l, op)}
    IN IF due = {} THEN {} ELSE {CHOOSE op \in due : TRUE}

(* Every held op that is ready is replayed, to a fixpoint: deletes make    *)
(* nothing else ready, so one pass is it.                                  *)
Drained(l, held) == {op \in held : Ready(l, op)}

Receive(c, op) ==
    /\ op \notin seen[c] \union buffer[c]
    /\ IF Ready(list[c], op)
       THEN LET applied == ApplyKind(list[c], op)
                due == Drained(applied, buffer[c])
            IN /\ list' = [list EXCEPT ![c] = FoldSet(LAMBDA o, l : ApplyKind(l, o), applied, due)]
               /\ seen' = [seen EXCEPT ![c] = @ \union {op} \union due]
               /\ buffer' = [buffer EXCEPT ![c] = @ \ due]
               /\ clock' = [clock EXCEPT ![c] = Max({@} \union {Reach(o) : o \in {op} \union due})]
       ELSE /\ buffer' = [buffer EXCEPT ![c] = @ \union {op}]
            /\ UNCHANGED <<list, seen, clock>>
    /\ UNCHANGED ops

(* Positions are those of the items shown: one whose anchor has not        *)
(* arrived yet is held and not shown.                                      *)
Next ==
    \E c \in Client :
        \/ LET shown == Len(LiveOrder(list[c]))
           IN \/ \E index \in 0..shown, len \in 1..MaxRun : InsertText(c, index, len)
              \/ \E index \in 0..(shown - 1), count \in 1..MaxRun : DeleteText(c, index, count)
        \/ \E op \in ops : Receive(c, op)

Spec == Init /\ [][Next]_vars

-----------------------------------------------------------------------------
(***************************************************************************)
(* The reference: what a set of ops means, one item at a time and with no  *)
(* compression.                                                            *)
(***************************************************************************)
Deleted(S) == UNION {op.ids : op \in {o \in S : o.type = "delete"}}

AnchorIn(op, id) == IF id = op.stamp THEN op.anchor ELSE Anchor(RunId(id, -1), "right")

Items(S) == UNION {{Span(id, 1, AnchorIn(op, id)) : id \in InsertedIds(op)} : op \in S}

Order(S) == LET walk == InOrder(Items(S)) IN [i \in DOMAIN walk |-> walk[i].head]

Text(S) == SelectSeq(Order(S), LAMBDA id : id \notin Deleted(S))

(* A replica that applied a set of ops shows the text those ops define,    *)
(* whatever order they came in and however its deleted runs are welded,    *)
(* cut and walked.                                                         *)
ShowsItsOps == \A c \in Client : LiveOrder(list[c]) = Text(seen[c])

(* Replicas that received the same ops applied the same and hold the same  *)
(* state, the runs included, and so does one that reads it back from the   *)
(* other's snapshot.  An op's author applied it: what all have received    *)
(* nobody still holds back.                                                *)
Convergence ==
    \A c, d \in Client : seen[c] \union buffer[c] = seen[d] \union buffer[d] =>
        /\ seen[c] = seen[d]
        /\ list[c] = DecodeState(EncodeState(list[d]))

(* Merging two replicas' lists gives the list of the union of their ops,   *)
(* whichever side merges.                                                  *)
MergeIsUnion ==
    \A c, d \in Client : c < d =>
        LET merged == Merge(list[c], list[d])
        IN /\ merged = Merge(list[d], list[c])
           /\ LiveOrder(merged) = Text(seen[c] \union seen[d])

(* The items of `seq` behind `from`, up to the next one of `base`.         *)
Block(seq, from, base) ==
    LET ends == {i \in DOMAIN seq : i > from /\ seq[i] \in base}
    IN SubSeq(seq, from + 1, Min(ends \union {Len(seq) + 1}) - 1)

(* The items of X and the others do not alternate twice.                   *)
Apart(seq, X) ==
    ~\E i, j, k \in DOMAIN seq :
        i < j /\ j < k /\ (seq[i] \in X) = (seq[k] \in X) /\ (seq[i] \in X) # (seq[j] \in X)

(* What two replicas wrote without seeing each other does not interleave:  *)
(* in any gap of the text they share, one's items come before the other's. *)
NoInterleaving ==
    \A c, d \in Client : c < d =>
        LET common == seen[c] \intersect seen[d]
            mine == seen[c] \ common
            theirs == seen[d] \ common
            shared == UNION {InsertedIds(op) : op \in common}
            ids == UNION {InsertedIds(op) : op \in mine}
            merged == Order(seen[c] \union seen[d])
        IN (\A op \in mine \union theirs :
                Stamps(common) \subseteq op.after
                /\ op.after \subseteq Stamps(common) \union Stamps(IF op \in mine THEN mine ELSE theirs))
           => \A from \in {0} \union {i \in DOMAIN merged : merged[i] \in shared} :
                  Apart(Block(merged, from, shared), ids)

=============================================================================
